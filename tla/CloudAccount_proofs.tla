------------------------ MODULE CloudAccount_proofs ------------------------
(***************************************************************************)
(* Proofs about the sessions that change what the agent keeps in a cloud   *)
(* account, and about the destroy command, which takes away what the steps *)
(* keep there.                                                             *)
(*                                                                         *)
(* CloudAccount: a session is the series of the calls it has yet to make,  *)
(* a tree of looks and of what follows their answers.  The first part has  *)
(* what holds of such series, the second that those of the commands are    *)
(* of that kind, the third the invariants of the sessions, the fourth what *)
(* a delete leaves, the fifth what a setup leaves, the sixth what a delete *)
(* is refused.                                                             *)
(*                                                                         *)
(* Destroyer: the last part, which cites its actions as Destroy!.          *)
(***************************************************************************)
EXTENDS CloudAccount, DestroyState, FiniteSetTheorems, WellFoundedInduction, TLAPS

Destroy == INSTANCE Destroyer

(***************************************************************************)
(* The calls of a session, in any order of looks                           *)
(***************************************************************************)
\* What one call deletes.
Together == {{p} : p \in Part} \cup {{"buildAdmin", "buildAttached"}}

SimpleCalls ==
    [do : {"make"}, part : Part]
    \cup [do : {"remove"}, parts : Together]
    \cup [do : {"try"}, parts : Together, skips : Nat]
    \cup [do : {"truncate"}, kind : {"version", "marker"}, skips : Nat]
    \cup [do : {"update"}]

\* A series of calls that makes no owner of AWS, and skips deletions only.
Deletes(call) == call.do \in {"try", "truncate"}
Tidy(q) ==
    \A i \in 1..Len(q) :
        /\ q[i].do = "make" => q[i].part \notin Aws!Owners
        /\ Deletes(q[i]) => \A j \in 1..q[i].skips : i + j <= Len(q) /\ Deletes(q[i + j])

\* A series that makes an owner first, and next its whole family; of that what
\* every setup repairs does not come first.
Begun(q, o) ==
    /\ q # <<>> /\ q[1] = Make(o)
    /\ Tidy(Tail(q))
    /\ \E n \in 1..Len(q) :
          /\ \A i \in 2..n : q[i].do = "make" /\ q[i].part \in Family[o]
          /\ \A p \in Family[o] : \E i \in 2..n : q[i].part = p
          /\ \A i \in 2..n : q[i].part \in Repaired => i > 3

Ready(q) == Tidy(q) \/ \E o \in Aws!Owners : Begun(q, o)

\* Looks whose answers are series of given calls; only what is looked for
\* is begun.
LooksFor(calls) ==
    {c \in [do : {"look"}, part : Part, found : Seq(calls), missing : Seq(calls)] :
        /\ Tidy(c.found)
        /\ Tidy(c.missing) \/ (c.part \in Aws!Owners /\ Begun(c.missing, c.part))}

Calls1 == SimpleCalls \cup LooksFor(SimpleCalls)
AnyCall == Calls1 \cup LooksFor(Calls1)

Makes(q) == {q[i].part : i \in {j \in DOMAIN q : q[j].do = "make"}}

CallsOK ==
    /\ todo \in [Sessions -> Seq(AnyCall)]
    /\ \A s \in Sessions :
          /\ Ready(todo[s])
          /\ todo[s] # <<>> => InScope(Head(todo[s]))
          /\ command[s] = "none" => todo[s] = <<>>

\* Whoever is about to make it has made the owner, or found it made.
MissingIsMade ==
    \A o \in Owners \cap parts : \A p \in Family[o] \ parts :
        \/ p \in unfinished
        \/ /\ o \in Aws!Owners
           /\ \E s \in Sessions : p \in UnderWay(s) /\ o \notin UnderWay(s)

AccountInv ==
    /\ scope \in Scopes /\ parts \subseteq scope
    /\ command \in [Sessions -> Commands \cup {"none"}]
    /\ CallsOK
    /\ MissingIsMade

(***************************************************************************)
(* Series of calls                                                         *)
(***************************************************************************)
LEMMA SuffixIs ==
  ASSUME NEW S, NEW q \in Seq(S), NEW n \in 0..Len(q)
  PROVE  /\ SubSeq(q, n + 1, Len(q)) \in Seq(S)
         /\ Len(SubSeq(q, n + 1, Len(q))) = Len(q) - n
         /\ \A i \in 1..(Len(q) - n) : SubSeq(q, n + 1, Len(q))[i] = q[n + i]
  OBVIOUS

LEMMA TailIs ==
  ASSUME NEW S, NEW q \in Seq(S), q # <<>>
  PROVE  /\ Tail(q) \in Seq(S) /\ Len(Tail(q)) = Len(q) - 1 /\ Len(q) \in Nat \ {0}
         /\ \A i \in 1..(Len(q) - 1) : Tail(q)[i] = q[i + 1]
         /\ Head(q) = q[1] /\ q[1] \in S
  OBVIOUS

LEMMA ConcatIs ==
  ASSUME NEW S, NEW q \in Seq(S), NEW r \in Seq(S)
  PROVE  /\ q \o r \in Seq(S) /\ Len(q \o r) = Len(q) + Len(r)
         /\ \A i \in 1..Len(q) : (q \o r)[i] = q[i]
         /\ \A i \in 1..Len(r) : (q \o r)[Len(q) + i] = r[i]
         /\ \A i \in (Len(q) + 1)..(Len(q) + Len(r)) : (q \o r)[i] = r[i - Len(q)]
  OBVIOUS

LEMMA TidySuffix ==
  ASSUME NEW S, NEW q \in Seq(S), NEW n \in 0..Len(q), Tidy(q)
  PROVE  Tidy(SubSeq(q, n + 1, Len(q)))
<1> DEFINE r == SubSeq(q, n + 1, Len(q))
<1>1. Len(r) = Len(q) - n /\ \A i \in 1..(Len(q) - n) : r[i] = q[n + i]
  BY SuffixIs, Zenon
<1>2. Len(q) \in Nat /\ n \in Nat
  OBVIOUS
<1> HIDE DEF r
<1> SUFFICES ASSUME NEW i \in 1..Len(r)
             PROVE  /\ r[i].do = "make" => r[i].part \notin Aws!Owners
                    /\ Deletes(r[i]) =>
                         \A j \in 1..r[i].skips : i + j <= Len(r) /\ Deletes(r[i + j])
  BY Zenon DEF Tidy, r
<1>3. n + i \in 1..Len(q) /\ r[i] = q[n + i]
  BY <1>1, <1>2
<1>4. r[i].do = "make" => r[i].part \notin Aws!Owners
  BY <1>3 DEF Tidy
<1>5. ASSUME Deletes(r[i]), NEW j \in 1..r[i].skips
      PROVE  i + j <= Len(r) /\ Deletes(r[i + j])
  <2>1. n + i + j <= Len(q) /\ Deletes(q[n + i + j])
    BY <1>3, <1>5 DEF Tidy
  <2>2. r[i + j] = q[n + i + j] /\ i + j <= Len(r)
    BY <2>1, <1>1, <1>2
  <2> QED BY <2>1, <2>2
<1> QED BY <1>4, <1>5

LEMMA TidyTail ==
  ASSUME NEW S, NEW q \in Seq(S), q # <<>>, Tidy(q)
  PROVE  Tidy(Tail(q))
<1>1. 1 \in 0..Len(q) /\ Tail(q) = SubSeq(q, 1 + 1, Len(q))
  BY TailIs
<1> QED BY <1>1, TidySuffix, Zenon

LEMMA TidyConcat ==
  ASSUME NEW S, NEW q \in Seq(S), NEW r \in Seq(S), Tidy(q), Tidy(r)
  PROVE  Tidy(q \o r)
<1> DEFINE t == q \o r
<1>1. /\ Len(t) = Len(q) + Len(r) /\ Len(q) \in Nat /\ Len(r) \in Nat
      /\ \A i \in 1..Len(q) : t[i] = q[i]
      /\ \A i \in 1..Len(r) : t[Len(q) + i] = r[i]
      /\ \A i \in (Len(q) + 1)..(Len(q) + Len(r)) : t[i] = r[i - Len(q)]
  BY ConcatIs
<1> HIDE DEF t
<1> SUFFICES ASSUME NEW i \in 1..Len(t)
             PROVE  /\ t[i].do = "make" => t[i].part \notin Aws!Owners
                    /\ Deletes(t[i]) =>
                         \A j \in 1..t[i].skips : i + j <= Len(t) /\ Deletes(t[i + j])
  BY Zenon DEF Tidy, t
<1>2. CASE i <= Len(q)
  <2>1. t[i] = q[i] /\ i \in 1..Len(q)
    BY <1>1, <1>2
  <2>2. ASSUME Deletes(t[i]), NEW j \in 1..t[i].skips
        PROVE  i + j <= Len(t) /\ Deletes(t[i + j])
    <3>1. i + j <= Len(q) /\ Deletes(q[i + j])
      BY <2>1, <2>2 DEF Tidy
    <3>2. i + j <= Len(t) /\ t[i + j] = q[i + j]
      BY <3>1, <1>1
    <3> QED BY <3>1, <3>2
  <2>3. t[i].do = "make" => t[i].part \notin Aws!Owners
    BY <2>1 DEF Tidy
  <2> QED BY <2>2, <2>3
<1>3. CASE i > Len(q)
  <2> DEFINE k == i - Len(q)
  <2>1. t[i] = r[k] /\ k \in 1..Len(r) /\ i = Len(q) + k
    BY <1>1, <1>3
  <2> HIDE DEF k
  <2>2. ASSUME Deletes(t[i]), NEW j \in 1..t[i].skips
        PROVE  i + j <= Len(t) /\ Deletes(t[i + j])
    <3>1. k + j <= Len(r) /\ Deletes(r[k + j])
      BY <2>1, <2>2 DEF Tidy
    <3>2. i + j <= Len(t) /\ t[i + j] = r[k + j]
      <4>1. k + j \in 1..Len(r) /\ i + j = Len(q) + (k + j)
        BY <3>1, <2>1, <1>1
      <4> QED BY <4>1, <1>1
    <3> QED BY <3>1, <3>2
  <2>3. t[i].do = "make" => t[i].part \notin Aws!Owners
    BY <2>1 DEF Tidy
  <2> QED BY <2>2, <2>3
<1> QED BY <1>2, <1>3, <1>1

LEMMA BegunConcat ==
  ASSUME NEW S, NEW q \in Seq(S), NEW r \in Seq(S), NEW o, Begun(q, o), Tidy(r)
  PROVE  Begun(q \o r, o)
<1> DEFINE t == q \o r
<1>1. /\ Len(t) = Len(q) + Len(r) /\ Len(q) \in Nat \ {0} /\ Len(r) \in Nat
      /\ \A i \in 1..Len(q) : t[i] = q[i]
  BY ConcatIs DEF Begun
<1>2. t # <<>> /\ t[1] = q[1]
  BY <1>1
<1>3. Tail(t) = Tail(q) \o r /\ Tail(q) \in Seq(S)
  BY DEF Begun
<1>4. Tidy(Tail(t))
  <2>1. Tidy(Tail(q))
    BY DEF Begun
  <2> QED BY <1>3, <2>1, TidyConcat, Zenon
<1>5. PICK n \in 1..Len(q) :
          /\ \A i \in 2..n : q[i].do = "make" /\ q[i].part \in Family[o]
          /\ \A p \in Family[o] : \E i \in 2..n : q[i].part = p
          /\ \A i \in 2..n : q[i].part \in Repaired => i > 3
  BY Zenon DEF Begun
<1> HIDE DEF t
<1>6. \A i \in 2..n : t[i] = q[i]
  BY <1>1
<1>7. n \in 1..Len(t)
  BY <1>1
<1>8. /\ \A i \in 2..n : t[i].do = "make" /\ t[i].part \in Family[o]
      /\ \A p \in Family[o] : \E i \in 2..n : t[i].part = p
      /\ \A i \in 2..n : t[i].part \in Repaired => i > 3
  BY <1>5, <1>6, Zenon
<1>9. Begun(t, o)
  BY <1>2, <1>4, <1>7, <1>8, Zenon DEF Begun
<1> QED BY <1>9 DEF t

\* Whatever is left of a series once its first call is made is tidy.
LEMMA RestIsTidy ==
  ASSUME NEW S, NEW q \in Seq(S), Ready(q), NEW n \in 1..Len(q)
  PROVE  Tidy(SubSeq(q, n + 1, Len(q)))
<1>1. CASE Tidy(q)
  BY <1>1, TidySuffix
<1>2. CASE \E o \in Aws!Owners : Begun(q, o)
  <2>1. Tidy(Tail(q)) /\ q # <<>>
    BY <1>2 DEF Begun
  <2>2. /\ Tail(q) \in Seq(S) /\ Len(Tail(q)) = Len(q) - 1 /\ Len(q) \in Nat \ {0}
    BY <2>1, TailIs
  <2>3. SubSeq(q, n + 1, Len(q)) = SubSeq(Tail(q), (n - 1) + 1, Len(Tail(q)))
    <3> DEFINE a == SubSeq(q, n + 1, Len(q))
               b == SubSeq(Tail(q), (n - 1) + 1, Len(Tail(q)))
    <3>1. n - 1 \in 0..Len(Tail(q)) /\ n \in 0..Len(q)
      BY <2>2
    <3>2. a \in Seq(S) /\ Len(a) = Len(q) - n /\ \A i \in 1..(Len(q) - n) : a[i] = q[n + i]
      BY SuffixIs, <3>1, Zenon
    <3>3. b \in Seq(S) /\ Len(b) = Len(q) - n
          /\ \A i \in 1..(Len(q) - n) : b[i] = Tail(q)[n - 1 + i]
      <4> DEFINE u == Tail(q)  m == n - 1
      <4>1. u \in Seq(S) /\ m \in 0..Len(u) /\ Len(u) = Len(q) - 1 /\ m = n - 1
        BY <3>1, <2>2
      <4> HIDE DEF u, m
      <4>2. /\ SubSeq(u, m + 1, Len(u)) \in Seq(S)
            /\ Len(SubSeq(u, m + 1, Len(u))) = Len(u) - m
            /\ \A i \in 1..(Len(u) - m) : SubSeq(u, m + 1, Len(u))[i] = u[m + i]
        BY <4>1, SuffixIs
      <4>3. Len(u) - m = Len(q) - n
        BY <4>1, <2>2
      <4> QED BY <4>2, <4>3 DEF u, m
    <3>4. \A i \in 1..(Len(q) - n) : Tail(q)[n - 1 + i] = q[n + i]
      BY TailIs, <2>1, <2>2
    <3> HIDE DEF a, b
    <3>5. a = b
      BY <3>2, <3>3, <3>4, <2>2
    <3> QED BY <3>5 DEF a, b
  <2>4. n - 1 \in 0..Len(Tail(q))
    BY <2>2
  <2> QED BY <2>1, <2>2, <2>3, <2>4, TidySuffix, Zenon
<1> QED BY <1>1, <1>2 DEF Ready

(***************************************************************************)
(* The calls of the commands                                               *)
(***************************************************************************)
LEMMA AwsOwners ==
  Aws!Owners = {"bucket", "buildRole", "pipelineRole", "scheduleRole", "saUser", "saRole"}
BY DEF Aws!Owners, Aws!Family

LEMMA GoogleOwners == DOMAIN Google!With = {"planTarget", "applyTarget"}
BY DEF Google!With

LEMMA Families ==
  /\ Family["bucket"] = {"tags", "versioning", "lifecycle", "sslPolicy", "dummyZip"}
  /\ Family["buildRole"] = {"buildAdmin", "buildPolicy", "buildAttached"}
  /\ Family["pipelineRole"] = {"pipelinePolicy", "pipelineAttached"}
  /\ Family["scheduleRole"] = {"schedulePolicy", "scheduleAttached"}
  /\ Family["saUser"] = {"saUserAttached", "saKey"}
  /\ Family["saRole"] = {"saRoleAttached"}
  /\ Family["planTarget"] = {"planTargetAccount"}
  /\ Family["applyTarget"] = {"applyTargetAccount"}
  /\ Owners = {"bucket", "buildRole", "pipelineRole", "scheduleRole", "saUser", "saRole",
               "planTarget", "applyTarget"}
<1>1. \A o \in Owners : Family[o] = IF o \in Aws!Owners THEN Aws!Family[o] ELSE Google!With[o]
  BY DEF Family
<1>2. Owners = {"bucket", "buildRole", "pipelineRole", "scheduleRole", "saUser", "saRole",
               "planTarget", "applyTarget"}
  BY AwsOwners, GoogleOwners DEF Owners
<1> QED BY <1>1, <1>2, AwsOwners DEF Aws!Family, Google!With, Aws!BucketParts

\* No part is made with two owners, and none is an owner.
LEMMA RepairedAre ==
  Repaired = {"lifecycle", "sslPolicy", "config",
              "storedConfig", "accountRoles", "projectRoles"}
BY DEF Repaired, Aws!Repaired, Google!Repaired

LEMMA FamiliesApart ==
  /\ \A o1, o2 \in Owners : o1 # o2 => Family[o1] \cap Family[o2] = {}
  /\ \A o \in Owners : Family[o] \cap Owners = {}
BY Families

LEMMA AwsParts ==
  Aws!Part =
         {"bucket", "buildRole", "pipelineRole", "scheduleRole", "saUser", "saRole",
          "tags", "versioning", "lifecycle", "sslPolicy", "dummyZip",
          "buildAdmin", "buildPolicy", "buildAttached", "pipelinePolicy", "pipelineAttached",
          "schedulePolicy", "scheduleAttached", "saUserAttached", "saKey", "saRoleAttached",
          "config", "table", "linkedRole", "logGroup", "logStream", "schedule", "runProject",
          "updateProject", "runPipeline", "updatePipeline", "saPolicy",
          "stepProject", "stepPipeline", "stepDestroyPipeline"}
<1>1. Aws!Family["bucket"] = {"tags", "versioning", "lifecycle", "sslPolicy", "dummyZip"}
      /\ Aws!Family["buildRole"] = {"buildAdmin", "buildPolicy", "buildAttached"}
      /\ Aws!Family["pipelineRole"] = {"pipelinePolicy", "pipelineAttached"}
      /\ Aws!Family["scheduleRole"] = {"schedulePolicy", "scheduleAttached"}
      /\ Aws!Family["saUser"] = {"saUserAttached", "saKey"}
      /\ Aws!Family["saRole"] = {"saRoleAttached"}
  BY DEF Aws!Family, Aws!BucketParts
<1>2. \A p : p \in Aws!Part <=>
        \/ p \in Aws!Owners
        \/ \E o \in Aws!Owners : p \in Aws!Family[o]
        \/ p \in {"config", "table", "linkedRole", "logGroup", "logStream",
                "schedule", "runProject", "updateProject", "runPipeline",
                "updatePipeline", "saPolicy"}
        \/ p \in Aws!StepParts
  BY DEF Aws!Part
<1>3. \A p : (\E o \in Aws!Owners : p \in Aws!Family[o]) <=>
        p \in {"tags", "versioning", "lifecycle", "sslPolicy", "dummyZip",
              "buildAdmin", "buildPolicy", "buildAttached", "pipelinePolicy",
              "pipelineAttached", "schedulePolicy", "scheduleAttached",
              "saUserAttached", "saKey", "saRoleAttached"}
  BY <1>1, AwsOwners
<1> QED BY <1>2, <1>3, AwsOwners DEF Aws!StepParts

LEMMA GoogleParts ==
  Google!Part =
         {"apiServices", "storage", "storedConfig", "agentSchedule", "agentRunJob",
          "agentUpdateJob", "planTarget", "applyTarget", "planTargetAccount",
          "applyTargetAccount", "agentAccount", "accountRoles", "projectRoles",
          "userAccount", "userAccountRoles", "userProjectRoles", "userKey", "trust",
          "deliveryPipeline", "planJob", "applyJob", "planDestroyJob", "applyDestroyJob"}
<1>1. Google!TargetParts =
        {"planTarget", "applyTarget", "planTargetAccount", "applyTargetAccount"}
  <2>1. Google!With["planTarget"] = {"planTargetAccount"}
        /\ Google!With["applyTarget"] = {"applyTargetAccount"}
    BY DEF Google!With
  <2>2. UNION {Google!With[t] : t \in DOMAIN Google!With} =
          {"planTargetAccount", "applyTargetAccount"}
    BY <2>1, GoogleOwners
  <2> QED BY <2>2, GoogleOwners DEF Google!TargetParts
<1> QED BY <1>1 DEF Google!Part, Google!AgentParts, Google!StepParts,
                    Google!ServiceAccountParts

LEMMA Parts ==
  Part = {"bucket", "buildRole", "pipelineRole", "scheduleRole", "saUser", "saRole",
          "tags", "versioning", "lifecycle", "sslPolicy", "dummyZip",
          "buildAdmin", "buildPolicy", "buildAttached", "pipelinePolicy", "pipelineAttached",
          "schedulePolicy", "scheduleAttached", "saUserAttached", "saKey", "saRoleAttached",
          "config", "table", "linkedRole", "logGroup", "logStream", "schedule", "runProject",
          "updateProject", "runPipeline", "updatePipeline", "saPolicy",
          "stepProject", "stepPipeline", "stepDestroyPipeline",
          "apiServices", "storage", "storedConfig", "agentSchedule", "agentRunJob",
          "agentUpdateJob", "planTarget", "applyTarget", "planTargetAccount",
          "applyTargetAccount", "agentAccount", "accountRoles", "projectRoles",
          "userAccount", "userAccountRoles", "userProjectRoles", "userKey", "trust",
          "deliveryPipeline", "planJob", "applyJob", "planDestroyJob", "applyDestroyJob"}
BY AwsParts, GoogleParts DEF Part

\* Calls that make no owner of AWS and skip nothing.
Single == {c \in AnyCall : /\ c.do = "make" => c.part \notin Aws!Owners
                           /\ Deletes(c) => c.skips = 0}

Series(q) == q \in Seq(AnyCall) /\ Tidy(q)

LEMMA Singles ==
  ASSUME NEW q \in Seq(Single)
  PROVE  Series(q)
<1>1. q \in Seq(AnyCall)
  <2>1. Single \subseteq AnyCall
    BY DEF Single
  <2> QED BY <2>1
<1>2. \A i \in 1..Len(q) : q[i] \in Single
  OBVIOUS
<1>3. Tidy(q)
  BY <1>2 DEF Tidy, Single
<1> QED BY <1>1, <1>3 DEF Series

LEMMA SeriesConcat ==
  ASSUME NEW q, NEW r, Series(q), Series(r)
  PROVE  Series(q \o r)
BY TidyConcat DEF Series

LEMMA SimpleOnes ==
  /\ \A p \in Part : Make(p) \in SimpleCalls
  /\ \A S \in Together : Remove(S) \in SimpleCalls
  /\ \A S \in Together, n \in Nat : Try(S, n) \in SimpleCalls
  /\ \A k \in {"version", "marker"}, n \in Nat : Truncate(k, n) \in SimpleCalls
  /\ UpdatePolicy \in SimpleCalls
BY DEF Make, Remove, Try, Truncate, UpdatePolicy, SimpleCalls

LEMMA MoreCalls == SimpleCalls \subseteq Calls1 /\ Calls1 \subseteq AnyCall
BY DEF Calls1, AnyCall

\* The calls that come in series of their own.
LEMMA SingleOnes ==
  /\ \A p \in Part \ Aws!Owners : Make(p) \in Single
  /\ \A S \in Together : Remove(S) \in Single
  /\ \A S \in Together : Try(S, 0) \in Single
  /\ UpdatePolicy \in Single
  /\ LooksFor(SimpleCalls) \subseteq Single
  /\ LooksFor(Calls1) \subseteq Single
<1>1. \A p \in Part \ Aws!Owners : Make(p) \in Single
  BY SimpleOnes, MoreCalls, Zenon DEF Single, Make, Deletes
<1>2. \A S \in Together : Remove(S) \in Single
  BY SimpleOnes, MoreCalls, Zenon DEF Single, Remove, Deletes
<1>3. \A S \in Together : Try(S, 0) \in Single
  BY SimpleOnes, MoreCalls DEF Single, Try, Deletes
<1>4. UpdatePolicy \in Single
  BY SimpleOnes, MoreCalls DEF Single, UpdatePolicy, Deletes
<1>5. ASSUME NEW S, NEW c \in LooksFor(S) PROVE c.do = "look"
  BY DEF LooksFor
<1>6. LooksFor(SimpleCalls) \subseteq AnyCall /\ LooksFor(Calls1) \subseteq AnyCall
  BY DEF Calls1, AnyCall
<1>7. LooksFor(SimpleCalls) \subseteq Single
  BY <1>5, <1>6 DEF Single, Deletes
<1>8. LooksFor(Calls1) \subseteq Single
  BY <1>5, <1>6 DEF Single, Deletes
<1> QED BY <1>1, <1>2, <1>3, <1>4, <1>7, <1>8

LEMMA LookIs ==
  ASSUME NEW S, NEW p \in Part, NEW found \in Seq(S), NEW missing \in Seq(S),
         Tidy(found), Tidy(missing) \/ (p \in Aws!Owners /\ Begun(missing, p))
  PROVE  Look(p, found, missing) \in LooksFor(S)
BY DEF Look, LooksFor

LEMMA EmptyIsTidy == Tidy(<<>>)
BY DEF Tidy

LEMMA GetOrMakes ==
  \A p \in Part \ Aws!Owners : GetOrMake(p) \in LooksFor(SimpleCalls)
<1> SUFFICES ASSUME NEW p \in Part \ Aws!Owners
             PROVE  GetOrMake(p) \in LooksFor(SimpleCalls)
  OBVIOUS
<1>1. <<Make(p)>> \in Seq(SimpleCalls) /\ <<>> \in Seq(SimpleCalls)
  BY SimpleOnes
<1>2. Tidy(<<Make(p)>>)
  BY DEF Tidy, Make, Deletes
<1> QED BY <1>1, <1>2, EmptyIsTidy, LookIs, Zenon DEF GetOrMake

(***************************************************************************)
(* AWS                                                                     *)
(***************************************************************************)
\* What is made when an owner is missing begins with the owner.
LEMMA AwsBegun ==
  /\ Begun(<<Make("bucket"), Make("tags"), Make("versioning"), Make("lifecycle"),
             Make("sslPolicy"), Make("dummyZip")>>, "bucket")
  /\ Begun(<<Make("buildRole"), Make("buildAdmin"), Make("buildPolicy"),
             Make("buildAttached")>>, "buildRole")
  /\ Begun(<<Make("pipelineRole"), Make("pipelinePolicy"), Make("pipelineAttached")>>,
           "pipelineRole")
  /\ Begun(<<Make("scheduleRole"), Make("schedulePolicy"), Make("scheduleAttached")>>,
           "scheduleRole")
  /\ Begun(<<Make("saUser"), Make("saUserAttached"), Make("saKey")>>, "saUser")
  /\ Begun(<<Make("saRole"), Make("saRoleAttached")>>, "saRole")
<1>1. Begun(<<Make("bucket"), Make("tags"), Make("versioning"), Make("lifecycle"),
              Make("sslPolicy"), Make("dummyZip")>>, "bucket")
  <2> DEFINE q == <<Make("bucket"), Make("tags"), Make("versioning"), Make("lifecycle"),
              Make("sslPolicy"), Make("dummyZip")>>
             r == <<Make("tags"), Make("versioning"), Make("lifecycle"),
              Make("sslPolicy"), Make("dummyZip")>>
  <2>1. Tail(q) = r
    OBVIOUS
  <2>2. Tidy(r)
    BY AwsOwners DEF Tidy, Make, Deletes
  <2>3. 6 \in 1..Len(q)
    OBVIOUS
  <2>4. /\ \A i \in 2..6 : q[i].do = "make" /\ q[i].part \in Family["bucket"]
        /\ \A p \in Family["bucket"] : \E i \in 2..6 : q[i].part = p
        /\ \A i \in 2..6 : q[i].part \in Repaired => i > 3
    BY Families, RepairedAre DEF Make
  <2>5. q # <<>> /\ q[1] = Make("bucket")
    OBVIOUS
  <2> QED BY <2>1, <2>2, <2>3, <2>4, <2>5 DEF Begun
<1>2. Begun(<<Make("buildRole"), Make("buildAdmin"), Make("buildPolicy"),
              Make("buildAttached")>>, "buildRole")
  <2> DEFINE q == <<Make("buildRole"), Make("buildAdmin"), Make("buildPolicy"),
                    Make("buildAttached")>>
             r == <<Make("buildAdmin"), Make("buildPolicy"), Make("buildAttached")>>
  <2>1. Tail(q) = r
    OBVIOUS
  <2>2. Tidy(r)
    BY AwsOwners DEF Tidy, Make, Deletes
  <2>3. 4 \in 1..Len(q)
    OBVIOUS
  <2>4. /\ \A i \in 2..4 : q[i].do = "make" /\ q[i].part \in Family["buildRole"]
        /\ \A p \in Family["buildRole"] : \E i \in 2..4 : q[i].part = p
        /\ \A i \in 2..4 : q[i].part \in Repaired => i > 3
    BY Families, RepairedAre DEF Make
  <2>5. q # <<>> /\ q[1] = Make("buildRole")
    OBVIOUS
  <2> QED BY <2>1, <2>2, <2>3, <2>4, <2>5 DEF Begun
<1>3. ASSUME NEW o \in {"pipelineRole", "scheduleRole", "saUser"}, NEW p1, NEW p2,
             Family[o] = {p1, p2}, p1 \notin Aws!Owners, p2 \notin Aws!Owners,
             {p1, p2} \cap Repaired = {}
      PROVE  Begun(<<Make(o), Make(p1), Make(p2)>>, o)
  <2> DEFINE q == <<Make(o), Make(p1), Make(p2)>>
             r == <<Make(p1), Make(p2)>>
  <2>1. Tail(q) = r
    OBVIOUS
  <2>2. Tidy(r)
    BY <1>3 DEF Tidy, Make, Deletes
  <2>3. 3 \in 1..Len(q)
    OBVIOUS
  <2>4. /\ \A i \in 2..3 : q[i].do = "make" /\ q[i].part \in Family[o]
        /\ \A p \in Family[o] : \E i \in 2..3 : q[i].part = p
        /\ \A i \in 2..3 : q[i].part \in Repaired => i > 3
    <3>1. /\ \A i \in 2..3 : q[i].do = "make" /\ q[i].part \in {p1, p2}
          /\ q[2].part = p1 /\ q[3].part = p2
      BY DEF Make
    <3> HIDE DEF q
    <3> QED BY <1>3, <3>1
  <2>5. q # <<>> /\ q[1] = Make(o)
    OBVIOUS
  <2> QED BY <2>1, <2>2, <2>3, <2>4, <2>5 DEF Begun
<1>4. Begun(<<Make("saRole"), Make("saRoleAttached")>>, "saRole")
  <2> DEFINE q == <<Make("saRole"), Make("saRoleAttached")>>
             r == <<Make("saRoleAttached")>>
  <2>1. Tail(q) = r
    OBVIOUS
  <2>2. Tidy(r)
    BY AwsOwners DEF Tidy, Make, Deletes
  <2>3. 2 \in 1..Len(q)
    OBVIOUS
  <2>4. /\ \A i \in 2..2 : q[i].do = "make" /\ q[i].part \in Family["saRole"]
        /\ \A p \in Family["saRole"] : \E i \in 2..2 : q[i].part = p
        /\ \A i \in 2..2 : q[i].part \in Repaired => i > 3
    BY Families, RepairedAre DEF Make
  <2>5. q # <<>> /\ q[1] = Make("saRole")
    OBVIOUS
  <2> QED BY <2>1, <2>2, <2>3, <2>4, <2>5 DEF Begun
<1> QED BY <1>1, <1>2, <1>3, <1>4, Families, AwsOwners, RepairedAre

LEMMA AwsLooks ==
  /\ Aws!CreateBucket \in Single
  /\ Aws!CreateBuildRole \in Single
  /\ Aws!CreatePipelineRole \in Single
  /\ Aws!CreateScheduleRole \in LooksFor(SimpleCalls)
  /\ \A cron \in BOOLEAN : Aws!CreateSchedule(cron) \in Single
  /\ Series(Aws!BucketExists)
<1> USE DEF Aws!Make, Aws!Look, Make, Look
<1>1. /\ <<Make("bucket"), Make("tags"), Make("versioning"), Make("lifecycle"),
           Make("sslPolicy"), Make("dummyZip")>> \in Seq(SimpleCalls)
      /\ <<Make("buildRole"), Make("buildAdmin"), Make("buildPolicy"),
           Make("buildAttached")>> \in Seq(SimpleCalls)
      /\ <<Make("pipelineRole"), Make("pipelinePolicy"), Make("pipelineAttached")>>
            \in Seq(SimpleCalls)
      /\ <<Make("scheduleRole"), Make("schedulePolicy"), Make("scheduleAttached")>>
            \in Seq(SimpleCalls)
      /\ <<Make("lifecycle"), Make("sslPolicy")>> \in Seq(SimpleCalls)
      /\ <<>> \in Seq(SimpleCalls) /\ <<>> \in Seq(Calls1)
  <2>1. \A p \in Part : Make(p) \in SimpleCalls
    BY SimpleOnes, Zenon
  <2> HIDE DEF Make
  <2> QED BY <2>1, Parts
<1>2. <<Make("lifecycle"), Make("sslPolicy")>> \in Seq(Single)
  <2>1. \A p \in Part \ Aws!Owners : Make(p) \in Single
    BY SingleOnes, Zenon
  <2>2. {"lifecycle", "sslPolicy"} \subseteq Part \ Aws!Owners
    BY Parts, AwsOwners
  <2> HIDE DEF Make
  <2> QED BY <2>1, <2>2
<1>3. Series(Aws!BucketExists)
  BY <1>2, Singles, Zenon DEF Aws!BucketExists
<1>4. {"bucket", "buildRole", "pipelineRole", "scheduleRole", "schedule"} \subseteq Part
      /\ {"bucket", "buildRole", "pipelineRole", "scheduleRole"} \subseteq Aws!Owners
      /\ "schedule" \notin Aws!Owners
  BY Parts, AwsOwners
<1>5. Aws!CreateBucket \in LooksFor(SimpleCalls)
  <2>1. Tidy(Aws!BucketExists) /\ Aws!BucketExists \in Seq(SimpleCalls)
    BY <1>1, <1>3 DEF Series, Aws!BucketExists
  <2> QED BY <2>1, <1>1, <1>4, AwsBegun, LookIs, Zenon DEF Aws!CreateBucket
<1>6. Aws!CreateBuildRole \in LooksFor(SimpleCalls)
  BY <1>1, <1>4, AwsBegun, LookIs, EmptyIsTidy, Zenon DEF Aws!CreateBuildRole
<1>7. Aws!CreatePipelineRole \in LooksFor(SimpleCalls)
  BY <1>1, <1>4, AwsBegun, LookIs, EmptyIsTidy, Zenon DEF Aws!CreatePipelineRole
<1>8. Aws!CreateScheduleRole \in LooksFor(SimpleCalls)
  BY <1>1, <1>4, AwsBegun, LookIs, EmptyIsTidy, Zenon DEF Aws!CreateScheduleRole
<1>9. Aws!CreateSchedule(TRUE) \in LooksFor(Calls1)
  <2> DEFINE role == Aws!CreateScheduleRole
  <2>1. role \in Calls1 /\ role.do = "look" /\ Make("schedule") \in Calls1
    BY <1>8, <1>4, SimpleOnes DEF Calls1, LooksFor
  <2> HIDE DEF role
  <2>2. <<role>> \in Seq(Calls1) /\ <<role, Make("schedule")>> \in Seq(Calls1)
    BY <2>1
  <2>3. Tidy(<<role>>) /\ Tidy(<<role, Make("schedule")>>)
    BY <2>1, <1>4 DEF Tidy, Deletes
  <2>4. Look("schedule", <<role>>, <<role, Make("schedule")>>) \in LooksFor(Calls1)
    BY <2>2, <2>3, <1>4, LookIs, Zenon
  <2> QED BY <2>4 DEF Aws!CreateSchedule, role
<1>10. Aws!CreateSchedule(FALSE) \in LooksFor(SimpleCalls)
  <2>1. <<Remove({"schedule"})>> \in Seq(SimpleCalls)
    BY <1>4, SimpleOnes DEF Together
  <2>2. Tidy(<<Remove({"schedule"})>>)
    BY DEF Tidy, Deletes, Remove
  <2>3. Look("schedule", <<Remove({"schedule"})>>, <<>>) \in LooksFor(SimpleCalls)
    BY <2>1, <2>2, <1>1, <1>4, EmptyIsTidy, LookIs, Zenon
  <2> QED BY <2>3 DEF Aws!CreateSchedule, Aws!Remove, Remove
<1>11. \A cron \in BOOLEAN : Aws!CreateSchedule(cron) \in Single
  <2>1. Aws!CreateSchedule(TRUE) \in Single /\ Aws!CreateSchedule(FALSE) \in Single
    BY <1>9, <1>10, SingleOnes, Zenon
  <2> QED BY <2>1, Zenon
<1> QED BY <1>3, <1>5, <1>6, <1>7, <1>8, <1>11, SingleOnes

LEMMA AwsPieces ==
  /\ \A p \in Part \ Aws!Owners : Make(p) \in Single /\ GetOrMake(p) \in Single
  /\ \A S \in Together : Remove(S) \in Single /\ Try(S, 0) \in Single
BY SingleOnes, GetOrMakes

LEMMA AwsSetups ==
  \A c \in Setups, cron \in BOOLEAN : Series(Aws!Setup(c, cron))
<1> SUFFICES ASSUME NEW c \in Setups, NEW cron \in BOOLEAN
             PROVE  Series(Aws!Setup(c, cron))
  OBVIOUS
<1> USE DEF Aws!Make, Aws!GetOrMake, Aws!Look, Make, Look, GetOrMake
<1>1. /\ {"table", "linkedRole", "logGroup", "logStream", "config", "stepProject",
          "stepPipeline", "stepDestroyPipeline", "runProject", "updateProject",
          "updatePipeline", "runPipeline"} \subseteq Part \ Aws!Owners
  BY Parts, AwsOwners
<1>2. \A local, b \in BOOLEAN : Aws!SetupResources(local, b) \in Seq(Single)
  <2> SUFFICES ASSUME NEW local \in BOOLEAN, NEW b \in BOOLEAN
               PROVE  Aws!SetupResources(local, b) \in Seq(Single)
    OBVIOUS
  <2> DEFINE first == <<Aws!CreateBucket, GetOrMake("table"), Make("linkedRole")>>
             more == <<GetOrMake("logGroup"), GetOrMake("logStream"), Aws!CreateBuildRole,
                       Aws!CreatePipelineRole, Aws!CreateSchedule(b)>>
  <2>1. /\ Make("linkedRole") \in Single /\ GetOrMake("table") \in Single
        /\ GetOrMake("logGroup") \in Single /\ GetOrMake("logStream") \in Single
    <3> HIDE DEF Make, Look, GetOrMake
    <3> QED BY <1>1, AwsPieces
  <2>2. first \in Seq(Single) /\ more \in Seq(Single) /\ <<>> \in Seq(Single)
    <3> HIDE DEF Make, Look, GetOrMake
    <3> QED BY <2>1, AwsLooks
  <2>3. Aws!SetupResources(local, b) = first \o IF local THEN <<>> ELSE more
    BY DEF Aws!SetupResources
  <2> HIDE DEF first, more
  <2> QED BY <2>2, <2>3
<1>3. /\ <<Make("config")>> \in Seq(Single)
      /\ <<Make("config"), Make("stepProject"), Make("stepPipeline"),
           Make("stepDestroyPipeline")>> \in Seq(Single)
      /\ <<GetOrMake("runProject"), GetOrMake("updateProject")>> \in Seq(Single)
      /\ <<GetOrMake("updatePipeline"), GetOrMake("runPipeline")>> \in Seq(Single)
      /\ <<Aws!CreateBucket>> \in Seq(Single)
  <2> HIDE DEF Make, Look, GetOrMake
  <2> QED BY <1>1, AwsPieces, AwsLooks
<1>4. Aws!CreateAgent \in Seq(Single)
  <2> DEFINE a == <<GetOrMake("runProject"), GetOrMake("updateProject")>>
             b == <<GetOrMake("updatePipeline"), GetOrMake("runPipeline")>>
  <2>1. Aws!CreateAgent = a \o b
    BY DEF Aws!CreateAgent, Aws!CreateAgentPipelines
  <2> HIDE DEF a, b
  <2> QED BY <1>3, <2>1 DEF a, b
<1>5. Aws!Setup(c, cron) \in Seq(Single)
  <2> DEFINE config == <<Make("config")>>
             steps == <<Make("config"), Make("stepProject"), Make("stepPipeline"),
                        Make("stepDestroyPipeline")>>
             bucket == <<Aws!CreateBucket>>
             all == Aws!SetupResources(FALSE, cron)
             few == Aws!SetupResources(TRUE, FALSE)
             agent == Aws!CreateAgent
  <2>1. /\ c = "bootstrap" => Aws!Setup(c, cron) = bucket \o (config \o all \o agent)
        /\ c = "run" => Aws!Setup(c, cron) = bucket \o (all \o steps)
        /\ c = "local" => Aws!Setup(c, cron) = bucket \o (few \o config)
    BY Zenon DEF Aws!Setup, Aws!SetupMinimalResources
  <2>2. /\ config \in Seq(Single) /\ steps \in Seq(Single) /\ bucket \in Seq(Single)
        /\ all \in Seq(Single) /\ few \in Seq(Single) /\ agent \in Seq(Single)
    BY <1>2, <1>3, <1>4, Zenon
  <2> HIDE DEF config, steps, bucket, all, few, agent
  <2>3. bucket \o (config \o all \o agent) \in Seq(Single)
    BY <2>2
  <2>4. bucket \o (all \o steps) \in Seq(Single) /\ bucket \o (few \o config) \in Seq(Single)
    BY <2>2
  <2> QED BY <2>1, <2>3, <2>4, Zenon DEF Setups
<1> QED BY <1>5, Singles

LEMMA AwsServiceAccounts ==
  \A c \in {"user", "trust"}, flag \in BOOLEAN :
     Series(Aws!CreateServiceAccount(c, flag, flag))
<1> SUFFICES ASSUME NEW c \in {"user", "trust"}, NEW flag \in BOOLEAN
             PROVE  Series(Aws!CreateServiceAccount(c, flag, flag))
  OBVIOUS
<1> USE DEF Aws!Make, Aws!Look, Aws!Remove, Aws!Try, Aws!UpdatePolicy, UpdatePolicy,
            Make, Look, Remove, Try
<1>1. /\ {"saPolicy", "saUser", "saUserAttached", "saKey", "saRole", "saRoleAttached"}
            \subseteq Part
      /\ {"saUser", "saRole"} \subseteq Aws!Owners
      /\ "saPolicy" \notin Aws!Owners /\ "saKey" \notin Aws!Owners
  BY Parts, AwsOwners
<1>2. /\ <<UpdatePolicy>> \in Seq(SimpleCalls) /\ <<Make("saPolicy")>> \in Seq(SimpleCalls)
      /\ <<Remove({"saKey"}), Make("saKey")>> \in Seq(SimpleCalls)
      /\ <<Make("saUser"), Make("saUserAttached"), Make("saKey")>> \in Seq(SimpleCalls)
      /\ <<Make("saRole"), Make("saRoleAttached")>> \in Seq(SimpleCalls)
      /\ <<Try({"saUserAttached"}, 0), Try({"saKey"}, 0), Try({"saUser"}, 0)>>
            \in Seq(SimpleCalls)
      /\ <<>> \in Seq(SimpleCalls)
  <2>1. /\ UpdatePolicy \in SimpleCalls
        /\ \A p \in {"saPolicy", "saUser", "saUserAttached", "saKey", "saRole",
                     "saRoleAttached"} :
              Make(p) \in SimpleCalls /\ Remove({p}) \in SimpleCalls /\ Try({p}, 0) \in SimpleCalls
    <3> HIDE DEF Make, Remove, Try, UpdatePolicy
    <3>1. \A p \in {"saPolicy", "saUser", "saUserAttached", "saKey", "saRole",
                     "saRoleAttached"} : p \in Part /\ {p} \in Together
      BY <1>1 DEF Together
    <3> QED BY <3>1, SimpleOnes
  <2> HIDE DEF Make, Remove, Try, UpdatePolicy
  <2> QED BY <2>1
<1>3. /\ Tidy(<<UpdatePolicy>>) /\ Tidy(<<Make("saPolicy")>>)
      /\ Tidy(<<Remove({"saKey"}), Make("saKey")>>)
      /\ Tidy(<<Try({"saUserAttached"}, 0), Try({"saKey"}, 0), Try({"saUser"}, 0)>>)
      /\ Tidy(<<>>)
  BY <1>1 DEF Tidy, Deletes
<1>4. Look("saPolicy", <<UpdatePolicy>>, <<Make("saPolicy")>>) \in Single
  <2> HIDE DEF Make, Look, UpdatePolicy
  <2> QED BY <1>1, <1>2, <1>3, LookIs, SingleOnes, Zenon
<1>5. \A found \in {<<Remove({"saKey"}), Make("saKey")>>, <<>>} :
        Look("saUser", found, <<Make("saUser"), Make("saUserAttached"), Make("saKey")>>)
           \in Single
  <2> HIDE DEF Make, Look, Remove
  <2> QED BY <1>1, <1>2, <1>3, AwsBegun, LookIs, SingleOnes, Zenon
<1>6. \A found \in {<<Try({"saUserAttached"}, 0), Try({"saKey"}, 0), Try({"saUser"}, 0)>>,
                    <<>>} :
        Look("saUser", found, <<>>) \in Single
  <2> HIDE DEF Make, Look, Try
  <2> QED BY <1>1, <1>2, <1>3, LookIs, SingleOnes, Zenon
<1>7. Look("saRole", <<>>, <<Make("saRole"), Make("saRoleAttached")>>) \in Single
  <2> HIDE DEF Make, Look
  <2> QED BY <1>1, <1>2, <1>3, AwsBegun, LookIs, SingleOnes, Zenon
<1>8. Aws!CreateServiceAccount(c, flag, flag) \in Seq(Single)
  <2> DEFINE policy == Look("saPolicy", <<UpdatePolicy>>, <<Make("saPolicy")>>)
             keys == IF flag THEN <<Remove({"saKey"}), Make("saKey")>> ELSE <<>>
             user == Look("saUser", keys,
                          <<Make("saUser"), Make("saUserAttached"), Make("saKey")>>)
             gone == IF flag
                       THEN <<Try({"saUserAttached"}, 0), Try({"saKey"}, 0), Try({"saUser"}, 0)>>
                       ELSE <<>>
             left == Look("saUser", gone, <<>>)
             role == Look("saRole", <<>>, <<Make("saRole"), Make("saRoleAttached")>>)
  <2>1. /\ c = "user" =>
             Aws!CreateServiceAccount(c, flag, flag) = <<policy>> \o <<user>>
        /\ c = "trust" =>
             Aws!CreateServiceAccount(c, flag, flag) = <<policy>> \o <<left, role>>
    BY Zenon DEF Aws!CreateServiceAccount, Aws!DeleteServiceUser
  <2>2. policy \in Single /\ user \in Single /\ left \in Single /\ role \in Single
    <3> HIDE DEF Make, Look, Remove, Try, UpdatePolicy
    <3> QED BY <1>4, <1>5, <1>6, <1>7
  <2> HIDE DEF policy, user, left, role
  <2>3. <<policy>> \o <<user>> \in Seq(Single)
    BY <2>2
  <2>4. <<policy>> \o <<left, role>> \in Seq(Single)
    <3>1. <<policy>> \in Seq(Single) /\ <<left, role>> \in Seq(Single)
      BY <2>2
    <3> QED BY <3>1, ConcatIs
  <2> QED BY <2>1, <2>3, <2>4, Zenon
<1> QED BY <1>8, Singles

LEMMA AwsDeletes ==
  \A found, steps, b, account \in BOOLEAN : Series(Aws!Delete(found, steps, b, account))
<1> SUFFICES ASSUME NEW found \in BOOLEAN, NEW steps \in BOOLEAN, NEW b \in BOOLEAN,
                    NEW account \in BOOLEAN
             PROVE  Series(Aws!Delete(found, steps, b, account))
  OBVIOUS
<1> USE DEF Aws!Try, Try, Aws!Truncate, Truncate
<1>1. \A S \in Together : Try(S, 0) \in Single
  BY AwsPieces, Zenon
<1>2. /\ {{"schedule"}, {"runPipeline"}, {"runProject"}, {"updatePipeline"},
          {"updateProject"}, {"table"}, {"logStream"}, {"logGroup"}} \subseteq Together
      /\ {{"buildAdmin", "buildAttached"}, {"buildRole"}, {"buildPolicy"},
          {"pipelineAttached"}, {"pipelineRole"}, {"pipelinePolicy"},
          {"scheduleAttached"}, {"scheduleRole"}, {"schedulePolicy"}} \subseteq Together
      /\ {{"saRoleAttached"}, {"saRole"}, {"saUserAttached"}, {"saKey"}, {"saUser"},
          {"saPolicy"}} \subseteq Together
      /\ {{"bucket"}, {"stepPipeline"}, {"stepDestroyPipeline"}, {"stepProject"}}
            \subseteq Together
  BY Parts DEF Together
<1> DEFINE first == <<Try({"schedule"}, 0), Try({"runPipeline"}, 0), Try({"runProject"}, 0),
                      Try({"updatePipeline"}, 0), Try({"updateProject"}, 0),
                      Try({"table"}, 0), Try({"logStream"}, 0), Try({"logGroup"}, 0)>>
           roles == Aws!DeleteIAMRoles
           users == Aws!DeleteServiceAccount
           bucket == Aws!DeleteBucket
           pipeline == Aws!DeletePipeline
           project == <<Try({"stepProject"}, 0)>>
<1>3. Series(first)
  <2>1. \A S \in {{"schedule"}, {"runPipeline"}, {"runProject"}, {"updatePipeline"},
          {"updateProject"}, {"table"}, {"logStream"}, {"logGroup"}} : Try(S, 0) \in Single
    BY <1>1, <1>2, Zenon
  <2> HIDE DEF Try
  <2>2. first \in Seq(Single)
    BY <2>1
  <2> HIDE DEF first
  <2> QED BY <2>2, Singles
<1>4. Series(roles)
  <2>1. \A S \in {{"buildAdmin", "buildAttached"}, {"buildRole"}, {"buildPolicy"},
          {"pipelineAttached"}, {"pipelineRole"}, {"pipelinePolicy"},
          {"scheduleAttached"}, {"scheduleRole"}, {"schedulePolicy"}} : Try(S, 0) \in Single
    BY <1>1, <1>2, Zenon
  <2>2. roles =
          <<Try({"buildAdmin", "buildAttached"}, 0), Try({"buildRole"}, 0),
            Try({"buildPolicy"}, 0),
            Try({"pipelineAttached"}, 0), Try({"pipelineRole"}, 0),
            Try({"pipelinePolicy"}, 0),
            Try({"scheduleAttached"}, 0), Try({"scheduleRole"}, 0),
            Try({"schedulePolicy"}, 0)>>
    BY DEF Aws!DeleteIAMRoles
  <2> HIDE DEF Try, roles
  <2>3. roles \in Seq(Single)
    BY <2>1, <2>2
  <2> QED BY <2>3, Singles
<1>5. Series(users)
  <2>1. \A S \in {{"saRoleAttached"}, {"saRole"}, {"saUserAttached"}, {"saKey"}, {"saUser"},
          {"saPolicy"}} : Try(S, 0) \in Single
    BY <1>1, <1>2, Zenon
  <2>2. users =
          <<Try({"saRoleAttached"}, 0), Try({"saRole"}, 0)>>
          \o <<Try({"saUserAttached"}, 0), Try({"saKey"}, 0), Try({"saUser"}, 0)>>
          \o <<Try({"saPolicy"}, 0)>>
    BY DEF Aws!DeleteServiceAccount, Aws!DeleteServiceUser
  <2> HIDE DEF Try, users
  <2>3. /\ <<Try({"saRoleAttached"}, 0), Try({"saRole"}, 0)>> \in Seq(Single)
        /\ <<Try({"saUserAttached"}, 0), Try({"saKey"}, 0), Try({"saUser"}, 0)>> \in Seq(Single)
        /\ <<Try({"saPolicy"}, 0)>> \in Seq(Single)
    BY <2>1
  <2>4. users \in Seq(Single)
    BY <2>2, <2>3
  <2> QED BY <2>4, Singles
<1>6. Series(bucket)
  <2>1. /\ Truncate("version", 2) \in AnyCall /\ Truncate("marker", 1) \in AnyCall
        /\ Try({"bucket"}, 0) \in AnyCall
    <3> HIDE DEF Try, Truncate
    <3> QED BY <1>2, SimpleOnes, MoreCalls
  <2>2. bucket = <<Truncate("version", 2), Truncate("marker", 1), Try({"bucket"}, 0)>>
    BY DEF Aws!DeleteBucket
  <2>3. bucket \in Seq(AnyCall)
    <3> HIDE DEF Try, Truncate, bucket
    <3> QED BY <2>1, <2>2
  <2>4. Tidy(bucket)
    BY <2>2 DEF Tidy, Deletes
  <2> QED BY <2>3, <2>4 DEF Series
<1>7. Series(pipeline)
  <2>1. Try({"stepPipeline"}, 1) \in AnyCall /\ Try({"stepDestroyPipeline"}, 0) \in AnyCall
    <3> HIDE DEF Try
    <3> QED BY <1>2, SimpleOnes, MoreCalls
  <2>2. pipeline = <<Try({"stepPipeline"}, 1), Try({"stepDestroyPipeline"}, 0)>>
    BY DEF Aws!DeletePipeline
  <2>3. pipeline \in Seq(AnyCall)
    <3> HIDE DEF Try, pipeline
    <3> QED BY <2>1, <2>2
  <2>4. Tidy(pipeline)
    BY <2>2 DEF Tidy, Deletes
  <2> QED BY <2>3, <2>4 DEF Series
<1>8. Series(project)
  <2>1. Try({"stepProject"}, 0) \in Single
    BY <1>1, <1>2, Zenon
  <2> HIDE DEF Try
  <2>2. project \in Seq(Single)
    BY <2>1
  <2> HIDE DEF project
  <2> QED BY <2>2, Singles
<1>9. Series(<<>>)
  BY EmptyIsTidy DEF Series
<1>10. Aws!Delete(found, steps, b, account) =
         (IF found THEN Aws!BucketExists ELSE <<>>)
         \o (IF steps THEN pipeline \o project ELSE <<>>)
         \o (first \o roles \o (IF account THEN users ELSE <<>>)
             \o (IF b THEN bucket ELSE <<>>))
  BY DEF Aws!Delete, Aws!DeleteResources
<1> HIDE DEF first, roles, users, bucket, pipeline, project
<1>11. Series(first \o roles \o (IF account THEN users ELSE <<>>)
             \o (IF b THEN bucket ELSE <<>>))
  <2>1. Series(IF account THEN users ELSE <<>>) /\ Series(IF b THEN bucket ELSE <<>>)
    BY <1>5, <1>6, <1>9
  <2>2. Series(first \o roles)
    BY <1>3, <1>4, SeriesConcat
  <2> QED BY <2>1, <2>2, SeriesConcat
<1>12. Series(IF found THEN Aws!BucketExists ELSE <<>>)
  BY <1>9, AwsLooks
<1>13. Series(IF steps THEN pipeline \o project ELSE <<>>)
  BY <1>7, <1>8, <1>9, SeriesConcat
<1>14. Series((IF found THEN Aws!BucketExists ELSE <<>>)
         \o (IF steps THEN pipeline \o project ELSE <<>>))
  BY <1>12, <1>13, SeriesConcat
<1> QED BY <1>10, <1>11, <1>14, SeriesConcat

(***************************************************************************)
(* Google Cloud                                                            *)
(***************************************************************************)
LEMMA GoogleSetups ==
  \A c \in Setups, cron \in BOOLEAN : Series(Google!Setup(c, cron))
<1> SUFFICES ASSUME NEW c \in Setups, NEW cron \in BOOLEAN
             PROVE  Series(Google!Setup(c, cron))
  OBVIOUS
<1> USE DEF Google!Make, Google!GetOrMake, Google!Look, Make, Look, GetOrMake
<1>1. {"apiServices", "storage", "storedConfig", "agentAccount", "accountRoles",
       "projectRoles", "planTarget", "applyTarget", "agentSchedule", "agentRunJob",
       "agentUpdateJob", "planDestroyJob", "applyDestroyJob", "deliveryPipeline",
       "planJob", "applyJob"} \subseteq Part \ Aws!Owners
  BY Parts, AwsOwners
<1>2. \A p \in Part \ Aws!Owners : Make(p) \in Single /\ GetOrMake(p) \in Single
  <2> HIDE DEF Make, Look, GetOrMake
  <2> QED BY AwsPieces
<1>3. \A b \in BOOLEAN : Google!CreateSchedule(b) \in Single
  <2>1. <<Remove({"agentSchedule"})>> \in Seq(SimpleCalls) /\ <<>> \in Seq(SimpleCalls)
    BY <1>1, SimpleOnes DEF Together
  <2>2. Tidy(<<Remove({"agentSchedule"})>>)
    BY DEF Tidy, Deletes, Remove
  <2>3. Look("agentSchedule", <<Remove({"agentSchedule"})>>, <<>>) \in Single
    <3> HIDE DEF Look, Make, GetOrMake
    <3> QED BY <2>1, <2>2, <1>1, EmptyIsTidy, LookIs, SingleOnes, Zenon
  <2>4. GetOrMake("agentSchedule") \in Single
    BY <1>1, <1>2
  <2> QED BY <2>3, <2>4 DEF Google!CreateSchedule, Google!Remove, Remove
<1> DEFINE api == <<Make("apiServices")>>
           storage == <<GetOrMake("storage")>>
           account == <<GetOrMake("agentAccount"), Make("accountRoles"),
                        Make("projectRoles")>>
           targets == <<GetOrMake("planTarget"), GetOrMake("applyTarget")>>
           config == <<Make("storedConfig")>>
           agent == <<GetOrMake("agentRunJob"), GetOrMake("agentUpdateJob")>>
           step == <<GetOrMake("planDestroyJob"), GetOrMake("applyDestroyJob"),
                     Make("deliveryPipeline"), Make("planJob"), Make("applyJob")>>
           schedule == <<Google!CreateSchedule(cron)>>
<1>4. /\ api \in Seq(Single) /\ storage \in Seq(Single) /\ account \in Seq(Single)
      /\ targets \in Seq(Single) /\ config \in Seq(Single) /\ agent \in Seq(Single)
      /\ step \in Seq(Single)
  <2>1. \A p \in {"apiServices", "storage", "storedConfig", "agentAccount", "accountRoles",
       "projectRoles", "planTarget", "applyTarget", "agentSchedule", "agentRunJob",
       "agentUpdateJob", "planDestroyJob", "applyDestroyJob", "deliveryPipeline",
       "planJob", "applyJob"} : Make(p) \in Single /\ GetOrMake(p) \in Single
    BY <1>1, <1>2, Zenon
  <2> HIDE DEF Make, GetOrMake, Look
  <2> QED BY <2>1
<1>5. schedule \in Seq(Single)
  BY <1>3
<1>6. /\ c = "bootstrap" => Google!Setup(c, cron) =
             api \o storage \o (config \o (api \o storage \o (account \o targets \o schedule))
                                \o agent)
      /\ c = "run" => Google!Setup(c, cron) =
             api \o storage \o ((api \o storage \o (account \o targets \o schedule)) \o config
                                \o step)
      /\ c = "local" => Google!Setup(c, cron) =
             api \o storage \o ((api \o storage \o <<>>) \o config)
  BY DEF Google!Setup, Google!SetupMinimalResources, Google!EnableApiServices,
         Google!CreateBucket, Google!SetupResources, Google!CreateAgentAccount,
         Google!CreateTargets, Google!CreateAgent, Google!CreateStep
<1> HIDE DEF api, storage, account, targets, config, agent, step, schedule
<1>7. /\ api \o storage \in Seq(Single)
      /\ account \o targets \o schedule \in Seq(Single)
      /\ <<>> \in Seq(Single)
  BY <1>4, <1>5
<1>8. /\ api \o storage \o (account \o targets \o schedule) \in Seq(Single)
      /\ api \o storage \o <<>> \in Seq(Single)
  BY <1>7, ConcatIs
<1>9. /\ api \o storage \o (config \o (api \o storage \o (account \o targets \o schedule))
                                \o agent) \in Seq(Single)
      /\ api \o storage \o ((api \o storage \o (account \o targets \o schedule)) \o config
                                \o step) \in Seq(Single)
      /\ api \o storage \o ((api \o storage \o <<>>) \o config) \in Seq(Single)
  BY <1>4, <1>7, <1>8, ConcatIs
<1>10. Google!Setup(c, cron) \in Seq(Single)
  BY <1>6, <1>9, Zenon DEF Setups
<1> QED BY <1>10, Singles

LEMMA GoogleServiceAccounts ==
  \A c \in {"user", "trust"}, flag \in BOOLEAN :
     Series(Google!CreateServiceAccount(c, flag, flag))
<1> SUFFICES ASSUME NEW c \in {"user", "trust"}, NEW flag \in BOOLEAN
             PROVE  Series(Google!CreateServiceAccount(c, flag, flag))
  OBVIOUS
<1> USE DEF Google!Make, Google!GetOrMake, Google!Look, Google!Remove, Make, Look,
            GetOrMake, Remove
<1>1. {"userAccount", "userAccountRoles", "userProjectRoles", "userKey", "trust"}
         \subseteq Part \ Aws!Owners
  BY Parts, AwsOwners
<1> DEFINE roles == <<Make("userAccountRoles"), Make("userProjectRoles")>>
           created == <<Make(IF c = "user" THEN "userKey" ELSE "trust")>>
           exists == CASE c = "user" /\ flag -> <<Remove({"userKey"}), Make("userKey")>>
                       [] c = "user" /\ ~flag -> <<>>
                       [] c = "trust" /\ flag -> <<Remove({"userKey"}), GetOrMake("trust")>>
                       [] c = "trust" /\ ~flag -> <<GetOrMake("trust")>>
           account == <<Make("userAccount")>>
<1>2. Google!CreateServiceAccount(c, flag, flag) =
        <<Look("userAccount", roles \o exists, account \o roles \o created)>>
  BY DEF Google!CreateServiceAccount
<1>3. /\ roles \in Seq(SimpleCalls) /\ created \in Seq(SimpleCalls)
      /\ account \in Seq(SimpleCalls)
      /\ <<Remove({"userKey"}), Make("userKey")>> \in Seq(SimpleCalls)
      /\ <<>> \in Seq(Calls1)
  <2>1. \A p \in {"userAccount", "userAccountRoles", "userProjectRoles", "userKey", "trust"} :
           Make(p) \in SimpleCalls /\ Remove({p}) \in SimpleCalls
    <3> HIDE DEF Make, Remove
    <3>1. \A p \in {"userAccount", "userAccountRoles", "userProjectRoles", "userKey",
                    "trust"} : p \in Part /\ {p} \in Together
      BY <1>1 DEF Together
    <3> QED BY <3>1, SimpleOnes, Zenon
  <2> HIDE DEF Make, Remove
  <2> QED BY <2>1
<1>4. /\ GetOrMake("trust") \in Calls1 /\ Remove({"userKey"}) \in Calls1
  <2> HIDE DEF Make, Remove, Look, GetOrMake
  <2>1. GetOrMake("trust") \in LooksFor(SimpleCalls)
    BY <1>1, GetOrMakes
  <2>2. Remove({"userKey"}) \in SimpleCalls
    BY <1>1, SimpleOnes DEF Together
  <2> QED BY <2>1, <2>2 DEF Calls1
<1>5. /\ <<Remove({"userKey"}), GetOrMake("trust")>> \in Seq(Calls1)
      /\ <<GetOrMake("trust")>> \in Seq(Calls1)
  <2> HIDE DEF Remove, GetOrMake
  <2> QED BY <1>4
<1>6. /\ Tidy(roles) /\ Tidy(created) /\ Tidy(account) /\ Tidy(<<>>)
      /\ Tidy(<<Remove({"userKey"}), Make("userKey")>>)
      /\ Tidy(<<Remove({"userKey"}), GetOrMake("trust")>>) /\ Tidy(<<GetOrMake("trust")>>)
  BY <1>1 DEF Tidy, Deletes
<1>7. exists \in Seq(Calls1) /\ Tidy(exists)
  <2>1. \A q \in Seq(SimpleCalls) : q \in Seq(Calls1)
    BY MoreCalls
  <2>2. <<Remove({"userKey"}), Make("userKey")>> \in Seq(Calls1)
    <3> HIDE DEF Remove, Make
    <3> QED BY <1>3, <2>1, Zenon
  <2>3. exists \in {<<>>, <<Remove({"userKey"}), Make("userKey")>>,
                    <<Remove({"userKey"}), GetOrMake("trust")>>, <<GetOrMake("trust")>>}
    <3> HIDE DEF Remove, Make, GetOrMake, Look
    <3>1. CASE c = "user" /\ flag
      BY <3>1
    <3>2. CASE c = "user" /\ ~flag
      BY <3>2
    <3>3. CASE c = "trust" /\ flag
      BY <3>3
    <3>4. CASE c = "trust" /\ ~flag
      BY <3>4
    <3> QED BY <3>1, <3>2, <3>3, <3>4
  <2> HIDE DEF exists, Remove, Make, GetOrMake, Look
  <2> QED BY <2>2, <2>3, <1>3, <1>5, <1>6, Zenon
<1> HIDE DEF roles, created, exists, account
<1>8. roles \in Seq(Calls1) /\ created \in Seq(Calls1) /\ account \in Seq(Calls1)
  BY <1>3, MoreCalls
<1>9. roles \o exists \in Seq(Calls1) /\ Tidy(roles \o exists)
  BY <1>6, <1>7, <1>8, TidyConcat
<1>10. account \o roles \in Seq(Calls1) /\ Tidy(account \o roles)
  BY <1>6, <1>8, TidyConcat
<1>11. account \o roles \o created \in Seq(Calls1) /\ Tidy(account \o roles \o created)
  BY <1>6, <1>8, <1>10, TidyConcat, ConcatIs, Zenon
<1>12. Look("userAccount", roles \o exists, account \o roles \o created) \in Single
  <2> HIDE DEF Look
  <2>1. "userAccount" \in Part
    BY <1>1
  <2> QED BY <2>1, <1>9, <1>11, LookIs, SingleOnes, Zenon
<1>13. Google!CreateServiceAccount(c, flag, flag) \in Seq(Single)
  <2> HIDE DEF Look
  <2> QED BY <1>2, <1>12
<1> QED BY <1>13, Singles

LEMMA GoogleDeletes ==
  \A steps, b, account \in BOOLEAN : Series(Google!Delete(steps, b, account))
<1> SUFFICES ASSUME NEW steps \in BOOLEAN, NEW b \in BOOLEAN, NEW account \in BOOLEAN
             PROVE  Series(Google!Delete(steps, b, account))
  OBVIOUS
<1> USE DEF Google!Try, Try
<1>1. \A S \in Together, n \in Nat : Try(S, n) \in AnyCall
  BY SimpleOnes, MoreCalls, Zenon
<1>2. {{"deliveryPipeline"}, {"planJob"}, {"applyJob"}, {"planDestroyJob"},
       {"applyDestroyJob"}, {"agentSchedule"}, {"agentRunJob"}, {"agentUpdateJob"},
       {"planTarget"}, {"applyTarget"}, {"agentAccount"}, {"userAccount"},
       {"storedConfig"}, {"storage"}} \subseteq Together
  BY Parts DEF Together
<1> DEFINE step == <<Try({"deliveryPipeline"}, 0), Try({"planJob"}, 3), Try({"applyJob"}, 2),
                     Try({"planDestroyJob"}, 1), Try({"applyDestroyJob"}, 0)>>
           agent == <<Try({"agentSchedule"}, 0), Try({"agentRunJob"}, 0),
                      Try({"agentUpdateJob"}, 0)>>
           targets == <<Try({"planTarget"}, 1), Try({"applyTarget"}, 0)>>
           own == <<Try({"agentAccount"}, 0)>>
           user == <<Try({"userAccount"}, 0)>>
           bucket == <<Try({"storedConfig"}, 1), Try({"storage"}, 0)>>
<1>3. /\ step \in Seq(AnyCall) /\ agent \in Seq(AnyCall) /\ targets \in Seq(AnyCall)
      /\ own \in Seq(AnyCall) /\ user \in Seq(AnyCall) /\ bucket \in Seq(AnyCall)
  <2>1. \A S \in {{"deliveryPipeline"}, {"planJob"}, {"applyJob"}, {"planDestroyJob"},
                  {"applyDestroyJob"}, {"agentSchedule"}, {"agentRunJob"},
                  {"agentUpdateJob"}, {"planTarget"}, {"applyTarget"}, {"agentAccount"},
                  {"userAccount"}, {"storedConfig"}, {"storage"}}, n \in Nat :
           Try(S, n) \in AnyCall
    BY <1>1, <1>2, Zenon
  <2> HIDE DEF Try
  <2> QED BY <2>1
<1>4. Series(step)
  <2>1. Tidy(step)
    BY DEF Tidy, Deletes
  <2> QED BY <1>3, <2>1 DEF Series
<1>5. Series(agent) /\ Series(targets) /\ Series(own) /\ Series(user) /\ Series(bucket)
  <2>1. Tidy(agent) /\ Tidy(targets) /\ Tidy(own) /\ Tidy(user) /\ Tidy(bucket)
    BY DEF Tidy, Deletes
  <2> QED BY <1>3, <2>1 DEF Series
<1>6. Series(<<>>)
  BY EmptyIsTidy DEF Series
<1>7. Series(Google!CreateTargets)
  <2>1. {"planTarget", "applyTarget"} \subseteq Part \ Aws!Owners
    BY Parts, AwsOwners
  <2>2. GetOrMake("planTarget") \in Single /\ GetOrMake("applyTarget") \in Single
    BY <2>1, AwsPieces
  <2>3. Google!CreateTargets = <<GetOrMake("planTarget"), GetOrMake("applyTarget")>>
    BY DEF Google!CreateTargets, Google!GetOrMake, GetOrMake, Google!Look, Look,
           Google!Make, Make
  <2> QED BY <2>2, <2>3, Singles
<1>8. Google!Delete(steps, b, account) =
        Google!CreateTargets
        \o (IF steps THEN step ELSE <<>>)
        \o (agent \o targets \o own \o (IF account THEN user ELSE <<>>)
            \o (IF b THEN bucket ELSE <<>>))
  BY DEF Google!Delete, Google!DeleteStep, Google!DeleteResources, Google!DeleteTargets,
         Google!DeleteBucket
<1> HIDE DEF step, agent, targets, own, user, bucket
<1>9. Series(agent \o targets) 
  BY <1>5, SeriesConcat
<1>10. Series(agent \o targets \o own)
  BY <1>5, <1>9, SeriesConcat
<1>11. Series(agent \o targets \o own \o (IF account THEN user ELSE <<>>))
  <2>1. Series(IF account THEN user ELSE <<>>)
    BY <1>5, <1>6
  <2> QED BY <2>1, <1>10, SeriesConcat
<1>12. Series(agent \o targets \o own \o (IF account THEN user ELSE <<>>)
            \o (IF b THEN bucket ELSE <<>>))
  <2>1. Series(IF b THEN bucket ELSE <<>>)
    BY <1>5, <1>6
  <2> QED BY <2>1, <1>11, SeriesConcat
<1>13. Series(Google!CreateTargets \o (IF steps THEN step ELSE <<>>))
  <2>1. Series(IF steps THEN step ELSE <<>>)
    BY <1>4, <1>6
  <2> QED BY <2>1, <1>7, SeriesConcat
<1> QED BY <1>8, <1>12, <1>13, SeriesConcat

LEMMA CommandCalls ==
  ASSUME NEW c \in Setups, NEW a \in {"user", "trust"}, NEW cron \in BOOLEAN,
         NEW found \in BOOLEAN, NEW steps \in BOOLEAN, NEW b \in BOOLEAN,
         NEW account \in BOOLEAN
  PROVE  /\ Series(Aws!Setup(c, cron)) /\ Series(Google!Setup(c, cron))
         /\ Series(Aws!CreateServiceAccount(a, cron, cron))
         /\ Series(Google!CreateServiceAccount(a, cron, cron))
         /\ Series(Aws!Delete(found, steps, b, account))
         /\ Series(Google!Delete(steps, b, account))
BY AwsSetups, GoogleSetups, AwsServiceAccounts, GoogleServiceAccounts, AwsDeletes,
   GoogleDeletes

(***************************************************************************)
(* What a session goes on with                                             *)
(***************************************************************************)
LEMMA MakesOf ==
  ASSUME NEW S, NEW q \in Seq(S), NEW p
  PROVE  p \in Makes(q) <=> \E i \in 1..Len(q) : q[i].do = "make" /\ q[i].part = p
BY DEF Makes

LEMMA TidyMakes ==
  ASSUME NEW S, NEW q \in Seq(S), Tidy(q)
  PROVE  Makes(q) \cap Aws!Owners = {}
BY MakesOf DEF Tidy

LEMMA TailMakes ==
  ASSUME NEW S, NEW q \in Seq(S), q # <<>>
  PROVE  /\ Makes(Tail(q)) \subseteq Makes(q)
         /\ Makes(q) \subseteq Makes(Tail(q)) \cup (IF q[1].do = "make" THEN {q[1].part} ELSE {})
<1>1. /\ Tail(q) \in Seq(S) /\ Len(Tail(q)) = Len(q) - 1 /\ Len(q) \in Nat \ {0}
      /\ \A i \in 1..(Len(q) - 1) : Tail(q)[i] = q[i + 1]
  BY TailIs
<1> DEFINE r == Tail(q)
<1>2. r \in Seq(S) /\ Len(r) = Len(q) - 1 /\ \A i \in 1..(Len(q) - 1) : r[i] = q[i + 1]
  BY <1>1
<1> HIDE DEF r
<1>3. ASSUME NEW p \in Makes(r) PROVE p \in Makes(q)
  <2>1. PICK i \in 1..Len(r) : r[i].do = "make" /\ r[i].part = p
    BY <1>2, <1>3, MakesOf
  <2>2. i + 1 \in 1..Len(q) /\ q[i + 1] = r[i]
    BY <1>1, <1>2
  <2> QED BY <2>1, <2>2, MakesOf
<1>4. ASSUME NEW p \in Makes(q), ~(q[1].do = "make" /\ q[1].part = p) PROVE p \in Makes(r)
  <2>1. PICK i \in 1..Len(q) : q[i].do = "make" /\ q[i].part = p
    BY <1>4, MakesOf
  <2>2. i # 1
    BY <2>1, <1>4
  <2>3. i - 1 \in 1..Len(r) /\ r[i - 1] = q[i]
    BY <2>2, <1>1, <1>2
  <2> QED BY <2>1, <2>3, <1>2, MakesOf
<1> QED BY <1>3, <1>4 DEF r

LEMMA BegunMakes ==
  ASSUME NEW S, NEW q \in Seq(S), NEW o, Begun(q, o)
  PROVE  Makes(q) \cap Aws!Owners \subseteq {o} /\ Family[o] \subseteq Makes(Tail(q))
<1>1. q # <<>> /\ q[1].do = "make" /\ q[1].part = o /\ Tidy(Tail(q))
  BY DEF Begun, Make
<1>2. Tail(q) \in Seq(S) /\ Len(Tail(q)) = Len(q) - 1 /\ Len(q) \in Nat \ {0}
      /\ \A i \in 1..(Len(q) - 1) : Tail(q)[i] = q[i + 1]
  BY <1>1, TailIs
<1>3. Makes(q) \cap Aws!Owners \subseteq {o}
  BY <1>1, <1>2, TailMakes, TidyMakes, Zenon
<1>4. ASSUME NEW p \in Family[o] PROVE p \in Makes(Tail(q))
  <2>1. PICK n \in 1..Len(q) :
          /\ \A i \in 2..n : q[i].do = "make" /\ q[i].part \in Family[o]
          /\ \A p1 \in Family[o] : \E i \in 2..n : q[i].part = p1
    BY Zenon DEF Begun
  <2>2. PICK i \in 2..n : q[i].part = p /\ q[i].do = "make"
    BY <2>1, <1>4, Zenon
  <2>3. i - 1 \in 1..Len(Tail(q)) /\ Tail(q)[i - 1] = q[i]
    BY <1>2, <2>2
  <2> QED BY <2>2, <2>3, <1>2, MakesOf, Zenon
<1> QED BY <1>3, <1>4

LEMMA ConcatMakes ==
  ASSUME NEW S, NEW q \in Seq(S), NEW r \in Seq(S)
  PROVE  Makes(q \o r) = Makes(q) \cup Makes(r)
<1> DEFINE t == q \o r
<1>1. /\ t \in Seq(S) /\ Len(t) = Len(q) + Len(r) /\ Len(q) \in Nat /\ Len(r) \in Nat
      /\ \A i \in 1..Len(q) : t[i] = q[i]
      /\ \A i \in 1..Len(r) : t[Len(q) + i] = r[i]
      /\ \A i \in (Len(q) + 1)..(Len(q) + Len(r)) : t[i] = r[i - Len(q)]
  BY ConcatIs
<1> HIDE DEF t
<1>2. ASSUME NEW p \in Makes(t) PROVE p \in Makes(q) \cup Makes(r)
  <2>1. PICK i \in 1..Len(t) : t[i].do = "make" /\ t[i].part = p
    BY <1>1, <1>2, MakesOf
  <2>2. CASE i <= Len(q)
    <3>1. i \in 1..Len(q) /\ q[i] = t[i]
      BY <2>2, <1>1
    <3> QED BY <3>1, <2>1, MakesOf
  <2>3. CASE i > Len(q)
    <3>1. i - Len(q) \in 1..Len(r) /\ r[i - Len(q)] = t[i]
      BY <2>3, <1>1
    <3> QED BY <3>1, <2>1, MakesOf
  <2> QED BY <2>2, <2>3, <1>1
<1>3. ASSUME NEW p \in Makes(q) PROVE p \in Makes(t)
  <2>1. PICK i \in 1..Len(q) : q[i].do = "make" /\ q[i].part = p
    BY <1>3, MakesOf
  <2>2. i \in 1..Len(t) /\ t[i] = q[i]
    BY <1>1
  <2> QED BY <2>1, <2>2, <1>1, MakesOf
<1>4. ASSUME NEW p \in Makes(r) PROVE p \in Makes(t)
  <2>1. PICK i \in 1..Len(r) : r[i].do = "make" /\ r[i].part = p
    BY <1>4, MakesOf
  <2> DEFINE k == Len(q) + i
  <2>2. k \in 1..Len(t) /\ t[k] = r[i]
    BY <1>1
  <2> HIDE DEF k
  <2>3. t[k].do = "make" /\ t[k].part = p
    BY <2>1, <2>2
  <2> QED BY <2>2, <2>3, <1>1, MakesOf, Zenon
<1> QED BY <1>2, <1>3, <1>4 DEF t

LEMMA SuffixMakes ==
  ASSUME NEW S, NEW q \in Seq(S), NEW n \in 0..Len(q)
  PROVE  LET r == SubSeq(q, n + 1, Len(q))
         IN  /\ Makes(r) \subseteq Makes(q)
             /\ \A p \in Makes(q) :
                  (\A i \in 1..n : q[i].do = "make" => q[i].part # p) => p \in Makes(r)
<1> DEFINE r == SubSeq(q, n + 1, Len(q))
<1>1. /\ r \in Seq(S) /\ Len(r) = Len(q) - n /\ n \in Nat /\ Len(q) \in Nat
      /\ \A i \in 1..(Len(q) - n) : r[i] = q[n + i]
  BY SuffixIs
<1> HIDE DEF r
<1>2. ASSUME NEW p \in Makes(r) PROVE p \in Makes(q)
  <2>1. PICK i \in 1..Len(r) : r[i].do = "make" /\ r[i].part = p
    BY <1>1, <1>2, MakesOf
  <2>2. n + i \in 1..Len(q) /\ q[n + i] = r[i]
    BY <1>1
  <2> QED BY <2>1, <2>2, MakesOf
<1>3. ASSUME NEW p \in Makes(q), \A i \in 1..n : q[i].do = "make" => q[i].part # p
      PROVE  p \in Makes(r)
  <2>1. PICK i \in 1..Len(q) : q[i].do = "make" /\ q[i].part = p
    BY <1>3, MakesOf
  <2>2. i - n \in 1..Len(r) /\ r[i - n] = q[i]
    BY <2>1, <1>1, <1>3
  <2> QED BY <2>1, <2>2, <1>1, MakesOf
<1> QED BY <1>2, <1>3 DEF r

LEMMA GoesOnIs ==
  ASSUME CallsOK, NEW s \in Sessions, NEW calls \in Seq(AnyCall), Ready(calls),
         GoesOn(s, calls)
  PROVE  /\ todo' \in [Sessions -> Seq(AnyCall)]
         /\ \A t \in Sessions \ {s} : todo'[t] = todo[t]
         /\ Ready(todo'[s])
         /\ todo'[s] # <<>> => InScope(Head(todo'[s]))
         /\ Makes(todo'[s]) \subseteq Makes(calls)
         /\ Makes(calls) \cap scope \subseteq Makes(todo'[s])
<1>1. PICK n \in 0..Len(calls) :
        /\ \A i \in 1..n : ~InScope(calls[i])
        /\ n < Len(calls) => InScope(calls[n + 1])
        /\ todo' = [todo EXCEPT ![s] = SubSeq(calls, n + 1, Len(calls))]
  BY Zenon DEF GoesOn
<1> DEFINE r == SubSeq(calls, n + 1, Len(calls))
<1>2. r \in Seq(AnyCall) /\ Len(r) = Len(calls) - n
      /\ \A i \in 1..(Len(calls) - n) : r[i] = calls[n + i]
  BY SuffixIs
<1>3. Ready(r)
  <2>1. CASE n = 0
    <3>1. SubSeq(calls, 0 + 1, Len(calls)) = calls
      OBVIOUS
    <3> QED BY <2>1, <3>1, Zenon
  <2>2. CASE n # 0
    BY <2>2, RestIsTidy DEF Ready
  <2> QED BY <2>1, <2>2
<1>4. /\ Makes(r) \subseteq Makes(calls)
      /\ Makes(calls) \cap scope \subseteq Makes(r)
  <2>1. ASSUME NEW p \in Makes(calls) \cap scope, NEW i \in 1..n, calls[i].do = "make"
        PROVE  calls[i].part # p
    BY <1>1, <2>1 DEF InScope
  <2> HIDE DEF r
  <2> QED BY <2>1, SuffixMakes DEF r
<1> HIDE DEF r
<1>5. todo' = [todo EXCEPT ![s] = r] /\ todo \in [Sessions -> Seq(AnyCall)]
  BY <1>1 DEF r, CallsOK
<1>6. todo'[s] = r /\ todo' \in [Sessions -> Seq(AnyCall)]
      /\ \A t \in Sessions \ {s} : todo'[t] = todo[t]
  BY <1>2, <1>5
<1>7. r # <<>> => InScope(Head(r))
  <2> HAVE r # <<>>
  <2>1. Head(r) = r[1] /\ Len(r) \in Nat \ {0}
    BY <1>2, TailIs
  <2>2. n < Len(calls) /\ r[1] = calls[n + 1]
    BY <2>1, <1>2
  <2> QED BY <2>1, <2>2, <1>1
<1> QED BY <1>3, <1>4, <1>6, <1>7

\* Whoever was to make a part and not its owner is so still.
LEMMA StillMade ==
  ASSUME CallsOK, NEW s \in Sessions, NEW calls \in Seq(AnyCall), Ready(calls),
         GoesOn(s, calls), NEW o, NEW p \in scope, NEW t \in Sessions,
         p \in UnderWay(t), o \notin UnderWay(t),
         t = s => p \in Makes(calls) /\ o \notin Makes(calls)
  PROVE  p \in UnderWay(t)' /\ o \notin UnderWay(t)'
<1>1. p \in Makes(todo[t]) /\ o \notin Makes(todo[t])
  BY DEF UnderWay, Makes
<1>2. p \in Makes(todo'[t]) /\ o \notin Makes(todo'[t])
  <2>1. CASE t = s
    BY <2>1, GoesOnIs
  <2>2. CASE t # s
    BY <2>2, <1>1, GoesOnIs
  <2> QED BY <2>1, <2>2
<1> QED BY <1>2 DEF UnderWay, Makes

LEMMA CallsGoOn ==
  ASSUME CallsOK, NEW s \in Sessions, NEW calls \in Seq(AnyCall), Ready(calls),
         GoesOn(s, calls), UNCHANGED scope,
         \A t \in Sessions : command'[t] = "none" => command[t] = "none" /\ t # s
  PROVE  CallsOK'
<1> DEFINE OK(q) == Ready(q) /\ (q # <<>> => InScope(Head(q)))
<1>1. /\ todo' \in [Sessions -> Seq(AnyCall)]
      /\ \A t \in Sessions \ {s} : todo'[t] = todo[t]
      /\ OK(todo'[s])
  BY GoesOnIs
<1>2. \A t \in Sessions : OK(todo[t]) /\ (command[t] = "none" => todo[t] = <<>>)
  BY DEF CallsOK
<1>3. \A t \in Sessions : OK(todo'[t])
  <2> HIDE DEF OK
  <2> QED BY <1>1, <1>2, Zenon
<1>4. \A t \in Sessions : command'[t] = "none" => todo'[t] = <<>>
  BY <1>1, <1>2
<1>6. \A t \in Sessions :
         /\ Ready(todo'[t])
         /\ todo'[t] # <<>> => InScope(Head(todo[t]))'
         /\ command'[t] = "none" => todo'[t] = <<>>
  BY <1>3, <1>4 DEF InScope
<1> QED BY <1>1, <1>6 DEF CallsOK

\* The first call of a session and what it goes on with.
LEMMA FirstCall ==
  ASSUME CallsOK, NEW s \in Sessions, todo[s] # <<>>
  PROVE  /\ todo[s] \in Seq(AnyCall) /\ Call(s) = todo[s][1] /\ Call(s) \in AnyCall
         /\ Len(todo[s]) \in Nat \ {0} /\ InScope(Call(s)) /\ Ready(todo[s])
         /\ Tail(todo[s]) \in Seq(AnyCall) /\ Tidy(Tail(todo[s]))
         /\ Call(s).do # "make" => Tidy(todo[s]) /\ Makes(Tail(todo[s])) = UnderWay(s)
<1>1. todo[s] \in Seq(AnyCall) /\ InScope(Call(s)) /\ Ready(todo[s])
  BY DEF CallsOK, Call
<1>2. /\ Call(s) = todo[s][1] /\ Call(s) \in AnyCall /\ Len(todo[s]) \in Nat \ {0}
      /\ Tail(todo[s]) \in Seq(AnyCall)
  BY <1>1, TailIs DEF Call
<1>3. Tidy(Tail(todo[s]))
  BY <1>1, TidyTail DEF Ready, Begun
<1>4. ASSUME Call(s).do # "make"
      PROVE  Tidy(todo[s]) /\ Makes(Tail(todo[s])) = UnderWay(s)
  <2> DEFINE q == todo[s]
  <2>1. q \in Seq(AnyCall) /\ q # <<>> /\ q[1].do # "make" /\ Ready(q)
    BY <1>1, <1>2, <1>4
  <2> HIDE DEF q
  <2>2. \A o : ~Begun(q, o)
    <3> SUFFICES ASSUME NEW o, Begun(q, o) PROVE FALSE
      OBVIOUS
    <3>1. q[1] = Make(o)
      BY DEF Begun
    <3> QED BY <3>1, <2>1 DEF Make
  <2>3. Tidy(q)
    BY <2>1, <2>2 DEF Ready
  <2>4. Makes(Tail(q)) = Makes(q)
    <3>1. /\ Makes(Tail(q)) \subseteq Makes(q)
          /\ Makes(q) \subseteq
               Makes(Tail(q)) \cup (IF q[1].do = "make" THEN {q[1].part} ELSE {})
      <4> HIDE DEF Makes
      <4> QED BY <2>1, TailMakes
    <3> QED BY <2>1, <3>1, Zenon
  <2> QED BY <2>3, <2>4, Zenon DEF UnderWay, Makes, q
<1> QED BY <1>1, <1>2, <1>3, <1>4

\* A deletion goes on with the next call, or leaves out deletions only.
LEMMA DeletionGoesOn ==
  ASSUME CallsOK, NEW s \in Sessions, todo[s] # <<>>, Deletes(Call(s))
  PROVE  /\ Skip(todo[s], Call(s).skips) \in Seq(AnyCall)
         /\ Tidy(Skip(todo[s], Call(s).skips))
         /\ Makes(Skip(todo[s], Call(s).skips)) = UnderWay(s)
<1>1. /\ todo[s] \in Seq(AnyCall) /\ Call(s) = todo[s][1] /\ Call(s) \in AnyCall
      /\ Len(todo[s]) \in Nat \ {0} /\ Tidy(todo[s])
  BY FirstCall DEF Deletes
<1>2. Call(s).skips \in Nat
  BY <1>1 DEF AnyCall, Calls1, SimpleCalls, LooksFor, Deletes
<1> DEFINE q == todo[s]
           n == Call(s).skips + 1
<1>3. q \in Seq(AnyCall) /\ Tidy(q) /\ q[1].skips = Call(s).skips /\ Deletes(q[1])
      /\ Len(q) \in Nat \ {0} /\ n = Call(s).skips + 1
  BY <1>1
<1> HIDE DEF q, n
<1>4. n \in 0..Len(q) /\ \A i \in 1..n : Deletes(q[i])
  <2>1. \A j \in 1..Call(s).skips : 1 + j <= Len(q) /\ Deletes(q[1 + j])
    BY <1>3 DEF Tidy
  <2>2. n <= Len(q)
    BY <2>1, <1>2, <1>3
  <2>3. ASSUME NEW i \in 1..n PROVE Deletes(q[i])
    <3>1. CASE i = 1
      BY <3>1, <1>3
    <3>2. CASE i # 1
      <4>1. i - 1 \in 1..Call(s).skips /\ 1 + (i - 1) = i
        BY <3>2, <1>2, <1>3
      <4> QED BY <4>1, <2>1
    <3> QED BY <3>1, <3>2
  <2> QED BY <2>2, <2>3, <1>2, <1>3
<1>5. Skip(q, Call(s).skips) = SubSeq(q, n + 1, Len(q))
  <2>1. n + 1 = Call(s).skips + 2
    BY <1>2, <1>3
  <2> QED BY <2>1, Zenon DEF Skip
<1>6. Tidy(SubSeq(q, n + 1, Len(q))) /\ SubSeq(q, n + 1, Len(q)) \in Seq(AnyCall)
  BY <1>3, <1>4, TidySuffix, SuffixIs, Zenon
<1>7. Makes(SubSeq(q, n + 1, Len(q))) = Makes(q)
  <2>1. \A i \in 1..n : q[i].do # "make"
    BY <1>4 DEF Deletes
  <2> DEFINE r == SubSeq(q, n + 1, Len(q))
  <2>2. Makes(r) \subseteq Makes(q)
    BY <1>3, <1>4, SuffixMakes
  <2>3. \A p \in Makes(q) : (\A i \in 1..n : q[i].do = "make" => q[i].part # p)
                               => p \in Makes(r)
    BY <1>3, <1>4, SuffixMakes
  <2> HIDE DEF r
  <2>4. \A p \in Makes(q) : p \in Makes(r)
    BY <2>1, <2>3
  <2> QED BY <2>2, <2>4, Zenon DEF r
<1>8. Makes(q) = UnderWay(s)
  BY DEF Makes, UnderWay, q
<1> QED BY <1>5, <1>6, <1>7, <1>8 DEF q

(***************************************************************************)
(* What is missing of what was made                                        *)
(***************************************************************************)
LEMMA InScopes ==
  ASSUME AccountInv
  PROVE  /\ scope \subseteq Part
         /\ \A o \in Owners \cap scope : Family[o] \subseteq scope
BY ScopesAssumption DEF AccountInv, Part

\* A session goes on, and the parts are the same.
LEMMA PartsStay ==
  ASSUME AccountInv, NEW s \in Sessions, NEW calls \in Seq(AnyCall), Ready(calls),
         GoesOn(s, calls), parts' = parts, unfinished' = unfinished,
         \A o \in Aws!Owners \cap parts :
            /\ UnderWay(s) \subseteq Makes(calls)
            /\ o \in Makes(calls) => o \in UnderWay(s)
  PROVE  MissingIsMade'
<1> SUFFICES ASSUME NEW o \in Owners \cap parts, NEW p \in Family[o] \ parts,
                    p \notin unfinished
             PROVE  /\ o \in Aws!Owners
                    /\ \E t \in Sessions : p \in UnderWay(t)' /\ o \notin UnderWay(t)'
  BY DEF MissingIsMade
<1>1. o \in Aws!Owners /\ \E t \in Sessions : p \in UnderWay(t) /\ o \notin UnderWay(t)
  BY DEF AccountInv, MissingIsMade
<1>2. PICK t \in Sessions : p \in UnderWay(t) /\ o \notin UnderWay(t)
  BY <1>1
<1>3. p \in scope
  BY InScopes DEF AccountInv
<1>4. t = s => p \in Makes(calls) /\ o \notin Makes(calls)
  BY <1>1, <1>2
<1>5. CallsOK
  BY DEF AccountInv
<1>6. p \in UnderWay(t)' /\ o \notin UnderWay(t)'
  BY <1>2, <1>3, <1>4, <1>5, StillMade
<1> QED BY <1>1, <1>6

LEMMA BeginKeeps ==
  ASSUME AccountInv, NEW s \in Sessions, NEW c, NEW calls, NEW taken, Series(calls),
         Begin(s, c, calls, taken)
  PROVE  AccountInv'
<1>1. /\ calls \in Seq(AnyCall) /\ Ready(calls) /\ GoesOn(s, calls)
      /\ c \in Commands /\ command[s] = "none"
      /\ command' = [command EXCEPT ![s] = c]
      /\ UNCHANGED <<scope, parts, unfinished>>
  BY DEF Begin, Series, Ready
<1>2. UnderWay(s) = {} /\ CallsOK
  <2>1. todo[s] = <<>> /\ CallsOK
    BY <1>1 DEF AccountInv, CallsOK
  <2> QED BY <2>1 DEF UnderWay
<1>3. c # "none"
  BY <1>1, CommandsAssumption DEF AllCommands
<1>4. command' \in [Sessions -> Commands \cup {"none"}]
  BY <1>1 DEF AccountInv
<1>5. \A t \in Sessions : command'[t] = "none" => command[t] = "none" /\ t # s
  BY <1>1, <1>3 DEF AccountInv
<1>6. CallsOK'
  BY <1>1, <1>2, <1>5, CallsGoOn
<1>7. Makes(calls) \cap Aws!Owners = {}
  BY <1>1, TidyMakes DEF Begin, Series
<1>8. MissingIsMade'
  BY <1>1, <1>2, <1>7, PartsStay
<1> QED BY <1>1, <1>4, <1>6, <1>8 DEF AccountInv

LEMMA BeginningsKeep ==
  ASSUME AccountInv, NEW s \in Sessions,
         BeginSetup(s) \/ BeginServiceAccount(s) \/ BeginDelete(s)
  PROVE  AccountInv'
<1>1. CASE BeginSetup(s)
  <2>1. PICK c \in {"bootstrap", "run", "local"}, cron \in BOOLEAN :
          Begin(s, c, IF OfGoogle THEN Google!Setup(c, cron) ELSE Aws!Setup(c, cron),
                IF cron \/ c = "local" THEN {} ELSE Schedules)
    BY <1>1 DEF BeginSetup
  <2>2. Series(IF OfGoogle THEN Google!Setup(c, cron) ELSE Aws!Setup(c, cron))
    BY GoogleSetups, AwsSetups DEF Setups
  <2> QED BY <2>1, <2>2, BeginKeeps
<1>2. CASE BeginServiceAccount(s)
  <2>1. PICK c \in {"user", "trust"}, flag \in BOOLEAN :
        Begin(s, c, IF OfGoogle THEN Google!CreateServiceAccount(c, flag, flag)
                                ELSE Aws!CreateServiceAccount(c, flag, flag),
              CASE ~flag -> {}
                [] c = "user" -> {"saKey", "userKey"}
                [] c = "trust" -> {"saUser", "userKey"} \cup Family["saUser"])
    BY <1>2 DEF BeginServiceAccount
  <2>2. Series(IF OfGoogle THEN Google!CreateServiceAccount(c, flag, flag)
                           ELSE Aws!CreateServiceAccount(c, flag, flag))
    BY GoogleServiceAccounts, AwsServiceAccounts
  <2> QED BY <2>1, <2>2, BeginKeeps
<1>3. CASE BeginDelete(s)
  <2>1. PICK found \in BOOLEAN, steps \in BOOLEAN, b \in BOOLEAN, account \in BOOLEAN :
          \/ Begin(s, "delete", Google!Delete(steps, b, account),
                   Google!Taken(steps, b, account))
          \/ Begin(s, "delete", Aws!Delete(found, steps, b, account),
                   Aws!Taken(steps, b, account))
    <3>1. PICK config \in BOOLEAN, deleteBucket \in BOOLEAN,
               deleteServiceAccount \in BOOLEAN :
        LET found == parts \cap {"bucket", "storage"} # {}
            steps == config \/ parts \cap {"config", "storedConfig"} # {}
            bucket == (steps \/ found) /\ deleteBucket
            account == (steps \/ found) /\ deleteServiceAccount
        IN  /\ steps \/ ~found
            /\ \/ /\ OfGoogle
                  /\ Begin(s, "delete", Google!Delete(steps, bucket, account),
                           Google!Taken(steps, bucket, account))
               \/ /\ ~OfGoogle
                  /\ Begin(s, "delete", Aws!Delete(found, steps, bucket, account),
                           Aws!Taken(steps, bucket, account))
      BY <1>3, Zenon DEF BeginDelete
    <3> DEFINE found == parts \cap {"bucket", "storage"} # {}
               steps == config \/ parts \cap {"config", "storedConfig"} # {}
               bucket == (steps \/ found) /\ deleteBucket
               account == (steps \/ found) /\ deleteServiceAccount
    <3>2. found \in BOOLEAN /\ steps \in BOOLEAN /\ bucket \in BOOLEAN /\ account \in BOOLEAN
      OBVIOUS
    <3>3. \/ Begin(s, "delete", Google!Delete(steps, bucket, account),
                           Google!Taken(steps, bucket, account))
          \/ Begin(s, "delete", Aws!Delete(found, steps, bucket, account),
                           Aws!Taken(steps, bucket, account))
      BY <3>1
    <3> HIDE DEF found, steps, bucket, account
    <3> QED BY <3>2, <3>3, Zenon
  <2>2. Series(Google!Delete(steps, b, account))
        /\ Series(Aws!Delete(found, steps, b, account))
    BY GoogleDeletes, AwsDeletes
  <2> QED BY <2>1, <2>2, BeginKeeps
<1> QED BY <1>1, <1>2, <1>3

LEMMA LookUpKeeps ==
  ASSUME AccountInv, NEW s \in Sessions, LookUp(s)
  PROVE  AccountInv'
<1>1. /\ todo[s] # <<>> /\ Call(s).do = "look" /\ CallsOK
      /\ UNCHANGED <<scope, parts, unfinished, command>>
  BY DEF LookUp, Calls, AccountInv
<1> DEFINE answer == IF Call(s).part \in parts THEN Call(s).found ELSE Call(s).missing
           calls == answer \o Tail(todo[s])
<1>2. GoesOn(s, calls)
  BY DEF LookUp
<1>3. /\ Call(s) \in AnyCall /\ Tail(todo[s]) \in Seq(AnyCall) /\ Tidy(Tail(todo[s]))
      /\ Makes(Tail(todo[s])) = UnderWay(s)
  BY <1>1, FirstCall
<1>4. /\ answer \in Seq(AnyCall)
      /\ \/ Tidy(answer)
         \/ /\ Call(s).part \in Aws!Owners \ parts
            /\ Begun(answer, Call(s).part)
  <2>1. Call(s) \in LooksFor(SimpleCalls) \cup LooksFor(Calls1)
    BY <1>1, <1>3 DEF AnyCall, Calls1, SimpleCalls
  <2>2. \A S : Call(s) \in LooksFor(S) =>
          /\ Call(s).found \in Seq(S) /\ Call(s).missing \in Seq(S)
          /\ Tidy(Call(s).found)
          /\ Tidy(Call(s).missing) \/ (Call(s).part \in Aws!Owners
                                       /\ Begun(Call(s).missing, Call(s).part))
    BY DEF LooksFor
  <2>3. Call(s).found \in Seq(AnyCall) /\ Call(s).missing \in Seq(AnyCall)
    <3>1. SimpleCalls \subseteq AnyCall /\ Calls1 \subseteq AnyCall
      BY MoreCalls
    <3> QED BY <2>1, <2>2, <3>1
  <2>4. CASE Call(s).part \in parts
    BY <2>1, <2>2, <2>3, <2>4
  <2>5. CASE Call(s).part \notin parts
    BY <2>1, <2>2, <2>3, <2>5
  <2> QED BY <2>4, <2>5
<1> HIDE DEF answer
<1>5. calls \in Seq(AnyCall) /\ Makes(calls) = Makes(answer) \cup UnderWay(s)
  <2>1. /\ answer \o Tail(todo[s]) \in Seq(AnyCall)
        /\ Makes(answer \o Tail(todo[s])) = Makes(answer) \cup Makes(Tail(todo[s]))
    <3> HIDE DEF Makes
    <3> QED BY <1>3, <1>4, ConcatMakes, ConcatIs, Zenon
  <2> QED BY <2>1, <1>3
<1>6. Ready(calls)
  <2>1. CASE Tidy(answer)
    BY <2>1, <1>3, <1>4, TidyConcat, Zenon DEF Ready
  <2>2. CASE Call(s).part \in Aws!Owners /\ Begun(answer, Call(s).part)
    BY <2>2, <1>3, <1>4, BegunConcat, Zenon DEF Ready
  <2> QED BY <2>1, <2>2, <1>4
<1>7. \A o \in Aws!Owners \cap parts : o \notin Makes(answer)
  BY <1>4, TidyMakes, BegunMakes
<1> HIDE DEF calls
<1>8. CallsOK'
  <2>1. \A t \in Sessions : command'[t] = "none" => command[t] = "none" /\ t # s
    BY <1>1 DEF CallsOK
  <2> QED BY <2>1, <1>1, <1>2, <1>5, <1>6, CallsGoOn
<1>9. MissingIsMade'
  BY <1>1, <1>2, <1>5, <1>6, <1>7, PartsStay
<1> QED BY <1>1, <1>8, <1>9 DEF AccountInv

\* A call that changes no part, and the next calls or fewer deletions.
LEMMA RefusalKeeps ==
  ASSUME AccountInv, NEW s \in Sessions, UpdateSAPolicy(s) \/ RemovalRefused(s)
  PROVE  AccountInv'
<1>1. /\ todo[s] # <<>> /\ Call(s).do # "make" /\ CallsOK
      /\ UNCHANGED <<scope, parts, unfinished, command>>
  BY DEF UpdateSAPolicy, RemovalRefused, Calls, AccountInv
<1>2. PICK calls \in Seq(AnyCall) : GoesOn(s, calls) /\ Tidy(calls)
                                    /\ Makes(calls) = UnderWay(s)
  <2>1. CASE UpdateSAPolicy(s)
    <3>1. GoesOn(s, Tail(todo[s]))
      BY <2>1 DEF UpdateSAPolicy
    <3> QED BY <3>1, <1>1, FirstCall, Zenon
  <2>2. CASE RemovalRefused(s)
    <3>1. GoesOn(s, Skip(todo[s], Call(s).skips)) /\ Deletes(Call(s))
      BY <2>2 DEF RemovalRefused, Calls, Deletes
    <3> QED BY <3>1, <1>1, DeletionGoesOn
  <2> QED BY <2>1, <2>2
<1>3. CallsOK'
  <2>1. \A t \in Sessions : command'[t] = "none" => command[t] = "none" /\ t # s
    BY <1>1 DEF CallsOK
  <2> QED BY <2>1, <1>1, <1>2, CallsGoOn DEF Ready
<1>4. MissingIsMade'
  BY <1>1, <1>2, PartsStay DEF Ready
<1> QED BY <1>1, <1>3, <1>4 DEF AccountInv

\* Parts are deleted, and the session goes on with what it was about to make.
LEMMA Delete1Keeps ==
  ASSUME AccountInv, NEW s \in Sessions, NEW gone, Delete1(gone),
         NEW calls \in Seq(AnyCall), Tidy(calls), Makes(calls) = UnderWay(s),
         GoesOn(s, calls), todo[s] # <<>>, UNCHANGED <<scope, command>>
  PROVE  AccountInv'
<1>1. parts' = parts \ gone /\ unfinished' = LeftWithout(gone \cap parts) /\ CallsOK
  BY DEF Delete1, AccountInv
<1>2. CallsOK'
  <2>1. \A t \in Sessions : command'[t] = "none" => command[t] = "none" /\ t # s
    BY <1>1 DEF CallsOK
  <2> QED BY <2>1, <1>1, CallsGoOn DEF Ready
<1>3. MissingIsMade'
  <2> SUFFICES ASSUME NEW o \in Owners \cap parts', NEW p \in Family[o] \ parts',
                      p \notin unfinished'
               PROVE  /\ o \in Aws!Owners
                      /\ \E t \in Sessions : p \in UnderWay(t)' /\ o \notin UnderWay(t)'
    BY DEF MissingIsMade
  <2>1. o \in parts /\ o \notin gone
    BY <1>1
  <2>2. p \notin parts
    <3>1. SUFFICES ASSUME p \in parts PROVE FALSE
      OBVIOUS
    <3>2. p \in gone \cap parts /\ o \in parts \ (gone \cap parts)
      BY <3>1, <2>1, <1>1
    <3>3. p \in LeftWithout(gone \cap parts)
      BY <3>2 DEF LeftWithout
    <3> QED BY <3>3, <1>1
  <2>3. p \notin unfinished
    <3>1. SUFFICES ASSUME p \in unfinished PROVE FALSE
      OBVIOUS
    <3>2. \A o2 \in Owners \cap (gone \cap parts) : p \notin Family[o2]
      BY <2>1, FamiliesApart
    <3>3. p \notin UNION {Family[o2] : o2 \in Owners \cap (gone \cap parts)}
      BY <3>2
    <3>4. p \in LeftWithout(gone \cap parts)
      BY <3>1, <3>3 DEF LeftWithout
    <3> QED BY <3>4, <1>1
  <2>4. o \in Aws!Owners /\ \E t \in Sessions : p \in UnderWay(t) /\ o \notin UnderWay(t)
    BY <2>1, <2>2, <2>3 DEF AccountInv, MissingIsMade
  <2>5. PICK t \in Sessions : p \in UnderWay(t) /\ o \notin UnderWay(t)
    BY <2>4
  <2>6. p \in scope
    BY <2>1, InScopes DEF AccountInv
  <2>7. t = s => p \in Makes(calls) /\ o \notin Makes(calls)
    BY <2>5
  <2>8. p \in UnderWay(t)' /\ o \notin UnderWay(t)'
    BY <1>1, <2>5, <2>6, <2>7, StillMade DEF Ready
  <2> QED BY <2>4, <2>8
<1> QED BY <1>1, <1>2, <1>3 DEF AccountInv

LEMMA DeletionsKeep ==
  ASSUME AccountInv, NEW s \in Sessions,
         RemovePart(s) \/ RemovalFails(s) \/ TruncateBucket(s) \/ TruncateFails(s)
  PROVE  AccountInv'
<1>1. /\ todo[s] # <<>> /\ Call(s).do # "make" /\ CallsOK
      /\ UNCHANGED <<scope, command>>
  BY DEF RemovePart, RemovalFails, TruncateBucket, TruncateFails, Calls, AccountInv
<1>2. PICK calls \in Seq(AnyCall) : GoesOn(s, calls) /\ Tidy(calls)
                                    /\ Makes(calls) = UnderWay(s)
  <2>1. CASE GoesOn(s, Tail(todo[s]))
    BY <2>1, <1>1, FirstCall, Zenon
  <2>2. CASE Deletes(Call(s)) /\ GoesOn(s, Skip(todo[s], Call(s).skips))
    BY <2>2, <1>1, DeletionGoesOn
  <2> QED BY <2>1, <2>2
       DEF RemovePart, RemovalFails, TruncateBucket, TruncateFails, Calls, Deletes
<1>3. \/ \E gone : Delete1(gone)
      \/ UNCHANGED <<parts, unfinished>>
  BY DEF RemovePart, RemovalFails, TruncateBucket, TruncateFails, Truncated
<1>4. CASE \E gone : Delete1(gone)
  BY <1>1, <1>2, <1>4, Delete1Keeps
<1>5. CASE UNCHANGED <<parts, unfinished>>
  <2>1. \A t \in Sessions : command'[t] = "none" => command[t] = "none" /\ t # s
    BY <1>1 DEF CallsOK
  <2>2. CallsOK'
    BY <2>1, <1>1, <1>2, CallsGoOn DEF Ready
  <2>3. MissingIsMade'
    BY <1>1, <1>2, <1>5, PartsStay DEF Ready
  <2> QED BY <1>1, <1>5, <2>2, <2>3 DEF AccountInv
<1> QED BY <1>3, <1>4, <1>5

\* The owner of AWS that a session is about to make.
LEMMA AboutToMake ==
  ASSUME CallsOK, NEW s \in Sessions, Calls(s, "make"), Call(s).part \in Aws!Owners
  PROVE  /\ Begun(todo[s], Call(s).part)
         /\ Call(s).part \in UnderWay(s)
<1>1. /\ todo[s] \in Seq(AnyCall) /\ todo[s][1] = Call(s) /\ Ready(todo[s])
      /\ Len(todo[s]) \in Nat \ {0} /\ Call(s).do = "make"
  BY FirstCall DEF Calls
<1>2. ~Tidy(todo[s])
  BY <1>1 DEF Tidy
<1>3. PICK o \in Aws!Owners : Begun(todo[s], o)
  BY <1>1, <1>2 DEF Ready
<1>4. Call(s).part = o
  BY <1>1, <1>3 DEF Begun, Make
<1>5. Call(s).part \in Makes(todo[s])
  BY <1>1, MakesOf
<1> QED BY <1>3, <1>4, <1>5 DEF UnderWay, Makes

\* What is left out when another session has made the bucket are two parts of
\* its family.
LEMMA BucketSkips ==
  ASSUME CallsOK, NEW s \in Sessions, Calls(s, "make"), Call(s).part = "bucket"
  PROVE  /\ Skip(todo[s], 2) \in Seq(AnyCall) /\ Tidy(Skip(todo[s], 2))
         /\ Makes(Skip(todo[s], 2)) \subseteq Makes(Tail(todo[s]))
         /\ \A p \in Makes(Tail(todo[s])) : p \in Makes(Skip(todo[s], 2)) \/ p \in Family["bucket"]
<1> DEFINE q == todo[s]
<1>1. /\ q \in Seq(AnyCall) /\ Ready(q) /\ q # <<>> /\ Len(q) \in Nat \ {0}
      /\ Begun(q, "bucket")
  BY FirstCall, AboutToMake, AwsOwners DEF Calls
<1> HIDE DEF q
<1>2. PICK n \in 1..Len(q) :
          /\ \A i \in 2..n : q[i].do = "make" /\ q[i].part \in Family["bucket"]
          /\ \A p \in Family["bucket"] : \E i \in 2..n : q[i].part = p
  BY <1>1, Zenon DEF Begun
<1>3. n >= 3
  <2>1. "tags" \in Family["bucket"] /\ "versioning" \in Family["bucket"]
    BY Families
  <2>2. PICK i \in 2..n : q[i].part = "tags"
    BY <1>2, <2>1
  <2>3. PICK j \in 2..n : q[j].part = "versioning"
    BY <1>2, <2>1
  <2>4. i # j
    BY <2>2, <2>3
  <2> QED BY <2>2, <2>3, <2>4
<1>4. 3 \in 1..Len(q) /\ q[2].part \in Family["bucket"] /\ q[3].part \in Family["bucket"]
  BY <1>2, <1>3, <1>1
<1>5. Skip(q, 2) = SubSeq(q, 3 + 1, Len(q))
  BY DEF Skip
<1> DEFINE t == Tail(q)
<1>6. /\ t \in Seq(AnyCall) /\ Len(t) = Len(q) - 1 /\ Tidy(t)
      /\ \A i \in 1..(Len(q) - 1) : t[i] = q[i + 1]
  BY <1>1, TailIs DEF Begun
<1>7. SubSeq(t, 2 + 1, Len(t)) = SubSeq(q, 3 + 1, Len(q))
  <2> DEFINE a == SubSeq(t, 2 + 1, Len(t))
             b == SubSeq(q, 3 + 1, Len(q))
  <2> HIDE DEF t
  <2>1. 2 \in 0..Len(t) /\ 3 \in 0..Len(q)
    BY <1>1, <1>4, <1>6
  <2>2. a \in Seq(AnyCall) /\ Len(a) = Len(t) - 2
        /\ \A i \in 1..(Len(t) - 2) : a[i] = t[2 + i]
    BY <1>6, <2>1, SuffixIs
  <2>3. b \in Seq(AnyCall) /\ Len(b) = Len(q) - 3
        /\ \A i \in 1..(Len(q) - 3) : b[i] = q[3 + i]
    BY <1>1, <2>1, SuffixIs, Zenon
  <2> HIDE DEF a, b
  <2>4. Len(a) = Len(b) /\ \A i \in 1..Len(a) : a[i] = b[i]
    <3>1. Len(a) = Len(b)
      BY <2>2, <2>3, <1>6, <1>1
    <3>2. ASSUME NEW i \in 1..Len(a) PROVE a[i] = b[i]
      <4>1. 2 + i \in 1..(Len(q) - 1) /\ (2 + i) + 1 = 3 + i
        BY <2>2, <1>6, <1>1
      <4>2. t[2 + i] = q[3 + i]
        BY <4>1, <1>6
      <4> QED BY <4>2, <2>2, <2>3, <3>1
    <3> QED BY <3>1, <3>2
  <2>5. a = b
    BY <2>2, <2>3, <2>4
  <2> QED BY <2>5 DEF a, b
<1>8. 2 \in 0..Len(t) /\ t[1] = q[2] /\ t[2] = q[3]
  BY <1>1, <1>4, <1>6
<1> DEFINE r == SubSeq(t, 2 + 1, Len(t))
<1> HIDE DEF t
<1>9. r \in Seq(AnyCall) /\ Tidy(r)
  BY <1>6, <1>8, TidySuffix, SuffixIs
<1>10. Makes(r) \subseteq Makes(t)
  BY <1>6, <1>8, SuffixMakes
<1>11. \A p \in Makes(t) :
          (\A i \in 1..2 : t[i].do = "make" => t[i].part # p) => p \in Makes(r)
  BY <1>6, <1>8, SuffixMakes, Zenon
<1>12. \A p \in Makes(t) : p \in Makes(r) \/ p \in Family["bucket"]
  <2>1. \A i \in 1..2 : t[i].part \in Family["bucket"]
    BY <1>4, <1>8
  <2> HIDE DEF r
  <2> QED BY <2>1, <1>11
<1>13. Skip(q, 2) = r
  BY <1>5, <1>7 DEF t
<1> HIDE DEF r
<1> QED BY <1>9, <1>10, <1>12, <1>13 DEF q, t

LEMMA MakePartKeeps ==
  ASSUME AccountInv, NEW s \in Sessions, MakePart(s)
  PROVE  AccountInv'
<1> DEFINE q == Call(s).part
           calls == IF q = "bucket" /\ q \in parts THEN Skip(todo[s], 2) ELSE Tail(todo[s])
<1>1. /\ Calls(s, "make") /\ todo[s] # <<>> /\ Call(s).do = "make" /\ CallsOK
      /\ ~(q \in MadeOnce /\ q \in parts)
      /\ parts' = parts \cup {q} \cup MadeWith(s, q)
      /\ unfinished' = (unfinished \ parts') \cup (WithPart(s, q) \ parts')
      /\ UNCHANGED <<scope, command>>
  BY DEF MakePart, Calls, AccountInv
<1>2. /\ Tail(todo[s]) \in Seq(AnyCall) /\ Tidy(Tail(todo[s])) /\ q \in scope
      /\ todo[s] \in Seq(AnyCall) /\ todo[s][1] = Call(s) /\ Len(todo[s]) \in Nat \ {0}
  BY <1>1, FirstCall DEF InScope
<1>3. GoesOn(s, calls)
  <2>1. GoesOn(s, Skip(todo[s], IF q = "bucket" /\ q \in parts THEN 2 ELSE 0))
    BY DEF MakePart
  <2>2. Skip(todo[s], 0) = Tail(todo[s])
    BY <1>2, <1>1 DEF Skip
  <2> QED BY <2>1, <2>2
<1>4. /\ calls \in Seq(AnyCall) /\ Tidy(calls)
      /\ Makes(calls) \subseteq Makes(Tail(todo[s]))
      /\ \A p \in Makes(Tail(todo[s])) :
           p \in Makes(calls) \/ (q = "bucket" /\ q \in parts /\ p \in Family["bucket"])
  <2>1. CASE q = "bucket" /\ q \in parts
    BY <2>1, <1>1, BucketSkips
  <2>2. CASE ~(q = "bucket" /\ q \in parts)
    BY <2>2, <1>2
  <2> QED BY <2>1, <2>2
<1>5. /\ Makes(Tail(todo[s])) \subseteq UnderWay(s)
      /\ UnderWay(s) \subseteq Makes(Tail(todo[s])) \cup {q}
  <2>1. UnderWay(s) = Makes(todo[s])
    BY DEF UnderWay, Makes
  <2>2. /\ Makes(Tail(todo[s])) \subseteq Makes(todo[s])
        /\ Makes(todo[s]) \subseteq Makes(Tail(todo[s]))
             \cup (IF todo[s][1].do = "make" THEN {todo[s][1].part} ELSE {})
    BY <1>1, <1>2, TailMakes
  <2> QED BY <2>1, <2>2, <1>1, <1>2
<1> HIDE DEF calls
<1>6. CallsOK'
  <2>1. \A t \in Sessions : command'[t] = "none" => command[t] = "none" /\ t # s
    BY <1>1 DEF CallsOK
  <2> QED BY <2>1, <1>1, <1>3, <1>4, CallsGoOn DEF Ready
<1>7. MadeWith(s, q) \subseteq WithPart(s, q)
      /\ WithPart(s, q) = (IF q \in DOMAIN Google!With \ parts THEN Family[q] ELSE {})
  <2>1. \A t \in DOMAIN Google!With : t \in Owners /\ t \notin Aws!Owners
    BY AwsOwners, GoogleOwners, Families
  <2>2. \A t \in DOMAIN Google!With : Family[t] = Google!With[t]
    BY <2>1 DEF Family
  <2> QED BY <2>2 DEF MadeWith, WithPart
<1>8. parts' \subseteq scope
  <2>1. MadeWith(s, q) \subseteq scope
    BY <1>2, <1>7, InScopes, GoogleOwners, Families
  <2> QED BY <2>1, <1>1, <1>2 DEF AccountInv
<1>9. MissingIsMade'
  <2> SUFFICES ASSUME NEW o \in Owners \cap parts', NEW p \in Family[o] \ parts',
                      p \notin unfinished'
               PROVE  /\ o \in Aws!Owners
                      /\ \E t \in Sessions : p \in UnderWay(t)' /\ o \notin UnderWay(t)'
    BY DEF MissingIsMade
  <2>1. p # q /\ p \notin parts
    BY <1>1
  <2>2. p \in scope
    BY <1>8, InScopes
  <2>3. o \in parts \cup {q}
    <3>1. o \notin MadeWith(s, q)
      BY <1>7, FamiliesApart, GoogleOwners, Families
    <3> QED BY <3>1, <1>1
  <2>4. CASE o \in parts
    <3>1. p \notin unfinished
      BY <1>1
    <3>2. o \in Aws!Owners /\ \E t \in Sessions : p \in UnderWay(t) /\ o \notin UnderWay(t)
      BY <2>1, <2>4, <3>1 DEF AccountInv, MissingIsMade
    <3>3. PICK t \in Sessions : p \in UnderWay(t) /\ o \notin UnderWay(t)
      BY <3>2
    <3>4. t = s => p \in Makes(calls) /\ o \notin Makes(calls)
      <4> SUFFICES ASSUME t = s PROVE p \in Makes(calls) /\ o \notin Makes(calls)
        OBVIOUS
      <4>1. p \in Makes(Tail(todo[s])) /\ o \notin Makes(calls)
        BY <3>3, <1>4, <1>5, <2>1
      <4>2. ~(q = "bucket" /\ p \in Family["bucket"])
        <5> SUFFICES ASSUME q = "bucket", p \in Family["bucket"] PROVE FALSE
          OBVIOUS
        <5>1. q \in UnderWay(s)
          BY <1>1, AboutToMake, AwsOwners
        <5>2. o # "bucket"
          BY <5>1, <3>3
        <5> QED BY <5>2, FamiliesApart, Families
      <4> QED BY <4>1, <4>2, <1>4
    <3>5. p \in UnderWay(t)' /\ o \notin UnderWay(t)'
      BY <1>1, <1>3, <1>4, <2>2, <3>3, <3>4, StillMade DEF Ready
    <3> QED BY <3>2, <3>5
  <2>5. CASE o \notin parts
    <3>1. o = q
      BY <2>3, <2>5
    <3>2. o \in Aws!Owners
      <4> SUFFICES ASSUME o \notin Aws!Owners PROVE FALSE
        OBVIOUS
      <4>1. q \in DOMAIN Google!With \ parts
        BY <3>1, <2>5 DEF Owners
      <4>2. p \in WithPart(s, q)
        BY <3>1, <4>1, <1>7
      <4> QED BY <4>2, <1>1
    <3>3. Begun(todo[s], o)
      BY <1>1, <3>1, <3>2, AboutToMake
    <3>4. Family[o] \subseteq Makes(Tail(todo[s]))
      BY <1>2, <3>3, BegunMakes
    <3>5. p \in Makes(calls)
      BY <1>4, <2>5, <3>1, <3>4
    <3>6. o \notin Makes(calls)
      BY <1>4, <3>2, TidyMakes
    <3>7. p \in Makes(todo'[s]) /\ o \notin Makes(todo'[s])
      BY <1>1, <1>3, <1>4, <2>2, <3>5, <3>6, GoesOnIs DEF Ready
    <3>8. p \in UnderWay(s)' /\ o \notin UnderWay(s)'
      BY <3>7 DEF UnderWay, Makes
    <3> QED BY <3>2, <3>8
  <2> QED BY <2>4, <2>5
<1> QED BY <1>1, <1>6, <1>8, <1>9 DEF AccountInv

\* A session that ends leaves undone what it was about to make.
LEMMA EndKeeps ==
  ASSUME AccountInv, NEW s \in Sessions, Ends(s), UNCHANGED <<scope, parts>>,
         (todo[s] = <<>> /\ UNCHANGED unfinished) \/ LeavesUndone(s)
  PROVE  AccountInv'
<1>1. /\ command' = [command EXCEPT ![s] = "none"]
      /\ todo' = [todo EXCEPT ![s] = <<>>]
      /\ CallsOK
      /\ command \in [Sessions -> Commands \cup {"none"}]
  BY DEF Ends, AccountInv
<1>2. command' \in [Sessions -> Commands \cup {"none"}]
  BY <1>1
<1>3. CallsOK'
  <2>1. todo' \in [Sessions -> Seq(AnyCall)]
    <3>1. <<>> \in Seq(AnyCall)
      OBVIOUS
    <3> QED BY <1>1, <3>1 DEF CallsOK
  <2>2. \A t \in Sessions :
           /\ Ready(todo'[t])
           /\ todo'[t] # <<>> => InScope(Head(todo'[t]))
           /\ command'[t] = "none" => todo'[t] = <<>>
    <3> TAKE t \in Sessions
    <3>1. CASE t = s
      <4>1. todo'[t] = <<>>
        BY <1>1, <3>1 DEF CallsOK
      <4> QED BY <4>1, EmptyIsTidy DEF Ready
    <3>2. CASE t # s
      <4>1. todo'[t] = todo[t] /\ command'[t] = command[t]
        BY <1>1, <3>2 DEF CallsOK
      <4> QED BY <4>1, <1>1 DEF CallsOK
    <3> QED BY <3>1, <3>2
  <2> QED BY <2>1, <2>2 DEF CallsOK, InScope
<1>4. MissingIsMade'
  <2> SUFFICES ASSUME NEW o \in Owners \cap parts, NEW p \in Family[o] \ parts,
                      p \notin unfinished'
               PROVE  /\ o \in Aws!Owners
                      /\ \E t \in Sessions : p \in UnderWay(t)' /\ o \notin UnderWay(t)'
    BY DEF MissingIsMade
  <2>1. p \notin unfinished
    BY DEF LeavesUndone
  <2>2. o \in Aws!Owners /\ \E t \in Sessions : p \in UnderWay(t) /\ o \notin UnderWay(t)
    BY <2>1 DEF AccountInv, MissingIsMade
  <2>3. PICK t \in Sessions : p \in UnderWay(t) /\ o \notin UnderWay(t)
    BY <2>2
  <2>4. t # s
    <3>1. CASE todo[s] = <<>>
      BY <2>3, <3>1 DEF UnderWay
    <3>2. CASE LeavesUndone(s)
      BY <2>3, <3>2 DEF LeavesUndone
    <3> QED BY <3>1, <3>2
  <2>5. UnderWay(t)' = UnderWay(t)
    <3>1. todo'[t] = todo[t]
      BY <1>1, <2>4 DEF CallsOK
    <3> QED BY <3>1 DEF UnderWay
  <2> QED BY <2>2, <2>3, <2>5
<1> QED BY <1>2, <1>3, <1>4 DEF AccountInv

LEMMA EndingsKeep ==
  ASSUME AccountInv, NEW s \in Sessions,
         End(s) \/ BreaksOff(s) \/ Collides(s) \/ UpdateCollides(s)
  PROVE  AccountInv'
BY EndKeeps DEF End, BreaksOff, Collides, UpdateCollides

LEMMA Untouched ==
  ASSUME AccountInv, UNCHANGED <<scope, parts, command, todo, unfinished>>
  PROVE  AccountInv'
<1>1. CallsOK'
  BY DEF AccountInv, CallsOK, InScope
<1>2. \A s \in Sessions : UnderWay(s)' = UnderWay(s)
  BY DEF UnderWay
<1>3. MissingIsMade'
  BY <1>2 DEF AccountInv, MissingIsMade
<1> QED BY <1>1, <1>3 DEF AccountInv

LEMMA AccountInit == Init => AccountInv
<1> SUFFICES ASSUME Init PROVE AccountInv
  OBVIOUS
<1>1. CallsOK
  <2>1. \A s \in Sessions : todo[s] = <<>> /\ command[s] = "none"
    BY DEF Init
  <2>2. todo \in [Sessions -> Seq(AnyCall)]
    BY DEF Init
  <2> QED BY <2>1, <2>2, EmptyIsTidy DEF CallsOK, Ready
<1> QED BY <1>1 DEF Init, AccountInv, MissingIsMade

\* Every step keeps it.
LEMMA AccountInductive == ASSUME AccountInv, [Next]_vars PROVE AccountInv'
<1>1. CASE FilesChange
  BY <1>1, Untouched DEF FilesChange
<1>2. ASSUME NEW s \in Sessions, SessionStep(s) PROVE AccountInv'
  BY <1>2, BeginningsKeep, LookUpKeeps, MakePartKeeps, RefusalKeeps, DeletionsKeep,
     EndingsKeep DEF SessionStep
<1>3. CASE UNCHANGED vars
  BY <1>3, Untouched DEF vars
<1> QED BY <1>1, <1>2, <1>3 DEF Next

\* Whatever order of commands, failures and kills: the calls a session has yet
\* to make are those of a command, about parts of the account that is looked
\* at, and what an account lacks of what is made together was left undone or is
\* about to be made (AccountInv).
THEOREM AccountConsistent == Spec => []AccountInv
<1> QED BY AccountInit, AccountInductive, PTL DEF Spec

\* No order of sessions and of their looks at the account loses a part that is
\* only made together with the one it belongs to (createBuildRole, CreateBucket,
\* createServiceUser and the others that return what they find).
THEOREM MissingKnown == Spec => []MissingWasLeftUndone
<1>1. AccountInv => MissingWasLeftUndone
  BY DEF AccountInv, MissingIsMade, MissingWasLeftUndone
<1> QED BY <1>1, AccountConsistent, PTL

(***************************************************************************)
(* Deletes                                                                 *)
(***************************************************************************)
\* A delete makes or looks for what it has to, and then only deletes; emptying
\* the bucket leaves out no more than the rest of the bucket's deletion.
Prepares(call) ==
    /\ call.do \in {"make", "look"}
    /\ call.part \notin Aws!Owners
    /\ call.do = "look" => call.found = <<>> /\ call.missing = <<Make(call.part)>>

EmptiesBucket(call) == call.do = "truncate" \/ (call.do = "try" /\ call.parts = {"bucket"})

Deleting(q) ==
    \A i \in 1..Len(q) :
        /\ Prepares(q[i]) \/ Deletes(q[i])
        /\ Deletes(q[i]) => \A j \in i..Len(q) : Deletes(q[j])
        /\ q[i].do = "truncate" => \A j \in 1..q[i].skips : EmptiesBucket(q[i + j])

\* What a series of calls deletes, if nothing is in its way.
GoesWith(S) == S \cup UNION {Contents(p) : p \in S}
Doomed(q) == UNION {GoesWith(q[i].parts) : i \in {j \in 1..Len(q) : q[j].do = "try"}}

\* What it may make first.
Prepared(q) == {q[i].part : i \in {j \in 1..Len(q) : Prepares(q[j])}}

\* All it is to delete is about to be deleted, or is gone and not made again.
Promising(s) ==
    /\ Deleting(todo[s])
    /\ \A p \in takes[s] :
         p \in Doomed(todo[s]) \/ p \notin parts \cup Prepared(todo[s])

Quiet(s) == command[s] = "delete" /\ overlapped[s] = {} /\ ~warned[s]

DeleteInv ==
    /\ takes \in [Sessions -> SUBSET scope]
    /\ warned \in [Sessions -> BOOLEAN]
    /\ overlapped \in [Sessions -> SUBSET {"setup", "account", "delete"}]
    /\ "bucket" \notin parts => parts \cap Contents("bucket") = {}
    /\ \A s \in Running : overlapped[s] = {} => Running = {s}
    /\ \A s \in Sessions : Quiet(s) => Promising(s)

LEMMA DoomedIs ==
  ASSUME NEW q, NEW p
  PROVE  p \in Doomed(q) <=>
           \E i \in 1..Len(q) : q[i].do = "try" /\ p \in GoesWith(q[i].parts)
BY DEF Doomed

LEMMA PreparedIs ==
  ASSUME NEW q, NEW p
  PROVE  p \in Prepared(q) <=> \E i \in 1..Len(q) : Prepares(q[i]) /\ q[i].part = p
BY DEF Prepared

\* What a part of the scope is deleted with is a part of the scope.
LEMMA DoomInScope ==
  ASSUME AccountInv, NEW S \in Together, NEW p \in GoesWith(S) \cap scope
  PROVE  S \subseteq scope
<1>1. /\ \A x \in scope : Needs(x) \subseteq scope
      /\ \A o \in Owners \cap scope : Family[o] \subseteq scope
      /\ \A o \in Owners : Family[o] \cap scope # {} => o \in scope
  BY ScopesAssumption DEF AccountInv
<1>2. CASE S = {"buildAdmin", "buildAttached"}
  <2>1. Contents("buildAdmin") = {} /\ Contents("buildAttached") = {}
    BY DEF Contents, Aws!Contents, Google!Contents, Google!With
  <2>2. p \in Family["buildRole"]
    BY <1>2, <2>1, Families DEF GoesWith
  <2> QED BY <1>1, <1>2, <2>2, Families
<1>3. ASSUME NEW x \in Part, S = {x} PROVE S \subseteq scope
  <2>1. p = x \/ p \in Contents(x)
    BY <1>3 DEF GoesWith
  <2>2. ASSUME p \in Contents(x) PROVE x \in scope
    <3>1. CASE x = "bucket"
      <4>1. p \in {"tags", "versioning", "lifecycle", "sslPolicy", "dummyZip", "config"}
        BY <2>2, <3>1 DEF Contents, Aws!Contents, Google!Contents, Google!With, Aws!BucketParts
      <4>2. "bucket" \in Needs(p)
        BY <4>1 DEF Needs, Aws!Needs, Aws!BucketParts
      <4> QED BY <1>1, <3>1, <4>2
    <3>2. CASE x = "logGroup"
      <4>1. p = "logStream"
        BY <2>2, <3>2 DEF Contents, Aws!Contents, Google!Contents, Google!With
      <4>2. "logGroup" \in Needs(p)
        BY <4>1 DEF Needs, Aws!Needs, Aws!BucketParts
      <4> QED BY <1>1, <3>2, <4>2
    <3>3. CASE x = "agentAccount"
      <4>1. p \in {"agentAccount", "accountRoles", "projectRoles"}
        BY <2>2, <3>3, GoogleOwners
           DEF Contents, Aws!Contents, Google!Contents, Google!AgentParts
      <4>2. p # x => x \in Needs(p)
        BY <3>3, <4>1 DEF Needs, Google!Needs, Google!ServiceAccountParts
      <4> QED BY <1>1, <4>2
    <3>4. CASE x = "userAccount"
      <4>1. p \in {"userAccount", "userAccountRoles", "userProjectRoles", "userKey", "trust"}
        BY <2>2, <3>4, GoogleOwners
           DEF Contents, Aws!Contents, Google!Contents, Google!ServiceAccountParts
      <4>2. p # x => x \in Needs(p)
        BY <3>4, <4>1 DEF Needs, Google!Needs, Google!ServiceAccountParts
      <4> QED BY <1>1, <4>2
    <3>5. CASE x \in {"planTarget", "applyTarget"}
      <4>1. p \in Family[x] /\ x \in Owners
        BY <2>2, <3>5, Families DEF Contents, Aws!Contents, Google!Contents, Google!With
      <4> QED BY <1>1, <4>1
    <3>6. CASE x \notin {"bucket", "logGroup", "agentAccount", "userAccount", "planTarget",
                         "applyTarget"}
      <4>1. Contents(x) = {}
        BY <3>6, GoogleOwners DEF Contents, Aws!Contents, Google!Contents
      <4> QED BY <2>2, <4>1
    <3> QED BY <3>1, <3>2, <3>3, <3>4, <3>5, <3>6
  <2> QED BY <1>3, <2>1, <2>2
<1> QED BY <1>2, <1>3 DEF Together

LEMMA DeletingSuffix ==
  ASSUME NEW S, NEW q \in Seq(S), NEW n \in 0..Len(q), Tidy(q), Deleting(q)
  PROVE  LET r == SubSeq(q, n + 1, Len(q))
         IN  /\ Deleting(r)
             /\ Prepared(r) \subseteq Prepared(q)
             /\ \A p \in Doomed(q) :
                  (\A i \in 1..n : q[i].do = "try" => p \notin GoesWith(q[i].parts))
                     => p \in Doomed(r)
<1> DEFINE r == SubSeq(q, n + 1, Len(q))
<1>1. /\ r \in Seq(S) /\ Len(r) = Len(q) - n
      /\ \A i \in 1..(Len(q) - n) : r[i] = q[n + i]
  BY SuffixIs
<1> HIDE DEF r
<1>2. /\ n \in Nat /\ Len(q) \in Nat
      /\ \A i \in 1..Len(r) : n + i \in 1..Len(q) /\ r[i] = q[n + i]
  BY <1>1
<1>3. Deleting(r)
  <2> SUFFICES ASSUME NEW i \in 1..Len(r)
               PROVE  /\ Prepares(r[i]) \/ Deletes(r[i])
                      /\ Deletes(r[i]) => \A j \in i..Len(r) : Deletes(r[j])
                      /\ r[i].do = "truncate" =>
                           \A j \in 1..r[i].skips : EmptiesBucket(r[i + j])
    BY Zenon DEF Deleting
  <2> DEFINE k == n + i
  <2>1. k \in 1..Len(q) /\ r[i] = q[k]
    BY <1>2
  <2>2. ASSUME Deletes(r[i]), NEW j \in i..Len(r) PROVE Deletes(r[j])
    <3>1. j \in 1..Len(r) /\ n + j \in k..Len(q)
      BY <1>1
    <3>2. Deletes(q[n + j])
      BY <2>1, <2>2, <3>1 DEF Deleting
    <3> QED BY <3>1, <3>2, <1>2
  <2>3. ASSUME r[i].do = "truncate", NEW j \in 1..r[i].skips PROVE EmptiesBucket(r[i + j])
    <3>1. EmptiesBucket(q[k + j]) /\ k + j <= Len(q)
      BY <2>1, <2>3, Zenon DEF Deleting, Tidy, Deletes
    <3>2. i + j \in 1..Len(r) /\ n + (i + j) = k + j
      BY <3>1, <1>1
    <3>3. r[i + j] = q[k + j]
      BY <3>2, <1>2
    <3> QED BY <3>1, <3>3
  <2>4. Prepares(r[i]) \/ Deletes(r[i])
    BY <2>1 DEF Deleting
  <2> QED BY <2>2, <2>3, <2>4
<1>4. ASSUME NEW p \in Prepared(r) PROVE p \in Prepared(q)
  BY <1>2, <1>4, PreparedIs
<1>5. ASSUME NEW p \in Doomed(q),
             \A i \in 1..n : q[i].do = "try" => p \notin GoesWith(q[i].parts)
      PROVE  p \in Doomed(r)
  <2>1. PICK i \in 1..Len(q) : q[i].do = "try" /\ p \in GoesWith(q[i].parts)
    BY <1>5, DoomedIs
  <2>2. i - n \in 1..Len(r) /\ n + (i - n) = i
    BY <2>1, <1>5, <1>1
  <2>3. r[i - n] = q[i]
    BY <2>2, <1>2
  <2> QED BY <2>1, <2>2, <2>3, DoomedIs, Zenon
<1> QED BY <1>3, <1>4, <1>5 DEF r

\* A delete goes on with calls, those left out being about other parts.
LEMMA DeleteGoesOn ==
  ASSUME AccountInv, NEW s \in Sessions, NEW calls \in Seq(AnyCall), Tidy(calls),
         Deleting(calls), GoesOn(s, calls)
  PROVE  /\ Deleting(todo'[s])
         /\ Prepared(todo'[s]) \subseteq Prepared(calls)
         /\ Doomed(calls) \cap scope \subseteq Doomed(todo'[s])
<1>1. PICK n \in 0..Len(calls) :
        /\ \A i \in 1..n : ~InScope(calls[i])
        /\ todo' = [todo EXCEPT ![s] = SubSeq(calls, n + 1, Len(calls))]
  BY Zenon DEF GoesOn
<1> DEFINE r == SubSeq(calls, n + 1, Len(calls))
<1>2. /\ Deleting(r)
      /\ Prepared(r) \subseteq Prepared(calls)
      /\ \A p \in Doomed(calls) :
           (\A i \in 1..n : calls[i].do = "try" => p \notin GoesWith(calls[i].parts))
              => p \in Doomed(r)
  BY DeletingSuffix
<1>3. ASSUME NEW p \in Doomed(calls) \cap scope, NEW i \in 1..n, calls[i].do = "try"
      PROVE  p \notin GoesWith(calls[i].parts)
  <2>1. calls[i] \in AnyCall
    BY <1>3
  <2>2. calls[i].parts \in Together
    BY <2>1, <1>3 DEF AnyCall, Calls1, SimpleCalls, LooksFor
  <2>3. ~(calls[i].parts \subseteq scope)
    BY <1>1, <1>3 DEF InScope
  <2> QED BY <1>3, <2>2, <2>3, DoomInScope
<1> HIDE DEF r
<1>4. todo'[s] = r
  BY <1>1 DEF r, AccountInv, CallsOK
<1> QED BY <1>2, <1>3, <1>4

\* The first call of a delete and the others.
LEMMA DeletingTail ==
  ASSUME NEW S, NEW q \in Seq(S), q # <<>>, Tidy(q), Deleting(q)
  PROVE  /\ Deleting(Tail(q))
         /\ Prepared(Tail(q)) \subseteq Prepared(q)
         /\ Prepares(q[1]) => q[1].part \in Prepared(q)
         /\ \A p \in Doomed(q) :
              p \in Doomed(Tail(q)) \/ (q[1].do = "try" /\ p \in GoesWith(q[1].parts))
         /\ Prepares(q[1]) \/ Deletes(q[1])
         /\ Deletes(q[1]) => Prepared(q) = {} /\ \A i \in 1..Len(q) : Deletes(q[i])
<1>1. 1 \in 0..Len(q) /\ Tail(q) = SubSeq(q, 1 + 1, Len(q)) /\ 1 \in 1..Len(q)
      /\ Len(q) \in Nat
  BY TailIs
<1> DEFINE r == SubSeq(q, 1 + 1, Len(q))
<1>2. /\ Deleting(r)
      /\ Prepared(r) \subseteq Prepared(q)
      /\ \A p \in Doomed(q) :
           (\A i \in 1..1 : q[i].do = "try" => p \notin GoesWith(q[i].parts))
              => p \in Doomed(r)
  BY <1>1, DeletingSuffix
<1> HIDE DEF r
<1>3. \A p \in Doomed(q) :
         p \in Doomed(r) \/ (q[1].do = "try" /\ p \in GoesWith(q[1].parts))
  BY <1>2
<1>4. ASSUME Deletes(q[1])
      PROVE  Prepared(q) = {} /\ \A i \in 1..Len(q) : Deletes(q[i])
  <2>1. \A i \in 1..Len(q) : Deletes(q[i])
    BY <1>1, <1>4 DEF Deleting
  <2>2. \A i \in 1..Len(q) : ~Prepares(q[i])
    BY <2>1 DEF Deletes, Prepares
  <2> QED BY <2>1, <2>2 DEF Prepared
<1>5. Prepares(q[1]) => q[1].part \in Prepared(q)
  BY <1>1, PreparedIs
<1>6. Prepares(q[1]) \/ Deletes(q[1])
  BY <1>1 DEF Deleting
<1> QED BY <1>1, <1>2, <1>3, <1>4, <1>5, <1>6, Zenon DEF r

\* What is missing is made in the place of the look for it.
LEMMA DeletingLook ==
  ASSUME NEW S, NEW q \in Seq(S), q # <<>>, Deleting(q), Tidy(q), NEW c,
         c.do = "make", c.part \notin Aws!Owners
  PROVE  /\ Deleting(<<c>> \o Tail(q))
         /\ Prepared(<<c>> \o Tail(q)) \subseteq Prepared(Tail(q)) \cup {c.part}
         /\ Doomed(Tail(q)) \subseteq Doomed(<<c>> \o Tail(q))
<1> DEFINE t == Tail(q)
           r == <<c>> \o t
<1>1. Deleting(t) /\ Tidy(t) /\ t \in Seq(S) /\ Len(t) \in Nat
  BY DeletingTail, TidyTail, TailIs
<1> HIDE DEF t
<1>2. Len(r) = Len(t) + 1 /\ r[1] = c /\ \A i \in 1..Len(t) : r[i + 1] = t[i]
  BY <1>1
<1> HIDE DEF r
<1>3. \A i \in 2..Len(r) : i - 1 \in 1..Len(t) /\ r[i] = t[i - 1]
  BY <1>1, <1>2
<1>4. Deleting(r)
  <2> SUFFICES ASSUME NEW i \in 1..Len(r)
               PROVE  /\ Prepares(r[i]) \/ Deletes(r[i])
                      /\ Deletes(r[i]) => \A j \in i..Len(r) : Deletes(r[j])
                      /\ r[i].do = "truncate" =>
                           \A j \in 1..r[i].skips : EmptiesBucket(r[i + j])
    BY DEF Deleting
  <2>1. CASE i = 1
    BY <1>2, <2>1 DEF Prepares, Deletes
  <2>2. CASE i # 1
    <3> DEFINE k == i - 1
    <3>1. k \in 1..Len(t) /\ r[i] = t[k]
      BY <1>3, <2>2
    <3>2. ASSUME Deletes(r[i]), NEW j \in i..Len(r) PROVE Deletes(r[j])
      <4>1. j - 1 \in k..Len(t) /\ r[j] = t[j - 1]
        BY <1>2, <1>3, <2>2, <1>1
      <4> QED BY <3>1, <3>2, <4>1 DEF Deleting, t, r
    <3>3. ASSUME r[i].do = "truncate", NEW j \in 1..r[i].skips
          PROVE  EmptiesBucket(r[i + j])
      <4>1. EmptiesBucket(t[k + j]) /\ k + j <= Len(t)
        BY <1>1, <3>1, <3>3, Zenon DEF Deleting, Tidy, Deletes
      <4>2. k + j \in 1..Len(t) /\ (k + j) + 1 = i + j
        BY <4>1, <1>1
      <4>3. r[i + j] = t[k + j]
        BY <4>2, <1>2
      <4> QED BY <4>1, <4>3
    <3>4. Prepares(r[i]) \/ Deletes(r[i])
      BY <1>1, <3>1 DEF Deleting
    <3> QED BY <3>2, <3>3, <3>4
  <2> QED BY <2>1, <2>2
<1>5. ASSUME NEW p \in Prepared(r) PROVE p \in Prepared(t) \cup {c.part}
  <2>1. PICK i \in 1..Len(r) : Prepares(r[i]) /\ r[i].part = p
    BY <1>5, PreparedIs
  <2> QED BY <2>1, <1>2, <1>3, PreparedIs
<1>6. ASSUME NEW p \in Doomed(t) PROVE p \in Doomed(r)
  <2>1. PICK i \in 1..Len(t) : t[i].do = "try" /\ p \in GoesWith(t[i].parts)
    BY <1>6, DoomedIs
  <2>2. i + 1 \in 1..Len(r) /\ r[i + 1] = t[i]
    BY <1>1, <1>2
  <2> QED BY <2>1, <2>2, DoomedIs
<1> QED BY <1>4, <1>5, <1>6 DEF r, t

\* Series of deletions, each next to be tried whatever became of the one
\* before.
Deletions(q) ==
    /\ Series(q)
    /\ \A i \in 1..Len(q) :
         /\ Deletes(q[i])
         /\ q[i].do = "truncate" => \A j \in 1..q[i].skips : EmptiesBucket(q[i + j])

LEMMA DeletionsConcat ==
  ASSUME NEW q, NEW r, Deletions(q), Deletions(r)
  PROVE  Deletions(q \o r)
<1> DEFINE t == q \o r
<1>1. /\ Len(t) = Len(q) + Len(r) /\ Len(q) \in Nat /\ Len(r) \in Nat
      /\ \A i \in 1..Len(q) : t[i] = q[i]
      /\ \A i \in 1..Len(r) : t[Len(q) + i] = r[i]
      /\ \A i \in (Len(q) + 1)..(Len(q) + Len(r)) : t[i] = r[i - Len(q)]
  BY ConcatIs DEF Deletions, Series
<1>2. Series(t)
  BY SeriesConcat DEF Deletions
<1> HIDE DEF t
<1> SUFFICES ASSUME NEW i \in 1..Len(t)
             PROVE  /\ Deletes(t[i])
                    /\ t[i].do = "truncate" =>
                         \A j \in 1..t[i].skips : EmptiesBucket(t[i + j])
  BY <1>2, Zenon DEF Deletions, t
<1>3. CASE i <= Len(q)
  <2>1. i \in 1..Len(q) /\ t[i] = q[i]
    BY <1>1, <1>3
  <2>2. ASSUME t[i].do = "truncate", NEW j \in 1..t[i].skips PROVE EmptiesBucket(t[i + j])
    <3>1. EmptiesBucket(q[i + j]) /\ i + j <= Len(q)
      BY <2>1, <2>2 DEF Deletions, Series, Tidy
    <3>2. t[i + j] = q[i + j]
      BY <3>1, <1>1
    <3> QED BY <3>1, <3>2
  <2> QED BY <2>1, <2>2 DEF Deletions
<1>4. CASE i > Len(q)
  <2> DEFINE k == i - Len(q)
  <2>1. k \in 1..Len(r) /\ t[i] = r[k] /\ i = Len(q) + k
    BY <1>1, <1>4
  <2> HIDE DEF k
  <2>2. ASSUME t[i].do = "truncate", NEW j \in 1..t[i].skips PROVE EmptiesBucket(t[i + j])
    <3>1. EmptiesBucket(r[k + j]) /\ k + j <= Len(r)
      BY <2>1, <2>2 DEF Deletions, Series, Tidy
    <3>2. k + j \in 1..Len(r) /\ i + j = Len(q) + (k + j)
      BY <3>1, <2>1, <1>1
    <3>3. t[i + j] = r[k + j]
      BY <3>2, <1>1
    <3> QED BY <3>1, <3>3
  <2> QED BY <2>1, <2>2 DEF Deletions
<1> QED BY <1>3, <1>4, <1>1

LEMMA PrepareThenDelete ==
  ASSUME NEW q, Series(q), \A i \in 1..Len(q) : Prepares(q[i]),
         NEW r, Deletions(r)
  PROVE  Deleting(q \o r)
<1> DEFINE t == q \o r
<1>1. /\ Len(t) = Len(q) + Len(r) /\ Len(q) \in Nat /\ Len(r) \in Nat
      /\ \A i \in 1..Len(q) : t[i] = q[i]
      /\ \A i \in 1..Len(r) : t[Len(q) + i] = r[i]
      /\ \A i \in (Len(q) + 1)..(Len(q) + Len(r)) : t[i] = r[i - Len(q)]
  BY ConcatIs DEF Deletions, Series
<1> HIDE DEF t
<1>2. \A i \in 1..Len(q) : Prepares(t[i]) /\ ~Deletes(t[i]) /\ t[i].do # "truncate"
  BY <1>1 DEF Prepares, Deletes
<1>3. ASSUME NEW i \in 1..Len(t), i > Len(q)
      PROVE  /\ Deletes(t[i])
             /\ t[i].do = "truncate" => \A j \in 1..t[i].skips : EmptiesBucket(t[i + j])
  <2> DEFINE k == i - Len(q)
  <2>1. k \in 1..Len(r) /\ t[i] = r[k] /\ i = Len(q) + k
    BY <1>1, <1>3
  <2> HIDE DEF k
  <2>2. ASSUME t[i].do = "truncate", NEW j \in 1..t[i].skips PROVE EmptiesBucket(t[i + j])
    <3>1. EmptiesBucket(r[k + j]) /\ k + j <= Len(r)
      BY <2>1, <2>2 DEF Deletions, Series, Tidy
    <3>2. k + j \in 1..Len(r) /\ i + j = Len(q) + (k + j)
      BY <3>1, <2>1, <1>1
    <3>3. t[i + j] = r[k + j]
      BY <3>2, <1>1
    <3> QED BY <3>1, <3>3
  <2> QED BY <2>1, <2>2, Zenon DEF Deletions
<1>4. Deleting(t)
  <2> SUFFICES ASSUME NEW i \in 1..Len(t)
               PROVE  /\ Prepares(t[i]) \/ Deletes(t[i])
                      /\ Deletes(t[i]) => \A j \in i..Len(t) : Deletes(t[j])
                      /\ t[i].do = "truncate" =>
                           \A j \in 1..t[i].skips : EmptiesBucket(t[i + j])
    BY DEF Deleting
  <2>1. CASE i <= Len(q)
    <3>1. i \in 1..Len(q)
      BY <2>1, <1>1
    <3> QED BY <3>1, <1>2
  <2>2. CASE i > Len(q)
    <3>1. \A j \in i..Len(t) : Deletes(t[j])
      BY <2>2, <1>1, <1>3
    <3> QED BY <2>2, <3>1, <1>3
  <2> QED BY <2>1, <2>2, <1>1
<1> QED BY <1>4 DEF t

LEMMA DoomedConcat ==
  ASSUME NEW q, NEW r, Series(q), Series(r)
  PROVE  Doomed(q) \cup Doomed(r) \subseteq Doomed(q \o r)
<1> DEFINE t == q \o r
<1>1. /\ Len(t) = Len(q) + Len(r) /\ Len(q) \in Nat /\ Len(r) \in Nat
      /\ \A i \in 1..Len(q) : t[i] = q[i]
      /\ \A i \in 1..Len(r) : t[Len(q) + i] = r[i]
  BY ConcatIs DEF Series
<1> HIDE DEF t
<1>2. ASSUME NEW p \in Doomed(q) PROVE p \in Doomed(t)
  <2>1. PICK i \in 1..Len(q) : q[i].do = "try" /\ p \in GoesWith(q[i].parts)
    BY <1>2, DoomedIs
  <2>2. i \in 1..Len(t) /\ t[i] = q[i]
    BY <1>1
  <2> QED BY <2>1, <2>2, DoomedIs
<1>3. ASSUME NEW p \in Doomed(r) PROVE p \in Doomed(t)
  <2>1. PICK i \in 1..Len(r) : r[i].do = "try" /\ p \in GoesWith(r[i].parts)
    BY <1>3, DoomedIs
  <2>2. Len(q) + i \in 1..Len(t) /\ t[Len(q) + i] = r[i]
    BY <1>1
  <2> QED BY <2>1, <2>2, DoomedIs
<1> QED BY <1>2, <1>3 DEF t

\* Tries that skip no more than there are.
LEMMA TriesAreDeletions ==
  ASSUME NEW q \in Seq(AnyCall),
         \A i \in 1..Len(q) : q[i].do = "try" /\ q[i].skips <= Len(q) - i
  PROVE  /\ Deletions(q)
         /\ \A i \in 1..Len(q) : GoesWith(q[i].parts) \subseteq Doomed(q)
<1>1. \A i \in 1..Len(q) : q[i].skips \in Nat
  <2> SUFFICES ASSUME NEW i \in 1..Len(q) PROVE q[i].skips \in Nat
    OBVIOUS
  <2>1. q[i] \in AnyCall /\ q[i].do = "try"
    OBVIOUS
  <2> QED BY <2>1 DEF AnyCall, Calls1, SimpleCalls, LooksFor
<1>2. Tidy(q)
  BY <1>1 DEF Tidy, Deletes
<1> QED BY <1>2, DoomedIs DEF Deletions, Series, Deletes

LEMMA SameSeries ==
  ASSUME NEW S, NEW q \in Seq(S), NEW r \in Seq(S), Len(q) = Len(r),
         \A i \in 1..Len(q) : q[i] = r[i]
  PROVE  q = r
OBVIOUS

LEMMA ThreeAre ==
  ASSUME NEW a, NEW b, NEW c
  PROVE  <<a, b>> \o <<c>> = <<a, b, c>>
<1> DEFINE q == <<a, b>> \o <<c>>
           r == <<a, b, c>>
           S == {a, b, c}
<1>1. q \in Seq(S) /\ r \in Seq(S) /\ Len(q) = 3 /\ Len(r) = 3
  OBVIOUS
<1>2. \A i \in 1..3 : q[i] = r[i]
  OBVIOUS
<1> HIDE DEF q, r, S
<1> QED BY <1>1, <1>2, SameSeries, Zenon DEF q, r

LEMMA SixAre ==
  ASSUME NEW a, NEW b, NEW c, NEW d, NEW e, NEW f
  PROVE  <<a, b>> \o <<c, d, e>> \o <<f>> = <<a, b, c, d, e, f>>
<1> DEFINE q == <<a, b>> \o <<c, d, e>> \o <<f>>
           r == <<a, b, c, d, e, f>>
           S == {a, b, c, d, e, f}
<1>1. q \in Seq(S) /\ r \in Seq(S) /\ Len(q) = 6 /\ Len(r) = 6
  OBVIOUS
<1>2. \A i \in 1..6 : q[i] = r[i]
  OBVIOUS
<1> HIDE DEF q, r, S
<1> QED BY <1>1, <1>2, SameSeries, Zenon DEF q, r

\* The stages of a delete of AWS.
AwsFirst == <<Try({"schedule"}, 0), Try({"runPipeline"}, 0), Try({"runProject"}, 0),
              Try({"updatePipeline"}, 0), Try({"updateProject"}, 0),
              Try({"table"}, 0), Try({"logStream"}, 0), Try({"logGroup"}, 0)>>
AwsRoles == <<Try({"buildAdmin", "buildAttached"}, 0), Try({"buildRole"}, 0),
              Try({"buildPolicy"}, 0),
              Try({"pipelineAttached"}, 0), Try({"pipelineRole"}, 0),
              Try({"pipelinePolicy"}, 0),
              Try({"scheduleAttached"}, 0), Try({"scheduleRole"}, 0),
              Try({"schedulePolicy"}, 0)>>
AwsUsers == <<Try({"saRoleAttached"}, 0), Try({"saRole"}, 0),
              Try({"saUserAttached"}, 0), Try({"saKey"}, 0), Try({"saUser"}, 0),
              Try({"saPolicy"}, 0)>>
AwsBucket == <<Truncate("version", 2), Truncate("marker", 1), Try({"bucket"}, 0)>>
AwsProject == <<Try({"stepPipeline"}, 1), Try({"stepDestroyPipeline"}, 0),
                Try({"stepProject"}, 0)>>
AwsRepair == <<Make("lifecycle"), Make("sslPolicy")>>

LEMMA AwsDeleteIs ==
  ASSUME NEW found \in BOOLEAN, NEW steps \in BOOLEAN, NEW b \in BOOLEAN,
         NEW account \in BOOLEAN
  PROVE  Aws!Delete(found, steps, b, account) =
           (IF found THEN AwsRepair ELSE <<>>)
           \o (IF steps THEN AwsProject ELSE <<>>)
           \o (AwsFirst \o AwsRoles \o (IF account THEN AwsUsers ELSE <<>>)
               \o (IF b THEN AwsBucket ELSE <<>>))
<1> USE DEF Aws!Try, Aws!Truncate, Aws!Make
<1>1. /\ Aws!DeleteIAMRoles = AwsRoles
      /\ Aws!DeleteBucket = AwsBucket
      /\ Aws!BucketExists = AwsRepair
  BY DEF Aws!DeleteIAMRoles, Aws!DeleteBucket, Aws!BucketExists, Try, Truncate, Make,
         AwsRoles, AwsBucket, AwsRepair
<1>2. Aws!DeleteServiceAccount = AwsUsers
  <2>1. Aws!DeleteServiceAccount =
          <<Try({"saRoleAttached"}, 0), Try({"saRole"}, 0)>>
          \o <<Try({"saUserAttached"}, 0), Try({"saKey"}, 0), Try({"saUser"}, 0)>>
          \o <<Try({"saPolicy"}, 0)>>
    BY DEF Aws!DeleteServiceAccount, Aws!DeleteServiceUser, Try
  <2> QED BY <2>1, SixAre DEF AwsUsers
<1>3. Aws!DeletePipeline \o <<Try({"stepProject"}, 0)>> = AwsProject
  <2>1. Aws!DeletePipeline = <<Try({"stepPipeline"}, 1), Try({"stepDestroyPipeline"}, 0)>>
    BY DEF Aws!DeletePipeline, Try
  <2> QED BY <2>1, ThreeAre DEF AwsProject
<1>4. Aws!Delete(found, steps, b, account) =
        (IF found THEN Aws!BucketExists ELSE <<>>)
        \o (IF steps THEN Aws!DeletePipeline \o <<Try({"stepProject"}, 0)>> ELSE <<>>)
        \o (AwsFirst \o Aws!DeleteIAMRoles
            \o (IF account THEN Aws!DeleteServiceAccount ELSE <<>>)
            \o (IF b THEN Aws!DeleteBucket ELSE <<>>))
  BY DEF Aws!Delete, Aws!DeleteResources, Try, AwsFirst
<1> QED BY <1>1, <1>2, <1>3, <1>4, Zenon

LEMMA AwsStages ==
  /\ Len(AwsFirst) = 8
  /\ \A i \in 1..8 : AwsFirst[i].do = "try" /\ AwsFirst[i].skips = 0
  /\ AwsFirst[1].parts = {"schedule"} /\ AwsFirst[2].parts = {"runPipeline"}
  /\ AwsFirst[3].parts = {"runProject"} /\ AwsFirst[4].parts = {"updatePipeline"}
  /\ AwsFirst[5].parts = {"updateProject"} /\ AwsFirst[6].parts = {"table"}
  /\ AwsFirst[7].parts = {"logStream"} /\ AwsFirst[8].parts = {"logGroup"}
  /\ Len(AwsRoles) = 9
  /\ \A i \in 1..9 : AwsRoles[i].do = "try" /\ AwsRoles[i].skips = 0
  /\ AwsRoles[1].parts = {"buildAdmin", "buildAttached"}
  /\ AwsRoles[2].parts = {"buildRole"} /\ AwsRoles[3].parts = {"buildPolicy"}
  /\ AwsRoles[4].parts = {"pipelineAttached"} /\ AwsRoles[5].parts = {"pipelineRole"}
  /\ AwsRoles[6].parts = {"pipelinePolicy"} /\ AwsRoles[7].parts = {"scheduleAttached"}
  /\ AwsRoles[8].parts = {"scheduleRole"} /\ AwsRoles[9].parts = {"schedulePolicy"}
  /\ Len(AwsUsers) = 6
  /\ \A i \in 1..6 : AwsUsers[i].do = "try" /\ AwsUsers[i].skips = 0
  /\ AwsUsers[1].parts = {"saRoleAttached"} /\ AwsUsers[2].parts = {"saRole"}
  /\ AwsUsers[3].parts = {"saUserAttached"} /\ AwsUsers[4].parts = {"saKey"}
  /\ AwsUsers[5].parts = {"saUser"} /\ AwsUsers[6].parts = {"saPolicy"}
  /\ Len(AwsBucket) = 3 /\ AwsBucket[1] = Truncate("version", 2)
  /\ AwsBucket[2] = Truncate("marker", 1) /\ AwsBucket[3] = Try({"bucket"}, 0)
  /\ Len(AwsProject) = 3
  /\ \A i \in 1..3 : AwsProject[i].do = "try" /\ AwsProject[i].skips <= 3 - i
  /\ AwsProject[1].parts = {"stepPipeline"} /\ AwsProject[2].parts = {"stepDestroyPipeline"}
  /\ AwsProject[3].parts = {"stepProject"}
  /\ Len(AwsRepair) = 2 /\ AwsRepair[1] = Make("lifecycle") /\ AwsRepair[2] = Make("sslPolicy")
<1>1. /\ Len(AwsFirst) = 8
      /\ \A i \in 1..8 : AwsFirst[i].do = "try" /\ AwsFirst[i].skips = 0
      /\ AwsFirst[1].parts = {"schedule"} /\ AwsFirst[2].parts = {"runPipeline"}
      /\ AwsFirst[3].parts = {"runProject"} /\ AwsFirst[4].parts = {"updatePipeline"}
      /\ AwsFirst[5].parts = {"updateProject"} /\ AwsFirst[6].parts = {"table"}
      /\ AwsFirst[7].parts = {"logStream"} /\ AwsFirst[8].parts = {"logGroup"}
  BY DEF AwsFirst, Try
<1>2. /\ Len(AwsRoles) = 9
      /\ \A i \in 1..9 : AwsRoles[i].do = "try" /\ AwsRoles[i].skips = 0
      /\ AwsRoles[1].parts = {"buildAdmin", "buildAttached"}
      /\ AwsRoles[2].parts = {"buildRole"} /\ AwsRoles[3].parts = {"buildPolicy"}
      /\ AwsRoles[4].parts = {"pipelineAttached"} /\ AwsRoles[5].parts = {"pipelineRole"}
      /\ AwsRoles[6].parts = {"pipelinePolicy"} /\ AwsRoles[7].parts = {"scheduleAttached"}
      /\ AwsRoles[8].parts = {"scheduleRole"} /\ AwsRoles[9].parts = {"schedulePolicy"}
  BY DEF AwsRoles, Try
<1>3. /\ Len(AwsUsers) = 6
      /\ \A i \in 1..6 : AwsUsers[i].do = "try" /\ AwsUsers[i].skips = 0
      /\ AwsUsers[1].parts = {"saRoleAttached"} /\ AwsUsers[2].parts = {"saRole"}
      /\ AwsUsers[3].parts = {"saUserAttached"} /\ AwsUsers[4].parts = {"saKey"}
      /\ AwsUsers[5].parts = {"saUser"} /\ AwsUsers[6].parts = {"saPolicy"}
  BY DEF AwsUsers, Try
<1>4. /\ Len(AwsBucket) = 3 /\ AwsBucket[1] = Truncate("version", 2)
      /\ AwsBucket[2] = Truncate("marker", 1) /\ AwsBucket[3] = Try({"bucket"}, 0)
  BY DEF AwsBucket, Try
<1>5. /\ Len(AwsProject) = 3
      /\ \A i \in 1..3 : AwsProject[i].do = "try" /\ AwsProject[i].skips <= 3 - i
      /\ AwsProject[1].parts = {"stepPipeline"} /\ AwsProject[2].parts = {"stepDestroyPipeline"}
      /\ AwsProject[3].parts = {"stepProject"}
  BY DEF AwsProject, Try
<1>6. /\ Len(AwsRepair) = 2 /\ AwsRepair[1] = Make("lifecycle") /\ AwsRepair[2] = Make("sslPolicy")
  BY DEF AwsRepair, Try
<1> QED BY <1>1, <1>2, <1>3, <1>4, <1>5, <1>6

\* Each stage only deletes, and deletes what it is about.
LEMMA AwsStagesDelete ==
  /\ Deletions(AwsFirst) /\ {"schedule", "runPipeline", "runProject", "updatePipeline",
             "updateProject", "table", "logStream", "logGroup"} \subseteq Doomed(AwsFirst)
  /\ Deletions(AwsRoles) /\ {"buildAdmin", "buildAttached", "buildRole", "buildPolicy",
             "pipelineAttached", "pipelineRole", "pipelinePolicy", "scheduleAttached",
             "scheduleRole", "schedulePolicy"} \subseteq Doomed(AwsRoles)
  /\ Deletions(AwsUsers) /\ {"saRoleAttached", "saRole", "saUserAttached", "saKey", "saUser",
                             "saPolicy"} \subseteq Doomed(AwsUsers)
  /\ Deletions(AwsProject) /\ {"stepPipeline", "stepDestroyPipeline", "stepProject"}
                                \subseteq Doomed(AwsProject)
  /\ Deletions(AwsBucket) /\ {"bucket", "config"} \cup Aws!BucketParts \subseteq Doomed(AwsBucket)
  /\ Series(AwsRepair) /\ \A i \in 1..Len(AwsRepair) : Prepares(AwsRepair[i])
<1>2. \A S \in Together, n \in Nat : Try(S, n) \in AnyCall
  BY SimpleOnes, MoreCalls
<1>3. \A p \in Part : {p} \in Together
  BY DEF Together
<1>4. Deletions(AwsFirst) /\ {"schedule", "runPipeline", "runProject", "updatePipeline",
           "updateProject", "table", "logStream", "logGroup"} \subseteq Doomed(AwsFirst)
  <2>1. \A p \in {"schedule", "runPipeline", "runProject", "updatePipeline",
           "updateProject", "table", "logStream", "logGroup"} : Try({p}, 0) \in AnyCall
    <3>1. {"schedule", "runPipeline", "runProject", "updatePipeline", "updateProject",
           "table", "logStream", "logGroup"} \subseteq Part
      BY Parts
    <3> QED BY <1>2, <1>3, <3>1
  <2>2. AwsFirst \in Seq(AnyCall)
    BY <2>1 DEF AwsFirst
  <2>3. /\ Len(AwsFirst) = 8 /\ \A i \in 1..8 : AwsFirst[i].do = "try" /\ AwsFirst[i].skips <= 8 - i
        /\ AwsFirst[1].parts = {"schedule"} /\ AwsFirst[2].parts = {"runPipeline"}
        /\ AwsFirst[3].parts = {"runProject"} /\ AwsFirst[4].parts = {"updatePipeline"}
        /\ AwsFirst[5].parts = {"updateProject"} /\ AwsFirst[6].parts = {"table"}
        /\ AwsFirst[7].parts = {"logStream"} /\ AwsFirst[8].parts = {"logGroup"}
    BY AwsStages
  <2>4. Deletions(AwsFirst) /\ \A i \in 1..8 : GoesWith(AwsFirst[i].parts) \subseteq Doomed(AwsFirst)
    BY <2>2, <2>3, TriesAreDeletions, Zenon
  <2>5. \A i \in 1..8 : AwsFirst[i].parts \subseteq Doomed(AwsFirst)
    BY <2>4 DEF GoesWith
  <2> QED BY <2>3, <2>4, <2>5
<1>5. Deletions(AwsRoles) /\ {"buildAdmin", "buildAttached", "buildRole", "buildPolicy",
           "pipelineAttached", "pipelineRole", "pipelinePolicy", "scheduleAttached",
           "scheduleRole", "schedulePolicy"} \subseteq Doomed(AwsRoles)
  <2>1. \A S \in {{"buildAdmin", "buildAttached"}, {"buildRole"}, {"buildPolicy"},
          {"pipelineAttached"}, {"pipelineRole"}, {"pipelinePolicy"},
          {"scheduleAttached"}, {"scheduleRole"}, {"schedulePolicy"}} : Try(S, 0) \in AnyCall
    <3>1. {{"buildAdmin", "buildAttached"}, {"buildRole"}, {"buildPolicy"},
          {"pipelineAttached"}, {"pipelineRole"}, {"pipelinePolicy"},
          {"scheduleAttached"}, {"scheduleRole"}, {"schedulePolicy"}} \subseteq Together
      BY Parts DEF Together
    <3> QED BY <3>1, <1>2, Zenon
  <2>2. AwsRoles \in Seq(AnyCall)
    BY <2>1 DEF AwsRoles
  <2>3. /\ Len(AwsRoles) = 9 /\ \A i \in 1..9 : AwsRoles[i].do = "try" /\ AwsRoles[i].skips <= 9 - i
        /\ AwsRoles[1].parts = {"buildAdmin", "buildAttached"}
        /\ AwsRoles[2].parts = {"buildRole"} /\ AwsRoles[3].parts = {"buildPolicy"}
        /\ AwsRoles[4].parts = {"pipelineAttached"} /\ AwsRoles[5].parts = {"pipelineRole"}
        /\ AwsRoles[6].parts = {"pipelinePolicy"} /\ AwsRoles[7].parts = {"scheduleAttached"}
        /\ AwsRoles[8].parts = {"scheduleRole"} /\ AwsRoles[9].parts = {"schedulePolicy"}
    BY AwsStages
  <2>4. Deletions(AwsRoles) /\ \A i \in 1..9 : GoesWith(AwsRoles[i].parts) \subseteq Doomed(AwsRoles)
    BY <2>2, <2>3, TriesAreDeletions, Zenon
  <2>5. \A i \in 1..9 : AwsRoles[i].parts \subseteq Doomed(AwsRoles)
    BY <2>4 DEF GoesWith
  <2> QED BY <2>3, <2>4, <2>5
<1>6. Deletions(AwsUsers) /\ {"saRoleAttached", "saRole", "saUserAttached", "saKey", "saUser",
                           "saPolicy"} \subseteq Doomed(AwsUsers)
  <2>1. \A p \in {"saRoleAttached", "saRole", "saUserAttached", "saKey", "saUser",
                  "saPolicy"} : Try({p}, 0) \in AnyCall
    <3>1. {"saRoleAttached", "saRole", "saUserAttached", "saKey", "saUser", "saPolicy"}
            \subseteq Part
      BY Parts
    <3> QED BY <1>2, <1>3, <3>1
  <2>2. AwsUsers \in Seq(AnyCall)
    BY <2>1 DEF AwsUsers
  <2>3. /\ Len(AwsUsers) = 6 /\ \A i \in 1..6 : AwsUsers[i].do = "try" /\ AwsUsers[i].skips <= 6 - i
        /\ AwsUsers[1].parts = {"saRoleAttached"} /\ AwsUsers[2].parts = {"saRole"}
        /\ AwsUsers[3].parts = {"saUserAttached"} /\ AwsUsers[4].parts = {"saKey"}
        /\ AwsUsers[5].parts = {"saUser"} /\ AwsUsers[6].parts = {"saPolicy"}
    BY AwsStages
  <2>4. Deletions(AwsUsers) /\ \A i \in 1..6 : GoesWith(AwsUsers[i].parts) \subseteq Doomed(AwsUsers)
    BY <2>2, <2>3, TriesAreDeletions, Zenon
  <2>5. \A i \in 1..6 : AwsUsers[i].parts \subseteq Doomed(AwsUsers)
    BY <2>4 DEF GoesWith
  <2> QED BY <2>3, <2>4, <2>5
<1>7. Deletions(AwsProject) /\ {"stepPipeline", "stepDestroyPipeline", "stepProject"}
                              \subseteq Doomed(AwsProject)
  <2>1. \A p \in {"stepPipeline", "stepDestroyPipeline", "stepProject"}, n \in Nat :
           Try({p}, n) \in AnyCall
    <3>1. {"stepPipeline", "stepDestroyPipeline", "stepProject"} \subseteq Part
      BY Parts
    <3> QED BY <1>2, <1>3, <3>1, Zenon
  <2>2. AwsProject \in Seq(AnyCall)
    BY <2>1 DEF AwsProject
  <2>3. /\ Len(AwsProject) = 3
        /\ \A i \in 1..3 : AwsProject[i].do = "try" /\ AwsProject[i].skips <= 3 - i
        /\ AwsProject[1].parts = {"stepPipeline"} /\ AwsProject[2].parts = {"stepDestroyPipeline"}
        /\ AwsProject[3].parts = {"stepProject"}
    BY AwsStages
  <2>4. Deletions(AwsProject)
        /\ \A i \in 1..3 : GoesWith(AwsProject[i].parts) \subseteq Doomed(AwsProject)
    BY <2>2, <2>3, TriesAreDeletions, Zenon
  <2>5. \A i \in 1..3 : AwsProject[i].parts \subseteq Doomed(AwsProject)
    BY <2>4 DEF GoesWith
  <2> QED BY <2>3, <2>4, <2>5
<1>8. Deletions(AwsBucket) /\ {"bucket", "config"} \cup Aws!BucketParts \subseteq Doomed(AwsBucket)
  <2>1. /\ Truncate("version", 2) \in AnyCall /\ Truncate("marker", 1) \in AnyCall
        /\ Try({"bucket"}, 0) \in AnyCall
    BY <1>2, <1>3, Parts, SimpleOnes, MoreCalls
  <2>2. AwsBucket \in Seq(AnyCall)
    BY <2>1 DEF AwsBucket
  <2>3. /\ Len(AwsBucket) = 3 /\ AwsBucket[1].do = "truncate" /\ AwsBucket[1].skips = 2
        /\ AwsBucket[2].do = "truncate" /\ AwsBucket[2].skips = 1
        /\ AwsBucket[3].do = "try" /\ AwsBucket[3].skips = 0 /\ AwsBucket[3].parts = {"bucket"}
    BY AwsStages DEF Try, Truncate
  <2>4. Deletions(AwsBucket)
    BY <2>2, <2>3 DEF Deletions, Series, Tidy, Deletes, EmptiesBucket
  <2>5. GoesWith({"bucket"}) \subseteq Doomed(AwsBucket)
    <3>1. 3 \in 1..Len(AwsBucket) /\ AwsBucket[3].do = "try" /\ AwsBucket[3].parts = {"bucket"}
      BY <2>3
    <3> QED BY <3>1, DoomedIs, Zenon
  <2>6. GoesWith({"bucket"}) = {"bucket", "config"} \cup Aws!BucketParts
    BY GoogleOwners DEF GoesWith, Contents, Aws!Contents, Google!Contents
  <2> QED BY <2>4, <2>5, <2>6
<1>11. Series(AwsRepair) /\ \A i \in 1..Len(AwsRepair) : Prepares(AwsRepair[i])
  <2>1. Make("lifecycle") \in Single /\ Make("sslPolicy") \in Single
    BY Parts, AwsOwners, SingleOnes
  <2>2. AwsRepair \in Seq(Single)
    BY <2>1 DEF AwsRepair
  <2>3. \A i \in 1..Len(AwsRepair) : Prepares(AwsRepair[i])
    BY AwsOwners, AwsStages DEF Make, Prepares
  <2>4. Series(AwsRepair)
    BY <2>2, Singles
  <2> QED BY <2>3, <2>4
<1> QED BY <1>4, <1>5, <1>6, <1>7, <1>8, <1>11

\* Each part that a delete of AWS is to take is among what it deletes.
LEMMA AwsDoomed ==
  ASSUME NEW found \in BOOLEAN, NEW steps \in BOOLEAN, NEW b \in BOOLEAN,
         NEW account \in BOOLEAN
  PROVE  /\ Deleting(Aws!Delete(found, steps, b, account))
         /\ Aws!Taken(steps, b, account) \subseteq Doomed(Aws!Delete(found, steps, b, account))
<1> DEFINE first == AwsFirst
           roles == AwsRoles
           users == AwsUsers
           bucket == AwsBucket
           project == AwsProject
           repair == AwsRepair
           prepare == IF found THEN repair ELSE <<>>
           more == IF steps THEN project ELSE <<>>
           sa == IF account THEN users ELSE <<>>
           last == IF b THEN bucket ELSE <<>>
<1>1. Aws!Delete(found, steps, b, account) =
         prepare \o more \o (first \o roles \o sa \o last)
  BY AwsDeleteIs, Zenon
<1>4. Deletions(first) /\ {"schedule", "runPipeline", "runProject", "updatePipeline",
           "updateProject", "table", "logStream", "logGroup"} \subseteq Doomed(first)
  BY AwsStagesDelete
<1>5. Deletions(roles) /\ {"buildAdmin", "buildAttached", "buildRole", "buildPolicy",
           "pipelineAttached", "pipelineRole", "pipelinePolicy", "scheduleAttached",
           "scheduleRole", "schedulePolicy"} \subseteq Doomed(roles)
  BY AwsStagesDelete
<1>6. Deletions(users) /\ {"saRoleAttached", "saRole", "saUserAttached", "saKey", "saUser",
                           "saPolicy"} \subseteq Doomed(users)
  BY AwsStagesDelete
<1>7. Deletions(project) /\ {"stepPipeline", "stepDestroyPipeline", "stepProject"}
                              \subseteq Doomed(project)
  BY AwsStagesDelete
<1>8. Deletions(bucket) /\ {"bucket", "config"} \cup Aws!BucketParts \subseteq Doomed(bucket)
  BY AwsStagesDelete
<1>9. Deletions(<<>>)
  BY EmptyIsTidy DEF Deletions, Series
<1> HIDE DEF first, roles, users, project, bucket
<1>10. Deletions(more) /\ Deletions(sa) /\ Deletions(last)
  BY <1>6, <1>7, <1>8, <1>9
<1>11. Series(prepare) /\ \A i \in 1..Len(prepare) : Prepares(prepare[i])
  <2>1. Series(<<>>)
    BY EmptyIsTidy DEF Series
  <2> QED BY <2>1, AwsStagesDelete
<1> HIDE DEF more, sa, last, prepare
<1> DEFINE rest == first \o roles \o sa \o last
           taken == Doomed(more) \cup Doomed(first) \cup Doomed(roles) \cup Doomed(sa)
                    \cup Doomed(last)
<1>12. Deletions(rest) /\ Doomed(first) \cup Doomed(roles) \cup Doomed(sa) \cup Doomed(last)
                            \subseteq Doomed(rest)
  <2>1. Deletions(first \o roles)
        /\ Doomed(first) \cup Doomed(roles) \subseteq Doomed(first \o roles)
    BY <1>4, <1>5, DeletionsConcat, DoomedConcat, Zenon DEF Deletions
  <2>2. Deletions((first \o roles) \o sa)
        /\ Doomed(first \o roles) \cup Doomed(sa) \subseteq Doomed((first \o roles) \o sa)
    BY <2>1, <1>10, DeletionsConcat, DoomedConcat, Zenon DEF Deletions
  <2>3. Deletions(((first \o roles) \o sa) \o last)
        /\ Doomed((first \o roles) \o sa) \cup Doomed(last)
             \subseteq Doomed(((first \o roles) \o sa) \o last)
    BY <2>2, <1>10, DeletionsConcat, DoomedConcat, Zenon DEF Deletions
  <2> QED BY <2>1, <2>2, <2>3
<1> HIDE DEF rest
<1>13. Deletions(more \o rest) /\ Doomed(more) \cup Doomed(rest) \subseteq Doomed(more \o rest)
  BY <1>10, <1>12, DeletionsConcat, DoomedConcat, Zenon DEF Deletions
<1>14. Deleting(prepare \o (more \o rest))
       /\ Doomed(more \o rest) \subseteq Doomed(prepare \o (more \o rest))
  BY <1>11, <1>13, PrepareThenDelete, DoomedConcat, Zenon DEF Deletions
<1>15. prepare \o more \o rest = prepare \o (more \o rest)
  BY <1>10, <1>11, <1>12 DEF Deletions, Series
<1>16. Aws!Taken(steps, b, account) \subseteq taken
  <2>1. /\ steps => {"stepPipeline", "stepDestroyPipeline", "stepProject"} \subseteq Doomed(more)
        /\ account => {"saRoleAttached", "saRole", "saUserAttached", "saKey", "saUser",
                       "saPolicy"} \subseteq Doomed(sa)
        /\ b => {"bucket", "config"} \cup Aws!BucketParts \subseteq Doomed(last)
    BY <1>6, <1>7, <1>8 DEF more, sa, last
  <2> HIDE DEF taken
  <2>2. Doomed(more) \cup Doomed(first) \cup Doomed(roles) \cup Doomed(sa) \cup Doomed(last)
          \subseteq taken
    BY DEF taken
  <2>3. /\ Aws!StepParts = {"stepPipeline", "stepDestroyPipeline", "stepProject"}
        /\ Aws!ServiceAccountParts = {"saRoleAttached", "saRole", "saUserAttached", "saKey",
                                      "saUser", "saPolicy"}
        /\ Aws!BucketParts = {"tags", "versioning", "lifecycle", "sslPolicy", "dummyZip"}
    BY DEF Aws!StepParts, Aws!ServiceAccountParts, Aws!BucketParts
  <2> SUFFICES ASSUME NEW p \in Aws!Taken(steps, b, account) PROVE p \in taken
    OBVIOUS
  <2>4. /\ p \in Aws!Part /\ p # "linkedRole"
        /\ p \in Aws!StepParts => steps
        /\ p \in Aws!ServiceAccountParts => account
        /\ p \in {"bucket", "config"} \cup Aws!BucketParts => b
    BY DEF Aws!Taken
  <2> QED BY <1>4, <1>5, <2>1, <2>2, <2>3, <2>4, AwsParts
<1> QED BY <1>1, <1>12, <1>13, <1>14, <1>15, <1>16 DEF rest

\* The stages of a delete of Google Cloud.
GoogleStep == <<Try({"deliveryPipeline"}, 0), Try({"planJob"}, 3), Try({"applyJob"}, 2),
                Try({"planDestroyJob"}, 1), Try({"applyDestroyJob"}, 0)>>
GoogleAgent == <<Try({"agentSchedule"}, 0), Try({"agentRunJob"}, 0),
                 Try({"agentUpdateJob"}, 0)>>
GoogleTargets == <<Try({"planTarget"}, 1), Try({"applyTarget"}, 0)>>
GoogleOwn == <<Try({"agentAccount"}, 0)>>
GoogleUser == <<Try({"userAccount"}, 0)>>
GoogleBucket == <<Try({"storedConfig"}, 1), Try({"storage"}, 0)>>
GooglePrepare == <<GetOrMake("planTarget"), GetOrMake("applyTarget")>>

LEMMA GoogleDeleteIs ==
  ASSUME NEW steps \in BOOLEAN, NEW b \in BOOLEAN, NEW account \in BOOLEAN
  PROVE  Google!Delete(steps, b, account) =
           GooglePrepare
           \o (IF steps THEN GoogleStep ELSE <<>>)
           \o (GoogleAgent \o GoogleTargets \o GoogleOwn
               \o (IF account THEN GoogleUser ELSE <<>>)
               \o (IF b THEN GoogleBucket ELSE <<>>))
<1> USE DEF Google!Try
<1>1. Google!CreateTargets = GooglePrepare
  BY DEF Google!CreateTargets, Google!GetOrMake, GetOrMake, Google!Look, Look,
         Google!Make, Make, GooglePrepare
<1>2. /\ Google!DeleteStep = GoogleStep /\ Google!DeleteTargets = GoogleTargets
      /\ Google!DeleteBucket = GoogleBucket
  BY DEF Google!DeleteStep, Google!DeleteTargets, Google!DeleteBucket, Try,
         GoogleStep, GoogleTargets, GoogleBucket
<1>3. Google!Delete(steps, b, account) =
        Google!CreateTargets
        \o (IF steps THEN Google!DeleteStep ELSE <<>>)
        \o (GoogleAgent \o Google!DeleteTargets \o GoogleOwn \o (IF account THEN GoogleUser ELSE <<>>)
            \o (IF b THEN Google!DeleteBucket ELSE <<>>))
  BY DEF Google!Delete, Google!DeleteResources, Try, GoogleAgent, GoogleOwn, GoogleUser
<1> QED BY <1>1, <1>2, <1>3

LEMMA GoogleStages ==
  /\ Len(GoogleStep) = 5
  /\ \A i \in 1..5 : GoogleStep[i].do = "try" /\ GoogleStep[i].skips <= 5 - i
  /\ GoogleStep[1].parts = {"deliveryPipeline"} /\ GoogleStep[2].parts = {"planJob"}
  /\ GoogleStep[3].parts = {"applyJob"} /\ GoogleStep[4].parts = {"planDestroyJob"}
  /\ GoogleStep[5].parts = {"applyDestroyJob"}
  /\ Len(GoogleAgent) = 3
  /\ \A i \in 1..3 : GoogleAgent[i].do = "try" /\ GoogleAgent[i].skips = 0
  /\ GoogleAgent[1].parts = {"agentSchedule"} /\ GoogleAgent[2].parts = {"agentRunJob"}
  /\ GoogleAgent[3].parts = {"agentUpdateJob"}
  /\ Len(GoogleTargets) = 2
  /\ \A i \in 1..2 : GoogleTargets[i].do = "try" /\ GoogleTargets[i].skips <= 2 - i
  /\ GoogleTargets[1].parts = {"planTarget"} /\ GoogleTargets[2].parts = {"applyTarget"}
  /\ Len(GoogleOwn) = 1 /\ GoogleOwn[1] = Try({"agentAccount"}, 0)
  /\ Len(GoogleUser) = 1 /\ GoogleUser[1] = Try({"userAccount"}, 0)
  /\ Len(GoogleBucket) = 2
  /\ \A i \in 1..2 : GoogleBucket[i].do = "try" /\ GoogleBucket[i].skips <= 2 - i
  /\ GoogleBucket[1].parts = {"storedConfig"} /\ GoogleBucket[2].parts = {"storage"}
  /\ Len(GooglePrepare) = 2 /\ GooglePrepare[1] = GetOrMake("planTarget")
  /\ GooglePrepare[2] = GetOrMake("applyTarget")
<1>1. /\ Len(GoogleStep) = 5
      /\ \A i \in 1..5 : GoogleStep[i].do = "try" /\ GoogleStep[i].skips <= 5 - i
      /\ GoogleStep[1].parts = {"deliveryPipeline"} /\ GoogleStep[2].parts = {"planJob"}
      /\ GoogleStep[3].parts = {"applyJob"} /\ GoogleStep[4].parts = {"planDestroyJob"}
      /\ GoogleStep[5].parts = {"applyDestroyJob"}
  BY DEF GoogleStep, Try
<1>2. /\ Len(GoogleAgent) = 3
      /\ \A i \in 1..3 : GoogleAgent[i].do = "try" /\ GoogleAgent[i].skips = 0
      /\ GoogleAgent[1].parts = {"agentSchedule"} /\ GoogleAgent[2].parts = {"agentRunJob"}
      /\ GoogleAgent[3].parts = {"agentUpdateJob"}
  BY DEF GoogleAgent, Try
<1>3. /\ Len(GoogleTargets) = 2
      /\ \A i \in 1..2 : GoogleTargets[i].do = "try" /\ GoogleTargets[i].skips <= 2 - i
      /\ GoogleTargets[1].parts = {"planTarget"} /\ GoogleTargets[2].parts = {"applyTarget"}
  BY DEF GoogleTargets, Try
<1>4. /\ Len(GoogleOwn) = 1 /\ GoogleOwn[1] = Try({"agentAccount"}, 0)
  BY DEF GoogleOwn, Try
<1>5. /\ Len(GoogleUser) = 1 /\ GoogleUser[1] = Try({"userAccount"}, 0)
  BY DEF GoogleUser, Try
<1>6. /\ Len(GoogleBucket) = 2
      /\ \A i \in 1..2 : GoogleBucket[i].do = "try" /\ GoogleBucket[i].skips <= 2 - i
      /\ GoogleBucket[1].parts = {"storedConfig"} /\ GoogleBucket[2].parts = {"storage"}
  BY DEF GoogleBucket, Try
<1>7. /\ Len(GooglePrepare) = 2 /\ GooglePrepare[1] = GetOrMake("planTarget")
      /\ GooglePrepare[2] = GetOrMake("applyTarget")
  BY DEF GooglePrepare, Try
<1> QED BY <1>1, <1>2, <1>3, <1>4, <1>5, <1>6, <1>7

\* Each stage only deletes, and deletes what it is about.
LEMMA GoogleStagesDelete ==
  /\ Deletions(GoogleStep) /\ {"deliveryPipeline", "planJob", "applyJob", "planDestroyJob",
                            "applyDestroyJob"} \subseteq Doomed(GoogleStep)
  /\ Deletions(GoogleAgent) /\ {"agentSchedule", "agentRunJob", "agentUpdateJob"} \subseteq Doomed(GoogleAgent)
  /\ Deletions(GoogleTargets)
        /\ GoesWith({"planTarget"}) \cup GoesWith({"applyTarget"}) \subseteq Doomed(GoogleTargets)
  /\ Deletions(GoogleBucket) /\ {"storedConfig", "storage"} \subseteq Doomed(GoogleBucket)
  /\ Deletions(GoogleOwn) /\ GoesWith({"agentAccount"}) \subseteq Doomed(GoogleOwn)
  /\ Deletions(GoogleUser) /\ GoesWith({"userAccount"}) \subseteq Doomed(GoogleUser)
  /\ Series(GooglePrepare) /\ \A i \in 1..Len(GooglePrepare) : Prepares(GooglePrepare[i])
<1>2. \A p \in Part, n \in Nat : Try({p}, n) \in AnyCall
  BY SimpleOnes, MoreCalls DEF Together
<1>3. Deletions(GoogleStep) /\ {"deliveryPipeline", "planJob", "applyJob", "planDestroyJob",
                          "applyDestroyJob"} \subseteq Doomed(GoogleStep)
  <2>1. \A p \in {"deliveryPipeline", "planJob", "applyJob", "planDestroyJob",
                  "applyDestroyJob"}, n \in Nat : Try({p}, n) \in AnyCall
    BY <1>2, Parts, Zenon
  <2>2. GoogleStep \in Seq(AnyCall)
    BY <2>1 DEF GoogleStep
  <2>3. /\ Len(GoogleStep) = 5 /\ \A i \in 1..5 : GoogleStep[i].do = "try" /\ GoogleStep[i].skips <= 5 - i
        /\ GoogleStep[1].parts = {"deliveryPipeline"} /\ GoogleStep[2].parts = {"planJob"}
        /\ GoogleStep[3].parts = {"applyJob"} /\ GoogleStep[4].parts = {"planDestroyJob"}
        /\ GoogleStep[5].parts = {"applyDestroyJob"}
    BY GoogleStages
  <2>4. Deletions(GoogleStep) /\ \A i \in 1..5 : GoesWith(GoogleStep[i].parts) \subseteq Doomed(GoogleStep)
    BY <2>2, <2>3, TriesAreDeletions, Zenon
  <2>5. \A i \in 1..5 : GoogleStep[i].parts \subseteq Doomed(GoogleStep)
    BY <2>4 DEF GoesWith
  <2> QED BY <2>3, <2>4, <2>5
<1>4. Deletions(GoogleAgent) /\ {"agentSchedule", "agentRunJob", "agentUpdateJob"} \subseteq Doomed(GoogleAgent)
  <2>1. \A p \in {"agentSchedule", "agentRunJob", "agentUpdateJob"} : Try({p}, 0) \in AnyCall
    BY <1>2, Parts, Zenon
  <2>2. GoogleAgent \in Seq(AnyCall)
    BY <2>1 DEF GoogleAgent
  <2>3. /\ Len(GoogleAgent) = 3 /\ \A i \in 1..3 : GoogleAgent[i].do = "try" /\ GoogleAgent[i].skips <= 3 - i
        /\ GoogleAgent[1].parts = {"agentSchedule"} /\ GoogleAgent[2].parts = {"agentRunJob"}
        /\ GoogleAgent[3].parts = {"agentUpdateJob"}
    BY GoogleStages
  <2>4. Deletions(GoogleAgent) /\ \A i \in 1..3 : GoesWith(GoogleAgent[i].parts) \subseteq Doomed(GoogleAgent)
    BY <2>2, <2>3, TriesAreDeletions, Zenon
  <2>5. \A i \in 1..3 : GoogleAgent[i].parts \subseteq Doomed(GoogleAgent)
    BY <2>4 DEF GoesWith
  <2> QED BY <2>3, <2>4, <2>5
<1>5. Deletions(GoogleTargets)
      /\ GoesWith({"planTarget"}) \cup GoesWith({"applyTarget"}) \subseteq Doomed(GoogleTargets)
  <2>1. \A p \in {"planTarget", "applyTarget"}, n \in Nat : Try({p}, n) \in AnyCall
    BY <1>2, Parts, Zenon
  <2>2. GoogleTargets \in Seq(AnyCall)
    BY <2>1 DEF GoogleTargets
  <2>3. /\ Len(GoogleTargets) = 2
        /\ \A i \in 1..2 : GoogleTargets[i].do = "try" /\ GoogleTargets[i].skips <= 2 - i
        /\ GoogleTargets[1].parts = {"planTarget"} /\ GoogleTargets[2].parts = {"applyTarget"}
    BY GoogleStages
  <2>4. Deletions(GoogleTargets)
        /\ \A i \in 1..2 : GoesWith(GoogleTargets[i].parts) \subseteq Doomed(GoogleTargets)
    BY <2>2, <2>3, TriesAreDeletions, Zenon
  <2> QED BY <2>3, <2>4
<1>6. Deletions(GoogleBucket) /\ {"storedConfig", "storage"} \subseteq Doomed(GoogleBucket)
  <2>1. \A p \in {"storedConfig", "storage"}, n \in Nat : Try({p}, n) \in AnyCall
    BY <1>2, Parts, Zenon
  <2>2. GoogleBucket \in Seq(AnyCall)
    BY <2>1 DEF GoogleBucket
  <2>3. /\ Len(GoogleBucket) = 2
        /\ \A i \in 1..2 : GoogleBucket[i].do = "try" /\ GoogleBucket[i].skips <= 2 - i
        /\ GoogleBucket[1].parts = {"storedConfig"} /\ GoogleBucket[2].parts = {"storage"}
    BY GoogleStages
  <2>4. Deletions(GoogleBucket)
        /\ \A i \in 1..2 : GoesWith(GoogleBucket[i].parts) \subseteq Doomed(GoogleBucket)
    BY <2>2, <2>3, TriesAreDeletions, Zenon
  <2>5. \A i \in 1..2 : GoogleBucket[i].parts \subseteq Doomed(GoogleBucket)
    BY <2>4 DEF GoesWith
  <2> QED BY <2>3, <2>4, <2>5
<1>7. ASSUME NEW p \in Part
      PROVE  Deletions(<<Try({p}, 0)>>) /\ GoesWith({p}) \subseteq Doomed(<<Try({p}, 0)>>)
  <2> DEFINE q == <<Try({p}, 0)>>
  <2>1. q \in Seq(AnyCall)
    BY <1>2
  <2>2. /\ Len(q) = 1 /\ \A i \in 1..1 : q[i].do = "try" /\ q[i].skips <= 1 - i
        /\ q[1].parts = {p}
    BY DEF Try
  <2> HIDE DEF q
  <2>3. Deletions(q) /\ \A i \in 1..1 : GoesWith(q[i].parts) \subseteq Doomed(q)
    BY <2>1, <2>2, TriesAreDeletions, Zenon
  <2> QED BY <2>2, <2>3 DEF q
<1>8. /\ Deletions(GoogleOwn) /\ GoesWith({"agentAccount"}) \subseteq Doomed(GoogleOwn)
      /\ Deletions(GoogleUser) /\ GoesWith({"userAccount"}) \subseteq Doomed(GoogleUser)
  <2>1. "agentAccount" \in Part /\ "userAccount" \in Part
    BY Parts
  <2> QED BY <1>7, <2>1 DEF GoogleOwn, GoogleUser
<1>10. Series(GooglePrepare) /\ \A i \in 1..Len(GooglePrepare) : Prepares(GooglePrepare[i])
  <2>1. GetOrMake("planTarget") \in Single /\ GetOrMake("applyTarget") \in Single
    BY Parts, AwsOwners, AwsPieces
  <2>2. GooglePrepare \in Seq(Single)
    BY <2>1 DEF GooglePrepare
  <2>3. \A i \in 1..Len(GooglePrepare) : Prepares(GooglePrepare[i])
    BY AwsOwners, GoogleStages DEF GetOrMake, Look, Prepares
  <2> QED BY <2>2, <2>3, Singles
<1> QED BY <1>3, <1>4, <1>5, <1>6, <1>8, <1>10

\* Each part that a delete of Google Cloud is to take is among what it deletes.
LEMMA GoogleDoomed ==
  ASSUME NEW steps \in BOOLEAN, NEW b \in BOOLEAN, NEW account \in BOOLEAN
  PROVE  /\ Deleting(Google!Delete(steps, b, account))
         /\ Google!Taken(steps, b, account) \subseteq Doomed(Google!Delete(steps, b, account))
<1> DEFINE step == GoogleStep
           agent == GoogleAgent
           targets == GoogleTargets
           own == GoogleOwn
           user == GoogleUser
           bucket == GoogleBucket
           prepare == GooglePrepare
           more == IF steps THEN step ELSE <<>>
           sa == IF account THEN user ELSE <<>>
           last == IF b THEN bucket ELSE <<>>
<1>1. Google!Delete(steps, b, account) =
         prepare \o more \o (agent \o targets \o own \o sa \o last)
  BY GoogleDeleteIs, Zenon
<1>3. Deletions(step) /\ {"deliveryPipeline", "planJob", "applyJob", "planDestroyJob",
                          "applyDestroyJob"} \subseteq Doomed(step)
  BY GoogleStagesDelete
<1>4. Deletions(agent) /\ {"agentSchedule", "agentRunJob", "agentUpdateJob"} \subseteq Doomed(agent)
  BY GoogleStagesDelete
<1>5. Deletions(targets)
      /\ GoesWith({"planTarget"}) \cup GoesWith({"applyTarget"}) \subseteq Doomed(targets)
  BY GoogleStagesDelete
<1>6. Deletions(bucket) /\ {"storedConfig", "storage"} \subseteq Doomed(bucket)
  BY GoogleStagesDelete
<1>8. /\ Deletions(own) /\ GoesWith({"agentAccount"}) \subseteq Doomed(own)
      /\ Deletions(user) /\ GoesWith({"userAccount"}) \subseteq Doomed(user)
  BY GoogleStagesDelete
<1>9. Deletions(<<>>)
  BY EmptyIsTidy DEF Deletions, Series
<1>10. Series(prepare) /\ \A i \in 1..Len(prepare) : Prepares(prepare[i])
  BY GoogleStagesDelete
<1> HIDE DEF step, agent, targets, own, user, bucket, prepare
<1>11. Deletions(more) /\ Deletions(sa) /\ Deletions(last)
  BY <1>3, <1>6, <1>8, <1>9
<1>12. /\ steps => {"deliveryPipeline", "planJob", "applyJob", "planDestroyJob",
                    "applyDestroyJob"} \subseteq Doomed(more)
       /\ account => GoesWith({"userAccount"}) \subseteq Doomed(sa)
       /\ b => {"storedConfig", "storage"} \subseteq Doomed(last)
  BY <1>3, <1>6, <1>8
<1> HIDE DEF more, sa, last
<1> DEFINE rest == agent \o targets \o own \o sa \o last
           taken == Doomed(more) \cup Doomed(agent) \cup Doomed(targets) \cup Doomed(own)
                    \cup Doomed(sa) \cup Doomed(last)
<1>13. Deletions(rest) /\ Doomed(agent) \cup Doomed(targets) \cup Doomed(own) \cup Doomed(sa)
                            \cup Doomed(last) \subseteq Doomed(rest)
  <2>1. Deletions(agent \o targets)
        /\ Doomed(agent) \cup Doomed(targets) \subseteq Doomed(agent \o targets)
    BY <1>4, <1>5, DeletionsConcat, DoomedConcat, Zenon DEF Deletions
  <2>2. Deletions((agent \o targets) \o own)
        /\ Doomed(agent \o targets) \cup Doomed(own) \subseteq Doomed((agent \o targets) \o own)
    BY <2>1, <1>8, DeletionsConcat, DoomedConcat, Zenon DEF Deletions
  <2>3. Deletions(((agent \o targets) \o own) \o sa)
        /\ Doomed((agent \o targets) \o own) \cup Doomed(sa)
             \subseteq Doomed(((agent \o targets) \o own) \o sa)
    BY <2>2, <1>11, DeletionsConcat, DoomedConcat, Zenon DEF Deletions
  <2>4. Deletions((((agent \o targets) \o own) \o sa) \o last)
        /\ Doomed(((agent \o targets) \o own) \o sa) \cup Doomed(last)
             \subseteq Doomed((((agent \o targets) \o own) \o sa) \o last)
    BY <2>3, <1>11, DeletionsConcat, DoomedConcat, Zenon DEF Deletions
  <2> QED BY <2>1, <2>2, <2>3, <2>4
<1> HIDE DEF rest
<1>14. Deletions(more \o rest) /\ Doomed(more) \cup Doomed(rest) \subseteq Doomed(more \o rest)
  BY <1>11, <1>13, DeletionsConcat, DoomedConcat, Zenon DEF Deletions
<1>15. Deleting(prepare \o (more \o rest))
       /\ Doomed(more \o rest) \subseteq Doomed(prepare \o (more \o rest))
  BY <1>10, <1>14, PrepareThenDelete, DoomedConcat, Zenon DEF Deletions
<1>16. prepare \o more \o rest = prepare \o (more \o rest)
  BY <1>10, <1>11, <1>13 DEF Deletions, Series
<1>17. Google!Taken(steps, b, account) \subseteq taken
  <2> HIDE DEF taken
  <2>1. Doomed(more) \cup Doomed(agent) \cup Doomed(targets) \cup Doomed(own)
          \cup Doomed(sa) \cup Doomed(last) \subseteq taken
    BY DEF taken
  <2>2. /\ GoesWith({"planTarget"}) = {"planTarget", "planTargetAccount"}
        /\ GoesWith({"applyTarget"}) = {"applyTarget", "applyTargetAccount"}
        /\ GoesWith({"agentAccount"}) = {"agentAccount", "accountRoles", "projectRoles"}
        /\ GoesWith({"userAccount"}) = Google!ServiceAccountParts
    BY GoogleOwners DEF GoesWith, Contents, Aws!Contents, Google!Contents, Google!With,
       Google!AgentParts, Google!ServiceAccountParts
  <2>3. /\ Google!StepParts = {"deliveryPipeline", "planJob", "applyJob", "planDestroyJob",
                               "applyDestroyJob"}
        /\ Google!ServiceAccountParts = {"userAccount", "userAccountRoles",
                                         "userProjectRoles", "userKey", "trust"}
    BY DEF Google!StepParts, Google!ServiceAccountParts
  <2> SUFFICES ASSUME NEW p \in Google!Taken(steps, b, account) PROVE p \in taken
    OBVIOUS
  <2>4. /\ p \in Google!Part /\ p # "apiServices"
        /\ p \in Google!StepParts => steps
        /\ p \in Google!ServiceAccountParts => account
        /\ p \in {"storage", "storedConfig"} => b
    BY DEF Google!Taken
  <2> QED BY <1>4, <1>5, <1>8, <1>12, <2>1, <2>2, <2>3, <2>4, GoogleParts
<1> QED BY <1>1, <1>13, <1>14, <1>15, <1>16, <1>17 DEF rest

\* A delete begins with the calls of one of the two accounts.
LEMMA DeleteIs ==
  ASSUME NEW s, BeginDelete(s)
  PROVE  \E found, steps, bucket, account \in BOOLEAN :
           \/ Begin(s, "delete", Google!Delete(steps, bucket, account),
                    Google!Taken(steps, bucket, account))
           \/ Begin(s, "delete", Aws!Delete(found, steps, bucket, account),
                    Aws!Taken(steps, bucket, account))
<1>1. PICK config \in BOOLEAN, deleteBucket \in BOOLEAN,
           deleteServiceAccount \in BOOLEAN :
    LET found == parts \cap {"bucket", "storage"} # {}
        steps == config \/ parts \cap {"config", "storedConfig"} # {}
        bucket == (steps \/ found) /\ deleteBucket
        account == (steps \/ found) /\ deleteServiceAccount
    IN  /\ steps \/ ~found
        /\ \/ /\ OfGoogle
              /\ Begin(s, "delete", Google!Delete(steps, bucket, account),
                       Google!Taken(steps, bucket, account))
           \/ /\ ~OfGoogle
              /\ Begin(s, "delete", Aws!Delete(found, steps, bucket, account),
                       Aws!Taken(steps, bucket, account))
  BY DEF BeginDelete
<1> DEFINE found == parts \cap {"bucket", "storage"} # {}
           steps == config \/ parts \cap {"config", "storedConfig"} # {}
           bucket == (steps \/ found) /\ deleteBucket
           account == (steps \/ found) /\ deleteServiceAccount
<1>2. found \in BOOLEAN /\ steps \in BOOLEAN /\ bucket \in BOOLEAN /\ account \in BOOLEAN
  OBVIOUS
<1>3. \/ Begin(s, "delete", Google!Delete(steps, bucket, account),
                       Google!Taken(steps, bucket, account))
      \/ Begin(s, "delete", Aws!Delete(found, steps, bucket, account),
                       Aws!Taken(steps, bucket, account))
  BY <1>1
<1> HIDE DEF found, steps, bucket, account
<1> QED BY <1>2, <1>3

\* These delete all the session is to take.
LEMMA DeleteIsSeries ==
  ASSUME NEW s, BeginDelete(s)
  PROVE  \E calls, taken :
           /\ Series(calls) /\ Deleting(calls) /\ taken \subseteq Doomed(calls)
           /\ Begin(s, "delete", calls, taken)
<1>1. PICK found \in BOOLEAN, steps \in BOOLEAN, bucket \in BOOLEAN, account \in BOOLEAN :
        \/ Begin(s, "delete", Google!Delete(steps, bucket, account),
                 Google!Taken(steps, bucket, account))
        \/ Begin(s, "delete", Aws!Delete(found, steps, bucket, account),
                 Aws!Taken(steps, bucket, account))
  BY DeleteIs
<1>2. /\ Series(Google!Delete(steps, bucket, account))
      /\ Deleting(Google!Delete(steps, bucket, account))
      /\ Google!Taken(steps, bucket, account)
           \subseteq Doomed(Google!Delete(steps, bucket, account))
  BY GoogleDeletes, GoogleDoomed
<1>3. /\ Series(Aws!Delete(found, steps, bucket, account))
      /\ Deleting(Aws!Delete(found, steps, bucket, account))
      /\ Aws!Taken(steps, bucket, account)
           \subseteq Doomed(Aws!Delete(found, steps, bucket, account))
  BY AwsDeletes, AwsDoomed
<1> QED BY <1>1, <1>2, <1>3

\* What a delete that begins is to take is among what it deletes.
LEMMA DeleteBegins ==
  ASSUME AccountInv, DeleteInv, NEW s \in Sessions, BeginDelete(s)
  PROVE  /\ takes' \in [Sessions -> SUBSET scope]
         /\ Deleting(todo'[s])
         /\ takes'[s] \subseteq Doomed(todo'[s])
<1>1. PICK calls, taken :
        /\ Series(calls) /\ Deleting(calls) /\ taken \subseteq Doomed(calls)
        /\ Begin(s, "delete", calls, taken)
  BY DeleteIsSeries
<1>2. GoesOn(s, calls) /\ takes' = [takes EXCEPT ![s] = taken \cap scope]
  BY <1>1 DEF Begin
<1>3. takes' \in [Sessions -> SUBSET scope] /\ takes'[s] = taken \cap scope
  BY <1>2 DEF DeleteInv
<1>4. Deleting(todo'[s]) /\ Doomed(calls) \cap scope \subseteq Doomed(todo'[s])
  BY <1>1, <1>2, DeleteGoesOn DEF Series
<1> QED BY <1>1, <1>3, <1>4

\* A session begins: none that runs is alone any more, nor is it unless it is
\* the only one.
LEMMA BeginKeepsQuiet ==
  ASSUME AccountInv, DeleteInv, NEW s \in Sessions,
         BeginSetup(s) \/ BeginServiceAccount(s) \/ BeginDelete(s)
  PROVE  DeleteInv'
<1>1. PICK c, calls, taken : Begin(s, c, calls, taken) /\ c \in Commands
  <2>1. BeginSetup(s) => \E c, calls, taken : Begin(s, c, calls, taken)
    BY DEF BeginSetup
  <2>2. BeginServiceAccount(s) => \E c, calls, taken : Begin(s, c, calls, taken)
    BY DEF BeginServiceAccount
  <2>3. BeginDelete(s) => \E c, calls, taken : Begin(s, c, calls, taken)
    BY DEF BeginDelete
  <2>4. \A c, calls, taken : Begin(s, c, calls, taken) => c \in Commands
    BY DEF Begin
  <2> QED BY <2>1, <2>2, <2>3, <2>4
<1>2. /\ command[s] = "none" /\ command' = [command EXCEPT ![s] = c]
      /\ takes' = [takes EXCEPT ![s] = taken \cap scope]
      /\ overlapped' = [t \in Sessions |->
           CASE t = s -> {Kind(command[u]) : u \in Running}
             [] t \in Running -> overlapped[t] \cup {Kind(c)}
             [] OTHER -> {}]
      /\ UNCHANGED <<scope, parts, warned>>
      /\ command \in [Sessions -> Commands \cup {"none"}]
  BY <1>1 DEF Begin, AccountInv
<1>3. \A d \in Commands : d # "none" /\ Kind(d) \in {"setup", "account", "delete"}
  BY CommandsAssumption DEF AllCommands, Kind, Setups
<1>4. /\ command'[s] = c /\ \A t \in Sessions \ {s} : command'[t] = command[t]
      /\ s \notin Running /\ Running' = Running \cup {s}
  BY <1>1, <1>2, <1>3 DEF Running
<1>5. overlapped' \in [Sessions -> SUBSET {"setup", "account", "delete"}]
  <2>1. \A u \in Running : Kind(command[u]) \in {"setup", "account", "delete"}
    BY <1>2, <1>3 DEF Running
  <2>2. \A t \in Running : overlapped[t] \subseteq {"setup", "account", "delete"}
    BY DEF DeleteInv, Running
  <2>3. \A t \in Sessions : overlapped'[t] \subseteq {"setup", "account", "delete"}
    <3> SUFFICES ASSUME NEW t \in Sessions
                 PROVE  overlapped'[t] \subseteq {"setup", "account", "delete"}
      OBVIOUS
    <3>1. CASE t = s
      <4>1. overlapped'[t] = {Kind(command[u]) : u \in Running}
        BY <1>2, <1>4, <3>1
      <4> QED BY <4>1, <2>1
    <3>2. CASE t # s /\ t \in Running
      BY <1>1, <1>2, <1>3, <2>2, <3>2
    <3>3. CASE t # s /\ t \notin Running
      BY <1>2, <3>3
    <3> QED BY <3>1, <3>2, <3>3
  <2> QED BY <1>2, <2>3
<1>6. \A t \in Running \ {s} : overlapped'[t] # {}
  BY <1>2, <1>4 DEF Running
<1>7. overlapped'[s] = {} => Running = {}
  <2>1. overlapped'[s] = {Kind(command[u]) : u \in Running}
    BY <1>2, <1>4
  <2> QED BY <2>1
<1>8. \A t \in Running' : overlapped'[t] = {} => Running' = {t}
  BY <1>4, <1>6, <1>7
<1>9. takes' \in [Sessions -> SUBSET scope]
  BY <1>2 DEF DeleteInv
<1>10. ASSUME NEW t \in Sessions, Quiet(t)' PROVE Promising(t)'
  <2>1. t \in Running' /\ overlapped'[t] = {} /\ command'[t] = "delete"
    BY <1>10 DEF Quiet, Running
  <2>2. t = s /\ c = "delete"
    BY <2>1, <1>4, <1>6
  <2>3. BeginDelete(s)
    <3>1. command'[s] = "delete"
      BY <2>1, <2>2
    <3>2. ~BeginSetup(s) /\ ~BeginServiceAccount(s)
      BY <3>1, <1>2, Zenon DEF BeginSetup, BeginServiceAccount, Begin
    <3> QED BY <3>2
  <2> QED BY <2>2, <2>3, DeleteBegins DEF Promising
<1> QED BY <1>2, <1>5, <1>8, <1>9, <1>10, Zenon DEF DeleteInv

\* A step of a session that runs leaves the others as they were.
LEMMA StepKeepsQuiet ==
  ASSUME AccountInv, DeleteInv, NEW s \in Running,
         UNCHANGED <<scope, command, takes, overlapped>>,
         warned' \in [Sessions -> BOOLEAN],
         "bucket" \notin parts' => parts' \cap Contents("bucket") = {},
         Quiet(s)' => Promising(s)'
  PROVE  DeleteInv'
<1>1. Running' = Running
  BY DEF Running
<1>2. ASSUME NEW t \in Sessions, Quiet(t)' PROVE t = s
  <2>1. t \in Running /\ overlapped[t] = {}
    BY <1>2 DEF Quiet, Running
  <2> QED BY <2>1 DEF DeleteInv
<1>3. \A t \in Running' : overlapped'[t] = {} => Running' = {t}
  BY <1>1 DEF DeleteInv
<1>4. takes' \in [Sessions -> SUBSET scope'] 
      /\ overlapped' \in [Sessions -> SUBSET {"setup", "account", "delete"}]
  BY DEF DeleteInv
<1> QED BY <1>2, <1>3, <1>4 DEF DeleteInv

\* A delete goes on, and what it is to take is still to go or gone.
LEMMA StillPromising ==
  ASSUME AccountInv, DeleteInv, NEW s \in Sessions, NEW calls \in Seq(AnyCall),
         Tidy(calls), Deleting(calls), GoesOn(s, calls), UNCHANGED takes,
         \A p \in takes[s] : p \in Doomed(calls) \/ p \notin parts' \cup Prepared(calls)
  PROVE  Promising(s)'
<1>1. /\ Deleting(todo'[s])
      /\ Prepared(todo'[s]) \subseteq Prepared(calls)
      /\ Doomed(calls) \cap scope \subseteq Doomed(todo'[s])
  BY DeleteGoesOn
<1>2. takes[s] \subseteq scope
  BY DEF DeleteInv
<1> QED BY <1>1, <1>2 DEF Promising

\* The first call of a delete that has warned of nothing.
LEMMA QuietCall ==
  ASSUME AccountInv, DeleteInv, NEW s \in Sessions, Quiet(s), todo[s] # <<>>
  PROVE  /\ Call(s) = todo[s][1] /\ Tidy(todo[s]) /\ Deleting(todo[s])
         /\ todo[s] \in Seq(AnyCall)
         /\ Prepares(Call(s)) \/ Deletes(Call(s))
         /\ Tail(todo[s]) \in Seq(AnyCall) /\ Tidy(Tail(todo[s])) /\ Deleting(Tail(todo[s]))
         /\ Prepared(Tail(todo[s])) \subseteq Prepared(todo[s])
         /\ Prepares(Call(s)) => Call(s).part \in Prepared(todo[s])
         /\ Deletes(Call(s)) => Prepared(todo[s]) = {}
         /\ \A p \in Doomed(todo[s]) :
              \/ p \in Doomed(Tail(todo[s]))
              \/ Call(s).do = "try" /\ p \in GoesWith(Call(s).parts)
<1>1. Deleting(todo[s])
  BY DEF DeleteInv, Promising
<1>2. /\ todo[s] \in Seq(AnyCall) /\ Call(s) = todo[s][1] /\ Ready(todo[s])
      /\ Len(todo[s]) \in Nat \ {0}
      /\ Tail(todo[s]) \in Seq(AnyCall) /\ Tidy(Tail(todo[s]))
      /\ Call(s).do # "make" => Tidy(todo[s])
  BY FirstCall DEF AccountInv
<1>3. Tidy(todo[s])
  <2>1. ASSUME NEW o \in Aws!Owners, Begun(todo[s], o) PROVE FALSE
    <3>1. Call(s).do = "make" /\ Call(s).part = o
      BY <1>2, <2>1 DEF Begun, Make
    <3>2. Prepares(Call(s)) \/ Deletes(Call(s))
      BY <1>1, <1>2 DEF Deleting
    <3> QED BY <3>1, <3>2 DEF Prepares, Deletes
  <2> QED BY <2>1, <1>2 DEF Ready
<1> QED BY <1>1, <1>2, <1>3, DeletingTail

\* A series of one call that is not the make of an owner of parts is tidy.
LEMMA TidyMake ==
  ASSUME NEW c, c.do = "make", c.part \notin Aws!Owners
  PROVE  Tidy(<<c>>)
<1> DEFINE u == <<c>>
<1>1. Len(u) = 1 /\ \A i \in 1..Len(u) : u[i] = c
  OBVIOUS
<1> HIDE DEF u
<1>2. \A i \in 1..Len(u) : u[i].do = "make" /\ u[i].part \notin Aws!Owners
  BY <1>1
<1>3. Tidy(u)
  BY <1>1, <1>2 DEF Tidy, Deletes
<1> QED BY <1>3 DEF u

LEMMA QuietLook ==
  ASSUME AccountInv, DeleteInv, NEW s \in Sessions, LookUp(s), Quiet(s)
  PROVE  Promising(s)'
<1>1. /\ todo[s] # <<>> /\ Call(s).do = "look" /\ UNCHANGED <<scope, parts, takes>>
  BY DEF LookUp, Calls
<1> DEFINE x == Call(s).part
           q == todo[s]
           calls == (IF x \in parts THEN Call(s).found ELSE Call(s).missing) \o Tail(q)
<1>2. GoesOn(s, calls)
  BY DEF LookUp
<1>3. /\ Prepares(Call(s)) /\ Call(s) \in AnyCall
      /\ Call(s).found = <<>> /\ Call(s).missing = <<Make(x)>> /\ x \notin Aws!Owners
      /\ x \in Prepared(q)
  BY <1>1, QuietCall, FirstCall DEF Prepares, Deletes, AccountInv
<1>4. /\ q \in Seq(AnyCall) /\ q # <<>> /\ Tidy(q) /\ Deleting(q)
      /\ Tail(q) \in Seq(AnyCall) /\ Tidy(Tail(q)) /\ Deleting(Tail(q))
      /\ Prepared(Tail(q)) \subseteq Prepared(q)
      /\ Doomed(q) \subseteq Doomed(Tail(q))
  BY <1>1, QuietCall
<1>5. \A p \in takes[s] : p \in Doomed(q) \/ p \notin parts \cup Prepared(q)
  BY DEF DeleteInv, Promising
<1> HIDE DEF q, x
<1>6. CASE x \in parts
  <2>1. calls = Tail(q)
    BY <1>3, <1>4, <1>6
  <2> HIDE DEF calls
  <2>2. \A p \in takes[s] : p \in Doomed(calls) \/ p \notin parts' \cup Prepared(calls)
    BY <1>1, <1>4, <1>5, <2>1
  <2> QED BY <1>1, <1>2, <1>4, <2>1, <2>2, StillPromising, Zenon
<1>7. CASE x \notin parts
  <2> DEFINE c == Make(x)
  <2>1. calls = <<c>> \o Tail(q)
    BY <1>3, <1>7
  <2>2. c.do = "make" /\ c.part = x /\ c \in AnyCall
    <3>1. x \in Part
      BY <1>1, <1>3 DEF x, AnyCall, Calls1, SimpleCalls, LooksFor
    <3> QED BY <3>1, SimpleOnes, MoreCalls DEF Make
  <2> HIDE DEF calls, c
  <2>3. calls \in Seq(AnyCall) /\ Tidy(calls)
    <3> DEFINE u == <<c>>
    <3>1. u \in Seq(AnyCall)
      BY <2>2
    <3>2. Tidy(u)
      BY <1>3, <2>2, TidyMake
    <3>3. calls = u \o Tail(q)
      BY <2>1
    <3> HIDE DEF u
    <3>4. calls \in Seq(AnyCall)
      BY <1>4, <3>1, <3>3
    <3> QED BY <1>4, <3>1, <3>2, <3>3, <3>4, TidyConcat, Zenon
  <2>4. /\ Deleting(calls)
        /\ Prepared(calls) \subseteq Prepared(Tail(q)) \cup {x}
        /\ Doomed(Tail(q)) \subseteq Doomed(calls)
    BY <1>3, <1>4, <2>1, <2>2, DeletingLook
  <2>5. \A p \in takes[s] : p \in Doomed(calls) \/ p \notin parts' \cup Prepared(calls)
    BY <1>1, <1>3, <1>4, <1>5, <2>4
  <2> QED BY <1>1, <1>2, <2>3, <2>4, <2>5, StillPromising
<1> QED BY <1>6, <1>7

LEMMA QuietMake ==
  ASSUME AccountInv, DeleteInv, NEW s \in Sessions, MakePart(s), Quiet(s)
  PROVE  Promising(s)'
<1> DEFINE x == Call(s).part
           q == todo[s]
<1>1. /\ q # <<>> /\ Call(s).do = "make" /\ UNCHANGED <<scope, takes>>
      /\ parts' = parts \cup {x} \cup MadeWith(s, x)
  BY DEF MakePart, Calls
<1>2. MadeWith(s, x) = {}
  BY DEF MadeWith, Quiet
<1>3. /\ q \in Seq(AnyCall) /\ Len(q) \in Nat \ {0}
      /\ Tail(q) \in Seq(AnyCall) /\ Tidy(Tail(q)) /\ Deleting(Tail(q))
      /\ Prepared(Tail(q)) \subseteq Prepared(q)
      /\ Doomed(q) \subseteq Doomed(Tail(q))
      /\ x \in Prepared(q) /\ x \notin Aws!Owners
  BY <1>1, QuietCall, FirstCall, Zenon DEF Prepares, Deletes, AccountInv
<1>4. GoesOn(s, Tail(q))
  <2>1. GoesOn(s, Skip(q, IF x = "bucket" /\ x \in parts THEN 2 ELSE 0))
    BY DEF MakePart
  <2>2. x # "bucket"
    BY <1>3, AwsOwners
  <2>3. Skip(q, 0) = Tail(q)
    BY <1>3, <1>1 DEF Skip
  <2> QED BY <2>1, <2>2, <2>3
<1>5. \A p \in takes[s] : p \in Doomed(q) \/ p \notin parts \cup Prepared(q)
  BY DEF DeleteInv, Promising
<1>6. \A p \in takes[s] : p \in Doomed(Tail(q)) \/ p \notin parts' \cup Prepared(Tail(q))
  BY <1>1, <1>2, <1>3, <1>5
<1> QED BY <1>1, <1>3, <1>4, <1>6, StillPromising, Zenon

LEMMA QuietRemove ==
  ASSUME AccountInv, DeleteInv, NEW s \in Sessions, RemovePart(s), Quiet(s)
  PROVE  Promising(s)'
<1> DEFINE q == todo[s]
           gone == Call(s).parts \cup UNION {Contents(p) : p \in Call(s).parts}
<1>1. /\ q # <<>> /\ Call(s).do \in {"remove", "try"} /\ UNCHANGED <<scope, takes>>
      /\ parts' = parts \ gone /\ GoesOn(s, Tail(q))
  BY DEF RemovePart, Calls, Delete1
<1>2. /\ Tail(q) \in Seq(AnyCall) /\ Tidy(Tail(q)) /\ Deleting(Tail(q))
      /\ Prepared(Tail(q)) = {}
      /\ \A p \in Doomed(q) : p \in Doomed(Tail(q)) \/ p \in gone
  BY <1>1, QuietCall, Zenon DEF Prepares, Deletes, GoesWith
<1>3. \A p \in takes[s] : p \in Doomed(q) \/ p \notin parts
  BY DEF DeleteInv, Promising
<1>4. \A p \in takes[s] : p \in Doomed(Tail(q)) \/ p \notin parts' \cup Prepared(Tail(q))
  BY <1>1, <1>2, <1>3
<1> QED BY <1>1, <1>2, <1>4, StillPromising, Zenon

LEMMA QuietTruncate ==
  ASSUME AccountInv, DeleteInv, NEW s \in Sessions, TruncateBucket(s), Quiet(s)
  PROVE  Promising(s)'
<1> DEFINE q == todo[s]
<1>1. /\ q # <<>> /\ Call(s).do = "truncate" /\ UNCHANGED <<scope, takes>>
      /\ parts' \subseteq parts
      /\ \/ GoesOn(s, Tail(q))
         \/ "bucket" \notin parts /\ GoesOn(s, Skip(q, Call(s).skips))
  BY Zenon DEF TruncateBucket, Calls, Truncated, Delete1
<1>2. /\ q \in Seq(AnyCall) /\ Tidy(q) /\ Deleting(q) /\ Deletes(Call(s))
      /\ Tail(q) \in Seq(AnyCall) /\ Tidy(Tail(q)) /\ Deleting(Tail(q))
      /\ Prepared(Tail(q)) \subseteq {} /\ Prepared(q) = {}
      /\ Doomed(q) \subseteq Doomed(Tail(q))
      /\ Call(s) = q[1] /\ Len(q) \in Nat \ {0} /\ Call(s) \in AnyCall
  BY <1>1, QuietCall, FirstCall, Zenon DEF Deletes, AccountInv
<1>3. \A p \in takes[s] : p \in Doomed(q) \/ p \notin parts
  BY DEF DeleteInv, Promising
<1>4. CASE GoesOn(s, Tail(q))
  <2>1. \A p \in takes[s] : p \in Doomed(Tail(q)) \/ p \notin parts' \cup Prepared(Tail(q))
    BY <1>1, <1>2, <1>3
  <2> QED BY <1>1, <1>2, <1>4, <2>1, StillPromising, Zenon
<1>5. CASE "bucket" \notin parts /\ GoesOn(s, Skip(q, Call(s).skips))
  <2> DEFINE n == Call(s).skips + 1
             r == SubSeq(q, n + 1, Len(q))
  <2>1. Call(s).skips \in Nat
    BY <1>1, <1>2 DEF AnyCall, Calls1, SimpleCalls, LooksFor
  <2>2. n \in 0..Len(q)
    <3>1. \A j \in 1..Call(s).skips : 1 + j <= Len(q)
      BY <1>2 DEF Tidy
    <3> QED BY <3>1, <2>1, <1>2
  <2>3. Skip(q, Call(s).skips) = r
    <3>1. n + 1 = Call(s).skips + 2
      BY <2>1
    <3> QED BY <3>1, Zenon DEF Skip
  <2>4. \A i \in 1..n : q[i].do = "try" => q[i].parts = {"bucket"}
    <3> SUFFICES ASSUME NEW i \in 1..n, q[i].do = "try" PROVE q[i].parts = {"bucket"}
      OBVIOUS
    <3>1. i # 1
      BY <1>1, <1>2
    <3>2. i - 1 \in 1..Call(s).skips /\ 1 + (i - 1) = i
      BY <2>1, <3>1
    <3>3. EmptiesBucket(q[1 + (i - 1)])
      BY <1>1, <1>2, <3>2 DEF Deleting
    <3>4. EmptiesBucket(q[i])
      BY <3>2, <3>3
    <3> QED BY <3>4 DEF EmptiesBucket
  <2> HIDE DEF n
  <2>5. /\ r \in Seq(AnyCall) /\ Tidy(r) /\ Deleting(r)
        /\ Prepared(r) \subseteq Prepared(q)
        /\ \A p \in Doomed(q) :
             (\A i \in 1..n : q[i].do = "try" => p \notin GoesWith(q[i].parts))
                => p \in Doomed(r)
    BY <1>2, <2>2, SuffixIs, TidySuffix, DeletingSuffix, Zenon
  <2> HIDE DEF r
  <2>6. \A p \in GoesWith({"bucket"}) : p \notin parts
    BY <1>5 DEF DeleteInv, GoesWith
  <2>7. \A p \in takes[s] : p \in Doomed(r) \/ p \notin parts' \cup Prepared(r)
    <3> SUFFICES ASSUME NEW p \in takes[s], p \in parts PROVE p \in Doomed(r)
      BY <1>1, <1>2, <2>5
    <3>1. p \in Doomed(q)
      BY <1>3
    <3>2. \A i \in 1..n : q[i].do = "try" => p \notin GoesWith(q[i].parts)
      BY <2>4, <2>6, Zenon
    <3> QED BY <2>5, <3>1, <3>2
  <2> QED BY <1>1, <1>5, <2>3, <2>5, <2>7, StillPromising
<1> QED BY <1>1, <1>4, <1>5

\* What is in the bucket is gone when the bucket is.
BucketHolds == "bucket" \notin parts => parts \cap Contents("bucket") = {}

LEMMA BucketContents ==
  /\ Contents("bucket") = {"tags", "versioning", "lifecycle", "sslPolicy", "dummyZip", "config"}
  /\ \A p \in Contents("bucket") : Needs(p) = {"bucket"}
  /\ \A p : "bucket" \notin Contents(p)
<1>1. Contents("bucket") = {"tags", "versioning", "lifecycle", "sslPolicy", "dummyZip", "config"}
  BY GoogleOwners DEF Contents, Aws!Contents, Google!Contents, Aws!BucketParts
<1>2. \A p \in Contents("bucket") : Needs(p) = {"bucket"}
  BY <1>1 DEF Needs, Aws!Needs, Google!Needs, Aws!BucketParts, Google!ServiceAccountParts
<1>3. \A p : "bucket" \notin Contents(p)
  <2> SUFFICES ASSUME NEW p PROVE "bucket" \notin Contents(p)
    OBVIOUS
  <2>1. "bucket" \notin Aws!Contents(p)
    BY DEF Aws!Contents, Aws!BucketParts
  <2>2. "bucket" \notin Google!Contents(p)
    <3>1. \A t \in DOMAIN Google!With : "bucket" \notin Google!With[t]
      BY GoogleOwners DEF Google!With
    <3> QED BY <3>1 DEF Google!Contents, Google!AgentParts, Google!ServiceAccountParts
  <2> QED BY <2>1, <2>2 DEF Contents
<1> QED BY <1>1, <1>2, <1>3

LEMMA BucketHeld ==
  ASSUME AccountInv, BucketHolds, NEW s \in Sessions,
         MakePart(s) \/ RemovePart(s) \/ RemovalFails(s) \/ TruncateBucket(s)
         \/ TruncateFails(s)
  PROVE  BucketHolds'
<1>1. ASSUME NEW gone, Delete1(gone), "bucket" \in gone => Contents("bucket") \subseteq gone
      PROVE  BucketHolds'
  BY <1>1 DEF Delete1, BucketHolds
<1>2. CASE MakePart(s)
  <2>1. /\ Needs(Call(s).part) \subseteq parts
        /\ parts' = parts \cup {Call(s).part} \cup MadeWith(s, Call(s).part)
    BY <1>2 DEF MakePart
  <2>2. MadeWith(s, Call(s).part) \cap Contents("bucket") = {}
    <3>1. \A t \in DOMAIN Google!With : Google!With[t] \cap Contents("bucket") = {}
      BY GoogleOwners, BucketContents DEF Google!With
    <3> QED BY <3>1 DEF MadeWith, WithPart
  <2> QED BY <2>1, <2>2, BucketContents DEF BucketHolds
<1>3. ASSUME todo[s] # <<>>, Call(s).do \in {"remove", "try"}
      PROVE  Call(s).parts \in Together
  <2>1. Call(s) \in AnyCall
    BY <1>3, FirstCall DEF AccountInv
  <2> QED BY <1>3, <2>1 DEF AnyCall, Calls1, SimpleCalls, LooksFor
<1>4. CASE RemovePart(s)
  <2> DEFINE gone == Call(s).parts \cup UNION {Contents(p) : p \in Call(s).parts}
  <2>1. Delete1(gone) /\ Call(s).parts \in Together
    BY <1>3, <1>4 DEF RemovePart, Calls
  <2>2. "bucket" \in gone => "bucket" \in Call(s).parts
    BY BucketContents
  <2>3. "bucket" \in gone => Contents("bucket") \subseteq gone
    BY <2>2
  <2> HIDE DEF gone
  <2> QED BY <1>1, <2>1, <2>3
<1>5. CASE RemovalFails(s)
  <2>1. Call(s).parts \in Together
    BY <1>3, <1>5 DEF RemovalFails, Calls
  <2>2. PICK gone \in SUBSET Call(s).parts : gone # Call(s).parts /\ Delete1(gone)
    BY <1>5 DEF RemovalFails
  <2>3. "bucket" \notin gone
    BY <2>1, <2>2 DEF Together
  <2> QED BY <1>1, <2>2, <2>3
<1>6. CASE TruncateBucket(s) \/ TruncateFails(s)
  <2>1. \/ \E gone \in SUBSET {"dummyZip", "config"} : Delete1(gone)
        \/ UNCHANGED parts
    BY <1>6 DEF TruncateBucket, TruncateFails, Truncated
  <2>2. ASSUME NEW gone \in SUBSET {"dummyZip", "config"}, Delete1(gone) PROVE BucketHolds'
    BY <1>1, <2>2
  <2> QED BY <2>1, <2>2 DEF BucketHolds
<1> QED BY <1>2, <1>4, <1>5, <1>6

\* A session goes on.
LEMMA CallsKeepQuiet ==
  ASSUME AccountInv, DeleteInv, NEW s \in Sessions,
         \/ LookUp(s) \/ MakePart(s) \/ UpdateSAPolicy(s)
         \/ RemovePart(s) \/ RemovalRefused(s) \/ RemovalFails(s)
         \/ TruncateBucket(s) \/ TruncateFails(s)
  PROVE  DeleteInv'
<1>1. /\ todo[s] # <<>> /\ UNCHANGED <<scope, command, takes, overlapped>>
      /\ warned' = warned \/ warned' = [warned EXCEPT ![s] = TRUE]
  BY DEF LookUp, MakePart, UpdateSAPolicy, RemovePart, RemovalRefused, RemovalFails,
         TruncateBucket, TruncateFails, Calls
<1>2. s \in Running
  BY <1>1 DEF AccountInv, CallsOK, Running
<1>3. warned' \in [Sessions -> BOOLEAN]
  BY <1>1, Zenon DEF DeleteInv
<1>4. BucketHolds'
  <2>1. BucketHolds
    BY DEF DeleteInv, BucketHolds
  <2>2. LookUp(s) \/ UpdateSAPolicy(s) \/ RemovalRefused(s) => UNCHANGED parts
    BY DEF LookUp, UpdateSAPolicy, RemovalRefused
  <2> QED BY <2>1, <2>2, BucketHeld DEF BucketHolds
<1>5. ASSUME Quiet(s)' PROVE Promising(s)'
  <2>1. ~warned'[s] /\ Quiet(s)
    BY <1>1, <1>5 DEF Quiet, DeleteInv
  <2>2. ~RemovalRefused(s) /\ ~RemovalFails(s) /\ ~TruncateFails(s)
    BY <2>1 DEF RemovalRefused, RemovalFails, TruncateFails, DeleteInv
  <2>3. ~UpdateSAPolicy(s)
    <3>1. Prepares(Call(s)) \/ Deletes(Call(s))
      BY <1>1, <2>1, QuietCall
    <3> QED BY <3>1 DEF UpdateSAPolicy, Calls, Prepares, Deletes
  <2> QED BY <2>1, <2>2, <2>3, QuietLook, QuietMake, QuietRemove, QuietTruncate
<1> QED BY <1>1, <1>2, <1>3, <1>4, <1>5, StepKeepsQuiet DEF BucketHolds

LEMMA EndKeepsQuiet ==
  ASSUME AccountInv, DeleteInv, NEW s \in Sessions,
         End(s) \/ BreaksOff(s) \/ Collides(s) \/ UpdateCollides(s)
  PROVE  DeleteInv'
<1>1. /\ Ends(s) /\ UNCHANGED <<scope, parts>> /\ s \in Running
  <2>1. todo[s] # <<>> => command[s] # "none"
    BY DEF AccountInv, CallsOK
  <2> QED BY <2>1 DEF End, BreaksOff, Collides, UpdateCollides, Calls, Running
<1>2. /\ command' = [command EXCEPT ![s] = "none"]
      /\ takes' = [takes EXCEPT ![s] = {}]
      /\ warned' = [warned EXCEPT ![s] = FALSE]
      /\ overlapped' = [overlapped EXCEPT ![s] = {}]
      /\ command \in [Sessions -> Commands \cup {"none"}]
  BY <1>1 DEF Ends, Forgotten, AccountInv
<1>3. ASSUME NEW t \in Running', overlapped'[t] = {} PROVE FALSE
  <2>1. t \in Sessions /\ t # s /\ t \in Running /\ overlapped[t] = {}
    BY <1>2, <1>3 DEF Running, DeleteInv
  <2>2. Running = {t}
    BY <2>1 DEF DeleteInv
  <2> QED BY <1>1, <2>1, <2>2
<1>4. \A t \in Sessions : ~Quiet(t)'
  BY <1>3 DEF Quiet, Running
<1>5. /\ takes' \in [Sessions -> SUBSET scope'] /\ warned' \in [Sessions -> BOOLEAN]
      /\ overlapped' \in [Sessions -> SUBSET {"setup", "account", "delete"}]
  BY <1>1, <1>2 DEF DeleteInv
<1> QED BY <1>1, <1>3, <1>4, <1>5 DEF DeleteInv

LEMMA DeleteInit == Init => DeleteInv
BY DEF Init, DeleteInv, Running, Quiet

LEMMA DeleteInductive ==
  ASSUME AccountInv, DeleteInv, [Next]_vars
  PROVE  DeleteInv'
<1>1. ASSUME UNCHANGED <<scope, parts, command, todo, takes, warned, overlapped>>
      PROVE  DeleteInv'
  BY <1>1 DEF DeleteInv, Running, Quiet, Promising
<1>2. CASE FilesChange
  BY <1>1, <1>2 DEF FilesChange
<1>3. ASSUME NEW s \in Sessions, SessionStep(s) PROVE DeleteInv'
  BY <1>3, BeginKeepsQuiet, CallsKeepQuiet, EndKeepsQuiet DEF SessionStep
<1>4. CASE UNCHANGED vars
  BY <1>1, <1>4 DEF vars
<1> QED BY <1>2, <1>3, <1>4 DEF Next

\* A delete that warned of nothing, with no other session at its side, leaves
\* nothing but what its flags spare: whatever it is to take and has not deleted
\* is among the deletions to come, or gone and not made again (DeleteResources).
THEOREM QuietDeleteTakesAll == Spec => []DeleteLeavesNothing
<1>1. AccountInv /\ DeleteInv => DeleteLeavesNothing
  <2> SUFFICES ASSUME AccountInv, DeleteInv, NEW s \in Sessions, Through(s), Quiet(s),
                      NEW p \in takes[s]
               PROVE  p \notin parts
    BY DEF DeleteLeavesNothing, Quiet
  <2>1. Doomed(todo[s]) = {}
    BY DEF Through, Doomed
  <2> QED BY <2>1 DEF DeleteInv, Promising
<1>2. Init => AccountInv /\ DeleteInv
  BY AccountInit, DeleteInit
<1>3. AccountInv /\ DeleteInv /\ [Next]_vars => (AccountInv /\ DeleteInv)'
  BY AccountInductive, DeleteInductive
<1> QED BY <1>1, <1>2, <1>3, PTL DEF Spec

(***************************************************************************)
(* Setups                                                                  *)
(***************************************************************************)
\* What a part that is there stands for: itself, and of its family what no
\* setup repairs.
StandsFor(x) == {x} \cup (IF x \in Owners THEN Family[x] \ Repaired ELSE {})

\* Is q looked for wherever p is?
ComesWith(p, q) == \A S \in Scopes : p \in S => q \in S

\* Does a call end with a part there that stands for p, whatever its looks
\* find?  Of a simple call, of one with looks for simple ones, of any.
Sees0(c, p) == c.do = "make" /\ p \in StandsFor(c.part)
Sees1(c, p) ==
    \/ Sees0(c, p)
    \/ /\ c.do = "look" /\ ComesWith(p, c.part)
       /\ \E i \in 1..Len(c.missing) : Sees0(c.missing[i], p)
       /\ p \in StandsFor(c.part) \/ \E i \in 1..Len(c.found) : Sees0(c.found[i], p)
SeesTo(c, p) ==
    \/ Sees0(c, p)
    \/ /\ c.do = "look" /\ ComesWith(p, c.part)
       /\ \E i \in 1..Len(c.missing) : Sees1(c.missing[i], p)
       /\ p \in StandsFor(c.part) \/ \E i \in 1..Len(c.found) : Sees1(c.found[i], p)

Supplies(q, p) == \E i \in 1..Len(q) : SeesTo(q[i], p)

\* Does it delete nothing but parts of R?
Spares0(c, R) ==
    /\ c.do # "truncate"
    /\ c.do \in {"remove", "try"} => GoesWith(c.parts) \subseteq R
Spares1(c, R) ==
    /\ Spares0(c, R)
    /\ c.do = "look" =>
         /\ \A i \in 1..Len(c.missing) : Spares0(c.missing[i], R)
         /\ \A i \in 1..Len(c.found) : Spares0(c.found[i], R)
Spares(c, R) ==
    /\ Spares0(c, R)
    /\ c.do = "look" =>
         /\ \A i \in 1..Len(c.missing) : Spares1(c.missing[i], R)
         /\ \A i \in 1..Len(c.found) : Spares1(c.found[i], R)

DeletesOnly(q, R) == \A i \in 1..Len(q) : Spares(q[i], R)

\* What a setup is for of the parts looked at.
Wanted(s) == Promised(command[s], takes[s] \cap Schedules = {}) \cap scope

ServiceAccounts == Aws!ServiceAccountParts \cup Google!ServiceAccountParts

\* What a session that is no delete may delete.
Careful(s) ==
    /\ command[s] \in Setups => DeletesOnly(todo[s], Schedules \ Wanted(s))
    /\ Kind(command[s]) = "account" => DeletesOnly(todo[s], ServiceAccounts)

\* All a setup is for is there, or about to be made; but for a schedule that
\* another setup deletes.
Supplied(s) ==
    \A p \in Wanted(s) :
       \/ \E x \in parts : p \in StandsFor(x)
       \/ Supplies(todo[s], p)
       \/ p \in Schedules /\ "setup" \in overlapped[s]

SetupInv ==
    /\ \A s, t \in Running : s # t => Kind(command[t]) \in overlapped[s]
    /\ \A s \in Running : Careful(s)
    /\ \A s \in Running :
         command[s] \in Setups /\ "delete" \notin overlapped[s] => Supplied(s)

-----------------------------------------------------------------------------
LEMMA SeesMore == \A c, p : Sees1(c, p) => SeesTo(c, p)
BY DEF Sees0, Sees1, SeesTo

LEMMA SparesMore ==
  ASSUME NEW c \in Calls1, NEW R, Spares1(c, R)
  PROVE  Spares(c, R)
<1> SUFFICES ASSUME c.do = "look"
             PROVE  /\ \A i \in 1..Len(c.missing) : Spares1(c.missing[i], R)
                    /\ \A i \in 1..Len(c.found) : Spares1(c.found[i], R)
  BY DEF Spares, Spares1
<1>1. c \in LooksFor(SimpleCalls)
  BY DEF Calls1, SimpleCalls
<1>2. \A d \in SimpleCalls : Spares0(d, R) => Spares1(d, R)
  BY DEF SimpleCalls, Spares1
<1>3. c.missing \in Seq(SimpleCalls) /\ c.found \in Seq(SimpleCalls)
  BY <1>1 DEF LooksFor
<1>4. /\ \A i \in 1..Len(c.missing) : c.missing[i] \in SimpleCalls
      /\ \A i \in 1..Len(c.found) : c.found[i] \in SimpleCalls
  BY <1>3
<1> QED BY <1>2, <1>4, Zenon DEF Spares1

\* A call that is left out sees to no part of the scope.
LEMMA LeftOutSees ==
  ASSUME AccountInv, NEW c, ~InScope(c), NEW p \in scope
  PROVE  ~SeesTo(c, p)
<1>1. /\ \A o \in Owners : Family[o] \cap scope # {} => o \in scope
      /\ scope \in Scopes
  BY ScopesAssumption DEF AccountInv
<1>2. \A x : p \in StandsFor(x) => x \in scope
  BY <1>1 DEF StandsFor
<1>3. CASE Sees0(c, p)
  BY <1>2, <1>3 DEF Sees0, InScope
<1>4. CASE c.do = "look" /\ ComesWith(p, c.part)
  BY <1>1, <1>4 DEF ComesWith, InScope
<1> QED BY <1>3, <1>4 DEF SeesTo

LEMMA SuppliesSuffix ==
  ASSUME NEW S, NEW q \in Seq(S), NEW n \in 0..Len(q), NEW p,
         Supplies(q, p), \A i \in 1..n : ~SeesTo(q[i], p)
  PROVE  Supplies(SubSeq(q, n + 1, Len(q)), p)
<1> DEFINE r == SubSeq(q, n + 1, Len(q))
<1>1. Len(r) = Len(q) - n /\ \A i \in 1..(Len(q) - n) : r[i] = q[n + i]
  BY SuffixIs
<1> HIDE DEF r
<1>2. PICK i \in 1..Len(q) : SeesTo(q[i], p)
  BY DEF Supplies
<1>3. Len(q) \in Nat /\ n \in Nat
  OBVIOUS
<1>4. i - n \in 1..Len(r) /\ n + (i - n) = i
  BY <1>1, <1>2, <1>3
<1>5. r[i - n] = q[i]
  BY <1>1, <1>4
<1>6. Supplies(r, p)
  BY <1>2, <1>4, <1>5 DEF Supplies
<1> QED BY <1>6 DEF r

LEMMA DeletesOnlySuffix ==
  ASSUME NEW S, NEW q \in Seq(S), NEW n \in 0..Len(q), NEW R, DeletesOnly(q, R)
  PROVE  DeletesOnly(SubSeq(q, n + 1, Len(q)), R)
<1> DEFINE r == SubSeq(q, n + 1, Len(q))
<1>1. Len(r) = Len(q) - n /\ \A i \in 1..(Len(q) - n) : r[i] = q[n + i]
  BY SuffixIs
<1> HIDE DEF r
<1>2. Len(q) \in Nat /\ n \in Nat
  OBVIOUS
<1>3. \A i \in 1..Len(r) : n + i \in 1..Len(q) /\ r[i] = q[n + i]
  BY <1>1, <1>2
<1>4. DeletesOnly(r, R)
  BY <1>3 DEF DeletesOnly
<1> QED BY <1>4 DEF r

LEMMA SuppliesConcat ==
  ASSUME NEW S, NEW q \in Seq(S), NEW r \in Seq(S)
  PROVE  /\ \A p : Supplies(q \o r, p) <=> Supplies(q, p) \/ Supplies(r, p)
         /\ \A R : DeletesOnly(q \o r, R) <=> DeletesOnly(q, R) /\ DeletesOnly(r, R)
<1> DEFINE t == q \o r
<1>1. /\ Len(t) = Len(q) + Len(r) /\ Len(q) \in Nat /\ Len(r) \in Nat
      /\ \A i \in 1..Len(q) : t[i] = q[i]
      /\ \A i \in 1..Len(r) : t[Len(q) + i] = r[i]
      /\ \A i \in (Len(q) + 1)..(Len(q) + Len(r)) : t[i] = r[i - Len(q)]
  BY ConcatIs
<1> HIDE DEF t
<1>2. /\ \A i \in 1..Len(q) : i \in 1..Len(t)
      /\ \A i \in 1..Len(r) : Len(q) + i \in 1..Len(t)
      /\ \A i \in 1..Len(t) : i \in 1..Len(q) \/ (i - Len(q) \in 1..Len(r) /\ t[i] = r[i - Len(q)])
  BY <1>1
<1>3. \A p : Supplies(t, p) <=> Supplies(q, p) \/ Supplies(r, p)
  <2> TAKE p
  <2>1. Supplies(q, p) => Supplies(t, p)
    BY <1>1, <1>2 DEF Supplies
  <2>2. Supplies(r, p) => Supplies(t, p)
    BY <1>1, <1>2, Zenon DEF Supplies
  <2>3. Supplies(t, p) => Supplies(q, p) \/ Supplies(r, p)
    BY <1>1, <1>2, Zenon DEF Supplies
  <2> QED BY <2>1, <2>2, <2>3
<1>4. \A R : DeletesOnly(t, R) <=> DeletesOnly(q, R) /\ DeletesOnly(r, R)
  <2> TAKE R
  <2>1. DeletesOnly(t, R) => DeletesOnly(q, R)
    BY <1>1, <1>2 DEF DeletesOnly
  <2>2. DeletesOnly(t, R) => DeletesOnly(r, R)
    BY <1>1, <1>2 DEF DeletesOnly
  <2>3. DeletesOnly(q, R) /\ DeletesOnly(r, R) => DeletesOnly(t, R)
    BY <1>1, <1>2 DEF DeletesOnly
  <2> QED BY <2>1, <2>2, <2>3
<1> QED BY <1>3, <1>4 DEF t

\* The first call and the rest.
LEMMA SuppliesTail ==
  ASSUME NEW S, NEW q \in Seq(S), q # <<>>
  PROVE  /\ \A p : Supplies(q, p) => SeesTo(q[1], p) \/ Supplies(Tail(q), p)
         /\ \A R : DeletesOnly(q, R) => Spares(q[1], R) /\ DeletesOnly(Tail(q), R)
<1>1. 1 \in 0..Len(q) /\ Tail(q) = SubSeq(q, 1 + 1, Len(q)) /\ 1 \in 1..Len(q)
  BY TailIs
<1>2. ASSUME NEW p, Supplies(q, p), ~SeesTo(q[1], p) PROVE Supplies(Tail(q), p)
  <2>1. \A i \in 1..1 : ~SeesTo(q[i], p)
    BY <1>2
  <2> QED BY <1>1, <1>2, <2>1, SuppliesSuffix, Zenon
<1>3. ASSUME NEW R, DeletesOnly(q, R) PROVE Spares(q[1], R) /\ DeletesOnly(Tail(q), R)
  <2>1. Spares(q[1], R)
    BY <1>1, <1>3 DEF DeletesOnly
  <2> QED BY <1>1, <1>3, <2>1, DeletesOnlySuffix, Zenon
<1> QED BY <1>2, <1>3

\* A session goes on with calls, those left out being about other parts.
LEMMA SuppliesGoOn ==
  ASSUME AccountInv, NEW s \in Sessions, NEW calls \in Seq(AnyCall), GoesOn(s, calls)
  PROVE  /\ \A p \in scope : Supplies(calls, p) => Supplies(todo'[s], p)
         /\ \A R : DeletesOnly(calls, R) => DeletesOnly(todo'[s], R)
<1>1. PICK n \in 0..Len(calls) :
        /\ \A i \in 1..n : ~InScope(calls[i])
        /\ todo' = [todo EXCEPT ![s] = SubSeq(calls, n + 1, Len(calls))]
  BY Zenon DEF GoesOn
<1> DEFINE r == SubSeq(calls, n + 1, Len(calls))
<1>2. \A p \in scope : Supplies(calls, p) => Supplies(r, p)
  <2> SUFFICES ASSUME NEW p \in scope, Supplies(calls, p) PROVE Supplies(r, p)
    OBVIOUS
  <2>1. \A i \in 1..n : ~SeesTo(calls[i], p)
    BY <1>1, LeftOutSees
  <2> QED BY <2>1, SuppliesSuffix
<1>3. \A R : DeletesOnly(calls, R) => DeletesOnly(r, R)
  BY DeletesOnlySuffix
<1> HIDE DEF r
<1>4. todo'[s] = r
  BY <1>1 DEF r, AccountInv, CallsOK
<1> QED BY <1>2, <1>3, <1>4

-----------------------------------------------------------------------------
LEMMA StandFor ==
  /\ \A x : x \in StandsFor(x)
  /\ \A x : x \notin Owners => StandsFor(x) = {x}
  /\ StandsFor("bucket") = {"bucket", "tags", "versioning", "dummyZip"}
  /\ StandsFor("buildRole") = {"buildRole", "buildAdmin", "buildPolicy", "buildAttached"}
  /\ StandsFor("pipelineRole") = {"pipelineRole", "pipelinePolicy", "pipelineAttached"}
  /\ StandsFor("scheduleRole") = {"scheduleRole", "schedulePolicy", "scheduleAttached"}
  /\ StandsFor("saUser") = {"saUser", "saUserAttached", "saKey"}
  /\ StandsFor("saRole") = {"saRole", "saRoleAttached"}
  /\ StandsFor("planTarget") = {"planTarget", "planTargetAccount"}
  /\ StandsFor("applyTarget") = {"applyTarget", "applyTargetAccount"}
<1>1. {"bucket", "buildRole", "pipelineRole", "scheduleRole", "saUser", "saRole",
       "planTarget", "applyTarget"} \subseteq Owners
  BY AwsOwners, GoogleOwners DEF Owners
<1>2. \A x : x \in StandsFor(x) /\ (x \notin Owners => StandsFor(x) = {x})
  BY DEF StandsFor
<1>3. \A x \in Owners : StandsFor(x) = {x} \cup (Family[x] \ Repaired)
  BY DEF StandsFor
<1> QED BY <1>1, <1>2, <1>3, Families, RepairedAre

LEMMA ComesAlong ==
  /\ \A x, p : p \in StandsFor(x) => ComesWith(p, x)
  /\ \A p \in StandsFor("scheduleRole") : ComesWith(p, "schedule")
<1>1. \A S \in Scopes : /\ \A o \in Owners : Family[o] \cap S # {} => o \in S
                        /\ "scheduleRole" \in S => "schedule" \in S
  BY ScopesAssumption
<1>2. \A x, p : p \in StandsFor(x) => ComesWith(p, x)
  BY <1>1 DEF StandsFor, ComesWith
<1> QED BY <1>1, <1>2 DEF ComesWith

\* What is looked for is made when it is missing.
LEMMA LookSees ==
  ASSUME NEW x, NEW found, NEW missing, NEW p,
         \E i \in 1..Len(missing) : missing[i] = Make(x),
         p \in StandsFor(x)
  PROVE  Sees1(Look(x, found, missing), p) /\ SeesTo(Look(x, found, missing), p)
<1>1. ComesWith(p, x)
  BY ComesAlong
<1>2. Sees0(Make(x), p)
  BY DEF Sees0, Make
<1>3. Sees1(Look(x, found, missing), p)
  BY <1>1, <1>2 DEF Sees1, Look
<1> QED BY <1>3, SeesMore

\* Calls that delete nothing.
LEMMA MakesSpare ==
  ASSUME NEW R
  PROVE  /\ \A x : Spares0(Make(x), R) /\ Spares1(Make(x), R) /\ Spares(Make(x), R)
         /\ \A x, y : Spares1(Look(x, <<>>, <<Make(y)>>), R)
         /\ \A x, y : Spares(Look(x, <<>>, <<Make(y)>>), R)
<1>1. \A x : Spares0(Make(x), R) /\ Spares1(Make(x), R) /\ Spares(Make(x), R)
  BY DEF Spares0, Spares1, Spares, Make
<1>2. \A x, y : Spares0(Look(x, <<>>, <<Make(y)>>), R)
  BY DEF Spares0, Look
<1>3. \A x, y : /\ Spares1(Look(x, <<>>, <<Make(y)>>), R)
                /\ Spares(Look(x, <<>>, <<Make(y)>>), R)
  <2> TAKE x, y
  <2> DEFINE m == <<Make(y)>>
             c == Look(x, <<>>, m)
  <2>1. /\ \A i \in 1..Len(m) : m[i] = Make(y)
        /\ c.found = <<>> /\ c.missing = m /\ c.do = "look"
    BY DEF Look
  <2>2. Spares0(c, R)
    BY <1>2
  <2> HIDE DEF m, c
  <2>3. Spares1(c, R) /\ Spares(c, R)
    BY <1>1, <2>1, <2>2 DEF Spares1, Spares
  <2> QED BY <2>3 DEF m, c
<1> QED BY <1>1, <1>3

\* A call of a series that is for the parts of P and deletes those of R only.
Serves(c, P, R) == c \in AnyCall /\ Spares(c, R) /\ \A p \in P : SeesTo(c, p)

SeriesServes(q, P, R) ==
    q \in Seq(AnyCall) /\ DeletesOnly(q, R) /\ \A p \in P : Supplies(q, p)

LEMMA ServeAlone ==
  ASSUME NEW R, NEW a, NEW A, Serves(a, A, R)
  PROVE  SeriesServes(<<a>>, A, R)
<1> DEFINE q == <<a>>
<1>1. q \in Seq(AnyCall) /\ Len(q) = 1 /\ q[1] = a
  BY DEF Serves
<1> HIDE DEF q
<1>2. DeletesOnly(q, R)
  BY <1>1 DEF DeletesOnly, Serves
<1>3. \A p \in A : Supplies(q, p)
  BY <1>1 DEF Supplies, Serves
<1> QED BY <1>1, <1>2, <1>3 DEF SeriesServes, q

LEMMA ServeTogether ==
  ASSUME NEW R, NEW q, NEW r, NEW P, NEW Q, SeriesServes(q, P, R), SeriesServes(r, Q, R)
  PROVE  SeriesServes(q \o r, P \cup Q, R)
<1>1. q \o r \in Seq(AnyCall)
  BY DEF SeriesServes
<1>2. DeletesOnly(q \o r, R)
  BY SuppliesConcat DEF SeriesServes
<1>3. \A p \in P \cup Q : Supplies(q \o r, p)
  BY SuppliesConcat DEF SeriesServes
<1> QED BY <1>1, <1>2, <1>3 DEF SeriesServes

LEMMA TwoAre ==
  ASSUME NEW a, NEW b
  PROVE  <<a>> \o <<b>> = <<a, b>>
<1> DEFINE q == <<a>> \o <<b>>
           r == <<a, b>>
           S == {a, b}
<1>1. q \in Seq(S) /\ r \in Seq(S) /\ Len(q) = 2 /\ Len(r) = 2
  OBVIOUS
<1>2. \A i \in 1..2 : q[i] = r[i]
  OBVIOUS
<1> HIDE DEF q, r, S
<1> QED BY <1>1, <1>2, SameSeries, Zenon DEF q, r

LEMMA ServeTwo ==
  ASSUME NEW R, NEW a, NEW b, NEW A, NEW B, Serves(a, A, R), Serves(b, B, R)
  PROVE  SeriesServes(<<a, b>>, A \cup B, R)
<1>1. <<a, b>> = <<a>> \o <<b>>
  BY TwoAre, Zenon
<1> DEFINE q == <<a>>  r == <<b>>
<1>2. SeriesServes(q, A, R) /\ SeriesServes(r, B, R)
  BY ServeAlone
<1> HIDE DEF q, r
<1>3. SeriesServes(q \o r, A \cup B, R)
  BY <1>2, ServeTogether
<1> QED BY <1>1, <1>3, Zenon DEF q, r

LEMMA ServeThree ==
  ASSUME NEW R, NEW a, NEW b, NEW c, NEW A, NEW B, NEW C,
         Serves(a, A, R), Serves(b, B, R), Serves(c, C, R)
  PROVE  SeriesServes(<<a, b, c>>, A \cup B \cup C, R)
<1>1. <<a, b, c>> = <<a, b>> \o <<c>>
  BY ThreeAre
<1> DEFINE q == <<a, b>>  r == <<c>>
<1>2. SeriesServes(q, A \cup B, R) /\ SeriesServes(r, C, R)
  BY ServeAlone, ServeTwo
<1> HIDE DEF q, r
<1>3. SeriesServes(q \o r, (A \cup B) \cup C, R)
  BY <1>2, ServeTogether
<1> QED BY <1>1, <1>3, Zenon DEF q, r

LEMMA ServeFour ==
  ASSUME NEW R, NEW a, NEW b, NEW c, NEW d, NEW A, NEW B, NEW C, NEW D,
         Serves(a, A, R), Serves(b, B, R), Serves(c, C, R), Serves(d, D, R)
  PROVE  SeriesServes(<<a, b, c, d>>, A \cup B \cup C \cup D, R)
<1>1. <<a, b, c, d>> = <<a, b>> \o <<c, d>>
  OBVIOUS
<1> DEFINE q == <<a, b>>  r == <<c, d>>
<1>2. SeriesServes(q, A \cup B, R) /\ SeriesServes(r, C \cup D, R)
  BY ServeTwo
<1> HIDE DEF q, r
<1>3. SeriesServes(q \o r, (A \cup B) \cup (C \cup D), R)
  BY <1>2, ServeTogether
<1>4. (A \cup B) \cup (C \cup D) = A \cup B \cup C \cup D
  OBVIOUS
<1> QED BY <1>1, <1>3, <1>4, Zenon DEF q, r

LEMMA ServeFive ==
  ASSUME NEW R, NEW a, NEW b, NEW c, NEW d, NEW e, NEW A, NEW B, NEW C, NEW D, NEW E,
         Serves(a, A, R), Serves(b, B, R), Serves(c, C, R), Serves(d, D, R),
         Serves(e, E, R)
  PROVE  SeriesServes(<<a, b, c, d, e>>, A \cup B \cup C \cup D \cup E, R)
<1>1. <<a, b, c, d, e>> = <<a, b>> \o <<c, d, e>>
  OBVIOUS
<1> DEFINE q == <<a, b>>  r == <<c, d, e>>
<1>2. SeriesServes(q, A \cup B, R) /\ SeriesServes(r, C \cup D \cup E, R)
  BY ServeTwo, ServeThree
<1> HIDE DEF q, r
<1>3. SeriesServes(q \o r, (A \cup B) \cup (C \cup D \cup E), R)
  BY <1>2, ServeTogether
<1>4. (A \cup B) \cup (C \cup D \cup E) = A \cup B \cup C \cup D \cup E
  OBVIOUS
<1> QED BY <1>1, <1>3, <1>4, Zenon DEF q, r

\* The calls of either account that are no look for more than one part.
LEMMA PlainServe ==
  ASSUME NEW x \in Part, NEW R
  PROVE  /\ Serves(Make(x), StandsFor(x), R)
         /\ x \notin Aws!Owners => Serves(GetOrMake(x), StandsFor(x), R)
<1>1. Serves(Make(x), StandsFor(x), R)
  <2>1. \A p \in StandsFor(x) : SeesTo(Make(x), p)
    BY DEF SeesTo, Sees0, Make
  <2> QED BY <2>1, SimpleOnes, MoreCalls, MakesSpare, Zenon DEF Serves
<1>2. ASSUME x \notin Aws!Owners PROVE Serves(GetOrMake(x), StandsFor(x), R)
  <2>1. GetOrMake(x) \in AnyCall
    BY <1>2, GetOrMakes DEF AnyCall, Calls1
  <2>2. Spares(GetOrMake(x), R)
    BY MakesSpare DEF GetOrMake
  <2>3. \A p \in StandsFor(x) : SeesTo(GetOrMake(x), p)
    <3> DEFINE m == <<Make(x)>>
    <3>1. \E i \in 1..Len(m) : m[i] = Make(x)
      <4>1. 1 \in 1..Len(m) /\ m[1] = Make(x)
        OBVIOUS
      <4> QED BY <4>1
    <3>2. GetOrMake(x) = Look(x, <<>>, m)
      BY DEF GetOrMake
    <3> HIDE DEF m
    <3> QED BY <3>1, <3>2, LookSees
  <2> QED BY <2>1, <2>2, <2>3 DEF Serves
<1> QED BY <1>1, <1>2

LEMMA AwsLooksServe ==
  ASSUME NEW R
  PROVE  /\ Serves(Aws!CreateBucket, StandsFor("bucket") \cup {"lifecycle", "sslPolicy"}, R)
         /\ Serves(Aws!CreateBuildRole, StandsFor("buildRole"), R)
         /\ Serves(Aws!CreatePipelineRole, StandsFor("pipelineRole"), R)
         /\ Serves(Aws!CreateSchedule(TRUE), StandsFor("scheduleRole") \cup {"schedule"}, R)
         /\ "schedule" \in R => Serves(Aws!CreateSchedule(FALSE), {}, R)
<1> USE DEF Aws!Make, Aws!Look, Aws!Remove
<1>1. /\ Aws!CreateBucket \in AnyCall /\ Aws!CreateBuildRole \in AnyCall
      /\ Aws!CreatePipelineRole \in AnyCall /\ Aws!CreateSchedule(TRUE) \in AnyCall
      /\ Aws!CreateSchedule(FALSE) \in AnyCall
  BY AwsLooks, Zenon DEF Single
<1>2. ASSUME NEW x, NEW m, NEW n \in Nat, Len(m) = n + 1, m[1] = Make(x),
             \A i \in 1..Len(m) : \E y : m[i] = Make(y)
      PROVE  /\ Spares1(Look(x, <<>>, m), R) /\ Spares(Look(x, <<>>, m), R)
             /\ \A p \in StandsFor(x) :
                  Sees1(Look(x, <<>>, m), p) /\ SeesTo(Look(x, <<>>, m), p)
  <2>1. 1 \in 1..Len(m)
    BY <1>2
  <2>2. \A i \in 1..Len(m) : Spares0(m[i], R) /\ Spares1(m[i], R)
    BY <1>2, MakesSpare, Zenon
  <2>3. Spares1(Look(x, <<>>, m), R) /\ Spares(Look(x, <<>>, m), R)
    BY <2>2 DEF Spares1, Spares, Spares0, Look
  <2>4. \E i \in 1..Len(m) : m[i] = Make(x)
    BY <1>2, <2>1
  <2> QED BY <2>3, <2>4, LookSees
<1>3. Serves(Aws!CreateBuildRole, StandsFor("buildRole"), R)
  <2> DEFINE m == <<Make("buildRole"), Make("buildAdmin"), Make("buildPolicy"),
                    Make("buildAttached")>>
  <2>1. Len(m) = 3 + 1 /\ m[1] = Make("buildRole") /\ \A i \in 1..Len(m) : \E y : m[i] = Make(y)
    OBVIOUS
  <2>2. Aws!CreateBuildRole = Look("buildRole", <<>>, m)
    BY DEF Aws!CreateBuildRole, Make, Look
  <2> HIDE DEF m
  <2> QED BY <1>1, <1>2, <2>1, <2>2, Zenon DEF Serves
<1>4. Serves(Aws!CreatePipelineRole, StandsFor("pipelineRole"), R)
  <2> DEFINE m == <<Make("pipelineRole"), Make("pipelinePolicy"), Make("pipelineAttached")>>
  <2>1. Len(m) = 2 + 1 /\ m[1] = Make("pipelineRole")
        /\ \A i \in 1..Len(m) : \E y : m[i] = Make(y)
    OBVIOUS
  <2>2. Aws!CreatePipelineRole = Look("pipelineRole", <<>>, m)
    BY DEF Aws!CreatePipelineRole, Make, Look
  <2> HIDE DEF m
  <2> QED BY <1>1, <1>2, <2>1, <2>2, Zenon DEF Serves
<1>5. /\ Spares1(Aws!CreateScheduleRole, R)
      /\ \A p \in StandsFor("scheduleRole") : Sees1(Aws!CreateScheduleRole, p)
  <2> DEFINE m == <<Make("scheduleRole"), Make("schedulePolicy"), Make("scheduleAttached")>>
  <2>1. Len(m) = 2 + 1 /\ m[1] = Make("scheduleRole")
        /\ \A i \in 1..Len(m) : \E y : m[i] = Make(y)
    OBVIOUS
  <2>2. Aws!CreateScheduleRole = Look("scheduleRole", <<>>, m)
    BY DEF Aws!CreateScheduleRole, Make, Look
  <2> HIDE DEF m
  <2> QED BY <1>2, <2>1, <2>2, Zenon
<1>6. Serves(Aws!CreateSchedule(TRUE), StandsFor("scheduleRole") \cup {"schedule"}, R)
  <2> DEFINE f == <<Aws!CreateScheduleRole>>
             m == <<Aws!CreateScheduleRole, Make("schedule")>>
             c == Look("schedule", f, m)
  <2>1. Aws!CreateSchedule(TRUE) = c
    BY DEF Aws!CreateSchedule, Make, Look
  <2>2. /\ Len(f) = 1 /\ Len(m) = 2 /\ f[1] = Aws!CreateScheduleRole
        /\ m[1] = Aws!CreateScheduleRole /\ m[2] = Make("schedule")
    OBVIOUS
  <2> HIDE DEF f, m
  <2>3. c.do = "look" /\ c.part = "schedule" /\ c.found = f /\ c.missing = m
    BY DEF Look
  <2>4. Spares(c, R)
    <3>1. /\ \A i \in 1..Len(f) : Spares1(f[i], R)
          /\ \A i \in 1..Len(m) : Spares1(m[i], R)
      BY <1>5, <2>2, MakesSpare
    <3> HIDE DEF c
    <3> QED BY <2>3, <3>1 DEF Spares, Spares0
  <2>5. \A p \in StandsFor("scheduleRole") : SeesTo(c, p)
    <3> SUFFICES ASSUME NEW p \in StandsFor("scheduleRole") PROVE SeesTo(c, p)
      OBVIOUS
    <3>1. 1 \in 1..Len(f) /\ 1 \in 1..Len(m)
      BY <2>2
    <3>2. ComesWith(p, "schedule")
      BY ComesAlong
    <3> HIDE DEF c
    <3> QED BY <1>5, <2>2, <2>3, <3>1, <3>2, Zenon DEF SeesTo
  <2>6. SeesTo(c, "schedule")
    <3>1. 2 \in 1..Len(m) /\ "schedule" \in StandsFor("schedule")
      BY <2>2, StandFor
    <3>2. \E i \in 1..Len(m) : m[i] = Make("schedule")
      BY <2>2, <3>1
    <3> QED BY <3>1, <3>2, LookSees
  <2> HIDE DEF c
  <2> QED BY <1>1, <2>1, <2>4, <2>5, <2>6, Zenon DEF Serves
<1>7. ASSUME "schedule" \in R PROVE Serves(Aws!CreateSchedule(FALSE), {}, R)
  <2> DEFINE f == <<Remove({"schedule"})>>
             c == Look("schedule", f, <<>>)
  <2>1. Aws!CreateSchedule(FALSE) = c
    BY DEF Aws!CreateSchedule, Remove, Look
  <2>2. Len(f) = 1 /\ f[1] = Remove({"schedule"})
    OBVIOUS
  <2>3. GoesWith({"schedule"}) \subseteq R
    <3>1. Contents("schedule") = {}
      BY GoogleOwners DEF Contents, Aws!Contents, Google!Contents
    <3> QED BY <1>7, <3>1 DEF GoesWith
  <2>4. Spares1(Remove({"schedule"}), R)
    BY <2>3 DEF Spares1, Spares0, Remove
  <2> HIDE DEF f
  <2>5. c.do = "look" /\ c.found = f /\ c.missing = <<>>
    BY DEF Look
  <2> HIDE DEF c
  <2>6. /\ \A i \in 1..Len(f) : Spares1(f[i], R)
        /\ \A i \in 1..Len(c.missing) : Spares1(c.missing[i], R)
    BY <2>2, <2>4, <2>5
  <2>7. Spares(c, R)
    BY <2>5, <2>6 DEF Spares, Spares0
  <2> QED BY <1>1, <2>1, <2>7, Zenon DEF Serves
<1>8. Serves(Aws!CreateBucket, StandsFor("bucket") \cup {"lifecycle", "sslPolicy"}, R)
  <2> DEFINE f == <<Make("lifecycle"), Make("sslPolicy")>>
             m == <<Make("bucket"), Make("tags"), Make("versioning"), Make("lifecycle"),
                    Make("sslPolicy"), Make("dummyZip")>>
             c == Look("bucket", f, m)
  <2>1. Aws!CreateBucket = c
    BY DEF Aws!CreateBucket, Aws!BucketExists, Make, Look
  <2>2. /\ Len(f) = 2 /\ Len(m) = 6 /\ f[1] = Make("lifecycle") /\ f[2] = Make("sslPolicy")
        /\ m[1] = Make("bucket") /\ m[4] = Make("lifecycle") /\ m[5] = Make("sslPolicy")
        /\ \A i \in 1..2 : \E y : f[i] = Make(y)
        /\ \A i \in 1..6 : \E y : m[i] = Make(y)
    OBVIOUS
  <2> HIDE DEF f, m
  <2>3. c.do = "look" /\ c.part = "bucket" /\ c.found = f /\ c.missing = m
    BY DEF Look
  <2>4. Spares(c, R)
    <3>1. /\ \A i \in 1..Len(f) : Spares1(f[i], R)
          /\ \A i \in 1..Len(m) : Spares1(m[i], R)
      BY <2>2, MakesSpare, Zenon
    <3> HIDE DEF c
    <3> QED BY <2>3, <3>1 DEF Spares, Spares0
  <2>5. \A p \in StandsFor("bucket") : SeesTo(c, p)
    <3>1. \E i \in 1..Len(m) : m[i] = Make("bucket")
      <4>1. 1 \in 1..Len(m)
        BY <2>2
      <4> QED BY <2>2, <4>1
    <3> QED BY <3>1, LookSees
  <2>6. ASSUME NEW p \in {"lifecycle", "sslPolicy"} PROVE SeesTo(c, p)
    <3>1. Sees1(Make(p), p)
      BY StandFor DEF Sees1, Sees0, Make
    <3>2. ComesWith(p, "bucket")
      <4>1. \A S \in Scopes : \A o \in Owners : Family[o] \cap S # {} => o \in S
        BY ScopesAssumption
      <4>2. p \in Family["bucket"] /\ "bucket" \in Owners
        BY Families, AwsOwners DEF Owners
      <4> QED BY <4>1, <4>2 DEF ComesWith
    <3>3. \E i \in 1..Len(f) : f[i] = Make(p)
      <4>1. 1 \in 1..Len(f) /\ 2 \in 1..Len(f)
        BY <2>2
      <4> QED BY <2>2, <4>1
    <3>4. \E i \in 1..Len(m) : m[i] = Make(p)
      <4>1. 4 \in 1..Len(m) /\ 5 \in 1..Len(m)
        BY <2>2
      <4> QED BY <2>2, <4>1
    <3> HIDE DEF c
    <3> QED BY <2>3, <3>1, <3>2, <3>3, <3>4 DEF SeesTo
  <2> HIDE DEF c
  <2> QED BY <1>1, <2>1, <2>4, <2>5, <2>6 DEF Serves
<1> QED BY <1>3, <1>4, <1>6, <1>7, <1>8, Zenon

\* A setup of AWS makes all it is for, and deletes at most a schedule it is
\* not for.
LEMMA AwsSetupServes ==
  ASSUME NEW c \in Setups, NEW cron \in BOOLEAN, NEW R,
         ~cron /\ c # "local" => "schedule" \in R
  PROVE  SeriesServes(Aws!Setup(c, cron), Aws!Promised(c, cron), R)
<1> USE DEF Aws!Make, Aws!GetOrMake, Aws!Look
<1>1. \A x \in {"table", "linkedRole", "logGroup", "logStream", "config", "stepProject",
                "stepPipeline", "stepDestroyPipeline", "runProject", "updateProject",
                "updatePipeline", "runPipeline"} :
         Serves(Make(x), {x}, R) /\ Serves(GetOrMake(x), {x}, R)
  <2> SUFFICES ASSUME NEW x \in {"table", "linkedRole", "logGroup", "logStream", "config",
                "stepProject", "stepPipeline", "stepDestroyPipeline", "runProject",
                "updateProject", "updatePipeline", "runPipeline"}
               PROVE  Serves(Make(x), {x}, R) /\ Serves(GetOrMake(x), {x}, R)
    BY Zenon
  <2>1. x \in Part /\ x \notin Owners /\ x \notin Aws!Owners
    BY Parts, AwsOwners, GoogleOwners DEF Owners
  <2>2. StandsFor(x) = {x}
    BY <2>1, StandFor
  <2> QED BY <2>1, <2>2, PlainServe
<1> DEFINE ofBucket == StandsFor("bucket") \cup {"lifecycle", "sslPolicy"}
           ofSchedule == StandsFor("scheduleRole") \cup {"schedule"}
           bucket == <<Aws!CreateBucket>>
           first == <<Aws!CreateBucket, GetOrMake("table"), Make("linkedRole")>>
           more == <<GetOrMake("logGroup"), GetOrMake("logStream"), Aws!CreateBuildRole,
                     Aws!CreatePipelineRole, Aws!CreateSchedule(cron)>>
           config == <<Make("config")>>
           steps == <<Make("config"), Make("stepProject"), Make("stepPipeline"),
                      Make("stepDestroyPipeline")>>
           projects == <<GetOrMake("runProject"), GetOrMake("updateProject")>>
           pipelines == <<GetOrMake("updatePipeline"), GetOrMake("runPipeline")>>
           inMore == {"logGroup", "logStream"} \cup StandsFor("buildRole")
                     \cup StandsFor("pipelineRole") \cup (IF cron THEN ofSchedule ELSE {})
<1>2. /\ SeriesServes(bucket, ofBucket, R)
      /\ SeriesServes(first, ofBucket \cup {"table"} \cup {"linkedRole"}, R)
  BY <1>1, AwsLooksServe, ServeAlone, ServeThree, Zenon
<1>3. c # "local" => SeriesServes(more, inMore, R)
  <2> HAVE c # "local"
  <2>1. Serves(Aws!CreateSchedule(cron), IF cron THEN ofSchedule ELSE {}, R)
    BY AwsLooksServe, Zenon
  <2> HIDE DEF ofSchedule, Make, GetOrMake
  <2>2. SeriesServes(more, {"logGroup"} \cup {"logStream"} \cup StandsFor("buildRole")
                     \cup StandsFor("pipelineRole") \cup (IF cron THEN ofSchedule ELSE {}), R)
    BY <1>1, <2>1, AwsLooksServe, ServeFive, Zenon
  <2>3. {"logGroup"} \cup {"logStream"} = {"logGroup", "logStream"}
    OBVIOUS
  <2> QED BY <2>2, <2>3
<1>4. /\ SeriesServes(config, {"config"}, R)
      /\ SeriesServes(steps, {"config"} \cup {"stepProject"} \cup {"stepPipeline"}
                             \cup {"stepDestroyPipeline"}, R)
      /\ SeriesServes(projects, {"runProject"} \cup {"updateProject"}, R)
      /\ SeriesServes(pipelines, {"updatePipeline"} \cup {"runPipeline"}, R)
  BY <1>1, ServeAlone, ServeTwo, ServeFour
<1>5. /\ c = "bootstrap" => Aws!Setup(c, cron) =
             bucket \o (config \o (first \o more) \o (projects \o pipelines))
      /\ c = "run" => Aws!Setup(c, cron) = bucket \o ((first \o more) \o steps)
      /\ c = "local" => Aws!Setup(c, cron) = bucket \o ((first \o <<>>) \o config)
  BY Zenon DEF Aws!Setup, Aws!SetupMinimalResources, Aws!SetupResources, Aws!CreateAgent,
         Aws!CreateAgentPipelines, Make, Look, GetOrMake
<1>6. SeriesServes(<<>>, {}, R)
  BY DEF SeriesServes, DeletesOnly
<1> DEFINE inFirst == ofBucket \cup {"table"} \cup {"linkedRole"}
           inSteps == {"config"} \cup {"stepProject"} \cup {"stepPipeline"}
                      \cup {"stepDestroyPipeline"}
           inAgent == ({"runProject"} \cup {"updateProject"})
                      \cup ({"updatePipeline"} \cup {"runPipeline"})
<1>7. /\ ofBucket = {"bucket", "tags", "versioning", "dummyZip", "lifecycle", "sslPolicy"}
      /\ Aws!BucketParts = {"tags", "versioning", "lifecycle", "sslPolicy", "dummyZip"}
      /\ inMore = {"logGroup", "logStream", "buildRole", "pipelineRole"}
                  \cup Aws!Family["buildRole"] \cup Aws!Family["pipelineRole"]
                  \cup (IF cron THEN {"schedule", "scheduleRole"} \cup Aws!Family["scheduleRole"]
                        ELSE {})
  <2>1. ofBucket = {"bucket", "tags", "versioning", "dummyZip", "lifecycle", "sslPolicy"}
    BY StandFor
  <2>2. /\ Aws!Family["buildRole"] = {"buildAdmin", "buildPolicy", "buildAttached"}
        /\ Aws!Family["pipelineRole"] = {"pipelinePolicy", "pipelineAttached"}
        /\ Aws!Family["scheduleRole"] = {"schedulePolicy", "scheduleAttached"}
    BY DEF Aws!Family
  <2>3. inMore = {"logGroup", "logStream", "buildRole", "pipelineRole"}
                  \cup Aws!Family["buildRole"] \cup Aws!Family["pipelineRole"]
                  \cup (IF cron THEN {"schedule", "scheduleRole"} \cup Aws!Family["scheduleRole"]
                        ELSE {})
    BY <2>2, StandFor
  <2> QED BY <2>1, <2>3 DEF Aws!BucketParts
<1> HIDE DEF bucket, first, more, config, steps, projects, pipelines, ofBucket, ofSchedule,
             inMore
<1>8. c = "bootstrap" => SeriesServes(Aws!Setup(c, cron),
          ofBucket \cup (({"config"} \cup (inFirst \cup inMore)) \cup inAgent), R)
  <2> HIDE DEF inFirst, inAgent
  <2>1. c = "bootstrap" => SeriesServes(first \o more, inFirst \cup inMore, R)
    BY <1>2, <1>3, ServeTogether DEF inFirst
  <2>2. SeriesServes(projects \o pipelines, inAgent, R)
    BY <1>4, ServeTogether DEF inAgent
  <2>3. c = "bootstrap" =>
          SeriesServes(config \o (first \o more), {"config"} \cup (inFirst \cup inMore), R)
    BY <1>4, <2>1, ServeTogether
  <2>4. c = "bootstrap" =>
          SeriesServes(config \o (first \o more) \o (projects \o pipelines),
                       ({"config"} \cup (inFirst \cup inMore)) \cup inAgent, R)
    BY <2>2, <2>3, ServeTogether
  <2> QED BY <1>2, <1>5, <2>4, ServeTogether, Zenon
<1>9. c = "run" => SeriesServes(Aws!Setup(c, cron),
          ofBucket \cup ((inFirst \cup inMore) \cup inSteps), R)
  <2> HIDE DEF inFirst, inSteps
  <2>1. c = "run" => SeriesServes(first \o more, inFirst \cup inMore, R)
    BY <1>2, <1>3, ServeTogether DEF inFirst
  <2>2. c = "run" => SeriesServes((first \o more) \o steps, (inFirst \cup inMore) \cup inSteps, R)
    BY <1>4, <2>1, ServeTogether DEF inSteps
  <2> QED BY <1>2, <1>5, <2>2, ServeTogether, Zenon
<1>10. c = "local" => SeriesServes(Aws!Setup(c, cron),
          ofBucket \cup ((inFirst \cup {}) \cup {"config"}), R)
  <2> HIDE DEF inFirst
  <2>1. SeriesServes(first \o <<>>, inFirst \cup {}, R)
    BY <1>2, <1>6, ServeTogether DEF inFirst
  <2>2. SeriesServes((first \o <<>>) \o config, (inFirst \cup {}) \cup {"config"}, R)
    BY <1>4, <2>1, ServeTogether
  <2> QED BY <1>2, <1>5, <2>2, ServeTogether, Zenon
<1>11. /\ c = "bootstrap" => Aws!Promised(c, cron) \subseteq
            ofBucket \cup (({"config"} \cup (inFirst \cup inMore)) \cup inAgent)
       /\ c = "run" => Aws!Promised(c, cron) \subseteq
            ofBucket \cup ((inFirst \cup inMore) \cup inSteps)
       /\ c = "local" => Aws!Promised(c, cron) \subseteq
            ofBucket \cup ((inFirst \cup {}) \cup {"config"})
  BY <1>7 DEF Aws!Promised, Aws!StepParts
<1>12. \A P, Q : P \subseteq Q /\ SeriesServes(Aws!Setup(c, cron), Q, R)
                   => SeriesServes(Aws!Setup(c, cron), P, R)
  BY DEF SeriesServes
<1> HIDE DEF inFirst, inSteps, inAgent
<1> QED BY <1>8, <1>9, <1>10, <1>11, <1>12 DEF Setups

\* And one of Google Cloud.
LEMMA GoogleSetupServes ==
  ASSUME NEW c \in Setups, NEW cron \in BOOLEAN, NEW R,
         ~cron /\ c # "local" => "agentSchedule" \in R
  PROVE  SeriesServes(Google!Setup(c, cron), Google!Promised(c, cron), R)
<1> USE DEF Google!Make, Google!GetOrMake, Google!Look, Google!Remove
<1>1. \A x \in {"apiServices", "storage", "storedConfig", "agentAccount", "accountRoles",
                "projectRoles", "agentSchedule", "agentRunJob", "agentUpdateJob",
                "planDestroyJob", "applyDestroyJob", "deliveryPipeline", "planJob",
                "applyJob"} :
         Serves(Make(x), {x}, R) /\ Serves(GetOrMake(x), {x}, R)
  <2> SUFFICES ASSUME NEW x \in {"apiServices", "storage", "storedConfig", "agentAccount",
                "accountRoles", "projectRoles", "agentSchedule", "agentRunJob",
                "agentUpdateJob", "planDestroyJob", "applyDestroyJob", "deliveryPipeline",
                "planJob", "applyJob"}
               PROVE  Serves(Make(x), {x}, R) /\ Serves(GetOrMake(x), {x}, R)
    BY Zenon
  <2>1. x \in Part /\ x \notin Owners /\ x \notin Aws!Owners
    BY Parts, AwsOwners, GoogleOwners DEF Owners
  <2>2. StandsFor(x) = {x}
    BY <2>1, StandFor
  <2> QED BY <2>1, <2>2, PlainServe
<1>2. \A x \in {"planTarget", "applyTarget"} : Serves(GetOrMake(x), StandsFor(x), R)
  <2>1. \A x \in {"planTarget", "applyTarget"} : x \in Part /\ x \notin Aws!Owners
    BY Parts, AwsOwners
  <2> QED BY <2>1, PlainServe
<1> DEFINE scheduled == IF cron THEN {"agentSchedule"} ELSE {}
<1>3. c # "local" => Serves(Google!CreateSchedule(cron), scheduled, R)
  <2>1. CASE cron
    <3>1. Google!CreateSchedule(cron) = GetOrMake("agentSchedule")
      BY <2>1 DEF Google!CreateSchedule, GetOrMake, Look, Make
    <3> QED BY <2>1, <3>1, <1>1, Zenon
  <2>2. CASE ~cron /\ c # "local"
    <3> DEFINE f == <<Remove({"agentSchedule"})>>
               d == Look("agentSchedule", f, <<>>)
    <3>1. Google!CreateSchedule(cron) = d
      BY <2>2 DEF Google!CreateSchedule, Remove, Look
    <3>2. Len(f) = 1 /\ f[1] = Remove({"agentSchedule"})
      OBVIOUS
    <3>3. GoesWith({"agentSchedule"}) \subseteq R
      <4>1. Contents("agentSchedule") = {}
        BY GoogleOwners DEF Contents, Aws!Contents, Google!Contents
      <4> QED BY <2>2, <4>1 DEF GoesWith
    <3>4. Spares1(Remove({"agentSchedule"}), R)
      BY <3>3 DEF Spares1, Spares0, Remove
    <3>5. d \in AnyCall
      <4>1. f \in Seq(SimpleCalls) /\ <<>> \in Seq(SimpleCalls) /\ "agentSchedule" \in Part
        <5>1. "agentSchedule" \in Part
          BY Parts
        <5>2. Remove({"agentSchedule"}) \in SimpleCalls
          BY <5>1, SimpleOnes DEF Together
        <5> QED BY <5>1, <5>2
      <4>2. Tidy(f)
        BY DEF Tidy, Deletes, Remove
      <4> HIDE DEF f
      <4> QED BY <4>1, <4>2, EmptyIsTidy, LookIs, Zenon DEF AnyCall, Calls1
    <3> HIDE DEF f
    <3>6. d.do = "look" /\ d.found = f /\ d.missing = <<>>
      BY DEF Look
    <3> HIDE DEF d
    <3>7. /\ \A i \in 1..Len(f) : Spares1(f[i], R)
          /\ \A i \in 1..Len(d.missing) : Spares1(d.missing[i], R)
      BY <3>2, <3>4, <3>6
    <3>8. Spares(d, R)
      BY <3>6, <3>7 DEF Spares, Spares0
    <3> QED BY <2>2, <3>1, <3>5, <3>8 DEF Serves
  <2> QED BY <2>1, <2>2
<1> DEFINE api == <<Make("apiServices")>>
           storage == <<GetOrMake("storage")>>
           account == <<GetOrMake("agentAccount"), Make("accountRoles"),
                        Make("projectRoles")>>
           targets == <<GetOrMake("planTarget"), GetOrMake("applyTarget")>>
           config == <<Make("storedConfig")>>
           agent == <<GetOrMake("agentRunJob"), GetOrMake("agentUpdateJob")>>
           step == <<GetOrMake("planDestroyJob"), GetOrMake("applyDestroyJob"),
                     Make("deliveryPipeline"), Make("planJob"), Make("applyJob")>>
           schedule == <<Google!CreateSchedule(cron)>>
           inAccount == {"agentAccount"} \cup {"accountRoles"} \cup {"projectRoles"}
           inTargets == StandsFor("planTarget") \cup StandsFor("applyTarget")
           inAgent == {"agentRunJob"} \cup {"agentUpdateJob"}
           inStep == {"planDestroyJob"} \cup {"applyDestroyJob"} \cup {"deliveryPipeline"}
                     \cup {"planJob"} \cup {"applyJob"}
<1>4. /\ SeriesServes(api, {"apiServices"}, R)
      /\ SeriesServes(storage, {"storage"}, R)
      /\ SeriesServes(account, inAccount, R)
      /\ SeriesServes(targets, inTargets, R)
      /\ SeriesServes(config, {"storedConfig"}, R)
      /\ SeriesServes(agent, inAgent, R)
      /\ SeriesServes(step, inStep, R)
  <2> HIDE DEF Make, GetOrMake
  <2> QED BY <1>1, <1>2, ServeAlone, ServeTwo, ServeThree, ServeFive
<1>5. c # "local" => SeriesServes(schedule, scheduled, R)
  <2> HIDE DEF scheduled
  <2> QED BY <1>3, ServeAlone
<1>6. SeriesServes(<<>>, {}, R)
  BY DEF SeriesServes, DeletesOnly
<1>7. /\ c = "bootstrap" => Google!Setup(c, cron) =
             api \o storage \o (config \o (api \o storage \o (account \o targets \o schedule))
                                \o agent)
      /\ c = "run" => Google!Setup(c, cron) =
             api \o storage \o ((api \o storage \o (account \o targets \o schedule)) \o config
                                \o step)
      /\ c = "local" => Google!Setup(c, cron) =
             api \o storage \o ((api \o storage \o <<>>) \o config)
  BY DEF Google!Setup, Google!SetupMinimalResources, Google!EnableApiServices,
         Google!CreateBucket, Google!SetupResources, Google!CreateAgentAccount,
         Google!CreateTargets, Google!CreateAgent, Google!CreateStep,
         Make, Look, GetOrMake
<1> HIDE DEF api, storage, account, targets, config, agent, step, schedule, scheduled,
             inAccount, inTargets, inAgent, inStep
<1> DEFINE few == {"apiServices"} \cup {"storage"}
           more == (inAccount \cup inTargets) \cup scheduled
<1>8. /\ SeriesServes(api \o storage, few, R)
      /\ SeriesServes((api \o storage) \o <<>>, few \cup {}, R)
      /\ c # "local" => SeriesServes(account \o targets \o schedule, more, R)
  <2>1. SeriesServes(api \o storage, few, R)
    BY <1>4, ServeTogether
  <2>2. SeriesServes(account \o targets, inAccount \cup inTargets, R)
    BY <1>4, ServeTogether
  <2> HIDE DEF few
  <2>3. SeriesServes((api \o storage) \o <<>>, few \cup {}, R)
    BY <1>6, <2>1, ServeTogether
  <2> QED BY <1>5, <2>1, <2>2, <2>3, ServeTogether
<1> DEFINE all == api \o storage \o (account \o targets \o schedule)
<1> HIDE DEF few, more
<1>9. c # "local" => SeriesServes(all, few \cup more, R)
  BY <1>8, ServeTogether
<1> HIDE DEF all
<1>10. c = "bootstrap" => SeriesServes(Google!Setup(c, cron),
           few \cup (({"storedConfig"} \cup (few \cup more)) \cup inAgent), R)
  <2>1. c = "bootstrap" =>
          SeriesServes(config \o all, {"storedConfig"} \cup (few \cup more), R)
    BY <1>4, <1>9, ServeTogether
  <2>2. c = "bootstrap" =>
          SeriesServes(config \o all \o agent,
                       ({"storedConfig"} \cup (few \cup more)) \cup inAgent, R)
    BY <1>4, <2>1, ServeTogether
  <2>3. c = "bootstrap" =>
          SeriesServes((api \o storage) \o (config \o all \o agent),
                       few \cup (({"storedConfig"} \cup (few \cup more)) \cup inAgent), R)
    BY <1>8, <2>2, ServeTogether
  <2> QED BY <1>7, <2>3, Zenon DEF all
<1>11. c = "run" => SeriesServes(Google!Setup(c, cron),
           few \cup (((few \cup more) \cup {"storedConfig"}) \cup inStep), R)
  <2>1. c = "run" =>
          SeriesServes(all \o config, (few \cup more) \cup {"storedConfig"}, R)
    BY <1>4, <1>9, ServeTogether
  <2>2. c = "run" =>
          SeriesServes(all \o config \o step,
                       ((few \cup more) \cup {"storedConfig"}) \cup inStep, R)
    BY <1>4, <2>1, ServeTogether
  <2>3. c = "run" =>
          SeriesServes((api \o storage) \o (all \o config \o step),
                       few \cup (((few \cup more) \cup {"storedConfig"}) \cup inStep), R)
    BY <1>8, <2>2, ServeTogether
  <2> QED BY <1>7, <2>3, Zenon DEF all
<1>12. c = "local" => SeriesServes(Google!Setup(c, cron),
           few \cup ((few \cup {}) \cup {"storedConfig"}), R)
  <2>1. SeriesServes(((api \o storage) \o <<>>) \o config,
                     (few \cup {}) \cup {"storedConfig"}, R)
    BY <1>4, <1>8, ServeTogether
  <2>2. SeriesServes((api \o storage) \o (((api \o storage) \o <<>>) \o config),
                     few \cup ((few \cup {}) \cup {"storedConfig"}), R)
    BY <1>8, <2>1, ServeTogether
  <2> QED BY <1>7, <2>2, Zenon
<1>13. /\ c = "bootstrap" => Google!Promised(c, cron) \subseteq
             few \cup (({"storedConfig"} \cup (few \cup more)) \cup inAgent)
       /\ c = "run" => Google!Promised(c, cron) \subseteq
             few \cup (((few \cup more) \cup {"storedConfig"}) \cup inStep)
       /\ c = "local" => Google!Promised(c, cron) \subseteq
             few \cup ((few \cup {}) \cup {"storedConfig"})
  <2>1. Google!TargetParts = inTargets
    BY GoogleOwners, StandFor DEF Google!TargetParts, inTargets, Google!With
  <2> HIDE DEF inTargets
  <2> QED BY <2>1 DEF Google!Promised, Google!StepParts, Google!AgentParts, few, more,
                      inAccount, inAgent, inStep, scheduled
<1>14. \A P, Q : P \subseteq Q /\ SeriesServes(Google!Setup(c, cron), Q, R)
                   => SeriesServes(Google!Setup(c, cron), P, R)
  BY DEF SeriesServes
<1> QED BY <1>10, <1>11, <1>12, <1>13, <1>14 DEF Setups

\* A service account's calls delete parts of a service account only.
LEMMA LookSpares ==
  ASSUME NEW R, NEW x, NEW found \in Seq({c \in Calls1 : Spares1(c, R)}),
         NEW missing \in Seq({c \in Calls1 : Spares1(c, R)})
  PROVE  Spares(Look(x, found, missing), R)
<1> DEFINE c == Look(x, found, missing)
<1>1. /\ \A i \in 1..Len(found) : Spares1(found[i], R)
      /\ \A i \in 1..Len(missing) : Spares1(missing[i], R)
  OBVIOUS
<1>2. c.do = "look" /\ c.found = found /\ c.missing = missing
  BY DEF Look
<1> HIDE DEF c
<1>3. Spares(c, R)
  BY <1>1, <1>2 DEF Spares, Spares0
<1> QED BY <1>3 DEF c

LEMMA AccountCallsSpare ==
  LET R == ServiceAccounts
  IN  /\ \A x \in {"saUserAttached", "saKey", "saUser", "userKey"} :
            /\ Remove({x}) \in Calls1 /\ Spares1(Remove({x}), R)
            /\ Try({x}, 0) \in Calls1 /\ Spares1(Try({x}, 0), R)
      /\ UpdatePolicy \in Calls1 /\ Spares1(UpdatePolicy, R)
      /\ \A x \in Part : Make(x) \in Calls1 /\ Spares1(Make(x), R)
<1>1. ASSUME NEW x \in {"saUserAttached", "saKey", "saUser", "userKey"}
      PROVE  /\ Remove({x}) \in Calls1 /\ Spares1(Remove({x}), ServiceAccounts)
             /\ Try({x}, 0) \in Calls1 /\ Spares1(Try({x}, 0), ServiceAccounts)
  <2>1. Contents(x) = {}
    BY GoogleOwners DEF Contents, Aws!Contents, Google!Contents
  <2>2. GoesWith({x}) \subseteq ServiceAccounts
    BY <2>1 DEF GoesWith, ServiceAccounts, Aws!ServiceAccountParts,
                Google!ServiceAccountParts
  <2>3. {x} \in Together
    BY Parts DEF Together
  <2>4. Remove({x}) \in Calls1 /\ Try({x}, 0) \in Calls1
    BY <2>3, SimpleOnes, MoreCalls
  <2>5. /\ Spares1(Remove({x}), ServiceAccounts)
        /\ Spares1(Try({x}, 0), ServiceAccounts)
    BY <2>2 DEF Spares1, Spares0, Remove, Try
  <2> QED BY <2>4, <2>5
<1>2. UpdatePolicy \in Calls1 /\ Spares1(UpdatePolicy, ServiceAccounts)
  <2>1. Spares1(UpdatePolicy, ServiceAccounts)
    BY DEF Spares1, Spares0, UpdatePolicy
  <2> QED BY <2>1, SimpleOnes, MoreCalls
<1>3. \A x \in Part : Make(x) \in Calls1 /\ Spares1(Make(x), ServiceAccounts)
  BY SimpleOnes, MoreCalls, MakesSpare, Zenon
<1> QED BY <1>1, <1>2, <1>3

LEMMA AwsAccountSpares ==
  ASSUME NEW c \in {"user", "trust"}, NEW flag \in BOOLEAN
  PROVE  DeletesOnly(Aws!CreateServiceAccount(c, flag, flag), ServiceAccounts)
<1> USE DEF Aws!Make, Aws!Look, Aws!Remove, Aws!Try, Aws!UpdatePolicy
<1> DEFINE Good == {d \in Calls1 : Spares1(d, ServiceAccounts)}
<1>1. /\ \A x \in {"saUserAttached", "saKey", "saUser"} :
            Remove({x}) \in Good /\ Try({x}, 0) \in Good
      /\ UpdatePolicy \in Good /\ \A x \in Part : Make(x) \in Good
  BY AccountCallsSpare
<1>2. {"saPolicy", "saUser", "saUserAttached", "saKey", "saRole", "saRoleAttached"}
        \subseteq Part
  BY Parts
<1> HIDE DEF Good
<1>3. /\ <<UpdatePolicy>> \in Seq(Good) /\ <<Make("saPolicy")>> \in Seq(Good)
      /\ <<Remove({"saKey"}), Make("saKey")>> \in Seq(Good)
      /\ <<Make("saUser"), Make("saUserAttached"), Make("saKey")>> \in Seq(Good)
      /\ <<Try({"saUserAttached"}, 0), Try({"saKey"}, 0), Try({"saUser"}, 0)>> \in Seq(Good)
      /\ <<Make("saRole"), Make("saRoleAttached")>> \in Seq(Good)
      /\ <<>> \in Seq(Good)
  BY <1>1, <1>2
<1> DEFINE policy == Look("saPolicy", <<UpdatePolicy>>, <<Make("saPolicy")>>)
           user == Look("saUser", IF flag THEN <<Remove({"saKey"}), Make("saKey")>> ELSE <<>>,
                        <<Make("saUser"), Make("saUserAttached"), Make("saKey")>>)
           old == Look("saUser",
                       IF flag THEN <<Try({"saUserAttached"}, 0), Try({"saKey"}, 0),
                                      Try({"saUser"}, 0)>> ELSE <<>>, <<>>)
           role == Look("saRole", <<>>, <<Make("saRole"), Make("saRoleAttached")>>)
<1>4. /\ Spares(policy, ServiceAccounts) /\ Spares(user, ServiceAccounts)
      /\ Spares(old, ServiceAccounts) /\ Spares(role, ServiceAccounts)
  BY <1>3, LookSpares, Zenon DEF Good
<1>5. Aws!CreateServiceAccount(c, flag, flag) =
         <<policy>> \o (IF c = "user" THEN <<user>> ELSE <<old, role>>)
  BY DEF Aws!CreateServiceAccount, Aws!DeleteServiceUser, Make, Look, Remove, Try,
         UpdatePolicy
<1> HIDE DEF policy, user, old, role
<1> DEFINE Any == {policy, user, old, role}
<1>6. /\ <<policy>> \in Seq(Any) /\ <<user>> \in Seq(Any) /\ <<old, role>> \in Seq(Any)
  OBVIOUS
<1>7. Aws!CreateServiceAccount(c, flag, flag) \in Seq(Any)
  <2> HIDE DEF Any
  <2> QED BY <1>5, <1>6
<1>8. \A d \in Any : Spares(d, ServiceAccounts)
  BY <1>4
<1> HIDE DEF Any
<1> QED BY <1>7, <1>8 DEF DeletesOnly

LEMMA GoogleAccountSpares ==
  ASSUME NEW c \in {"user", "trust"}, NEW flag \in BOOLEAN
  PROVE  DeletesOnly(Google!CreateServiceAccount(c, flag, flag), ServiceAccounts)
<1> USE DEF Google!Make, Google!Look, Google!Remove, Google!GetOrMake
<1> DEFINE Good == {d \in Calls1 : Spares1(d, ServiceAccounts)}
<1>1. {"userAccount", "userAccountRoles", "userProjectRoles", "userKey", "trust"}
        \subseteq Part \ Aws!Owners
  BY Parts, AwsOwners
<1>2. /\ Remove({"userKey"}) \in Good
      /\ \A x \in Part : Make(x) \in Good
      /\ GetOrMake("trust") \in Good
  <2>1. GetOrMake("trust") \in Calls1
    BY <1>1, GetOrMakes DEF Calls1
  <2>2. Spares1(GetOrMake("trust"), ServiceAccounts)
    BY MakesSpare DEF GetOrMake
  <2> QED BY <2>1, <2>2, AccountCallsSpare
<1> HIDE DEF Good
<1> DEFINE roles == <<Make("userAccountRoles"), Make("userProjectRoles")>>
           created == <<Make(IF c = "user" THEN "userKey" ELSE "trust")>>
           exists == CASE c = "user" /\ flag -> <<Remove({"userKey"}), Make("userKey")>>
                       [] c = "user" /\ ~flag -> <<>>
                       [] c = "trust" /\ flag -> <<Remove({"userKey"}), GetOrMake("trust")>>
                       [] c = "trust" /\ ~flag -> <<GetOrMake("trust")>>
           account == <<Make("userAccount")>>
<1>3. Google!CreateServiceAccount(c, flag, flag) =
        <<Look("userAccount", roles \o exists, account \o roles \o created)>>
  BY DEF Google!CreateServiceAccount, Make, Look, Remove, GetOrMake
<1>4. /\ roles \in Seq(Good) /\ created \in Seq(Good) /\ account \in Seq(Good)
      /\ <<Remove({"userKey"}), Make("userKey")>> \in Seq(Good) /\ <<>> \in Seq(Good)
      /\ <<Remove({"userKey"}), GetOrMake("trust")>> \in Seq(Good)
      /\ <<GetOrMake("trust")>> \in Seq(Good)
  BY <1>1, <1>2
<1>5. exists \in Seq(Good)
  <2>1. CASE c = "user" /\ flag
    BY <2>1, <1>4
  <2>2. CASE c = "user" /\ ~flag
    BY <2>2, <1>4
  <2>3. CASE c = "trust" /\ flag
    BY <2>3, <1>4
  <2>4. CASE c = "trust" /\ ~flag
    BY <2>4, <1>4
  <2> QED BY <2>1, <2>2, <2>3, <2>4
<1> HIDE DEF roles, created, exists, account
<1>6. roles \o exists \in Seq(Good) /\ account \o roles \o created \in Seq(Good)
  BY <1>4, <1>5
<1> DEFINE d == Look("userAccount", roles \o exists, account \o roles \o created)
<1>7. Spares(d, ServiceAccounts)
  BY <1>6, LookSpares, Zenon DEF Good
<1> HIDE DEF d
<1>8. Google!CreateServiceAccount(c, flag, flag) = <<d>>
  BY <1>3 DEF d
<1> DEFINE q == <<d>>
<1>9. \A i \in 1..Len(q) : q[i] = d
  OBVIOUS
<1> HIDE DEF q
<1>10. DeletesOnly(q, ServiceAccounts)
  BY <1>7, <1>9 DEF DeletesOnly
<1> QED BY <1>8, <1>10 DEF q

-----------------------------------------------------------------------------
LEMMA KindsAre ==
  /\ \A c \in Setups : Kind(c) = "setup" /\ c \in AllCommands /\ c # "none"
  /\ \A c \in {"user", "trust"} : Kind(c) = "account" /\ c \notin Setups
  /\ Kind("delete") = "delete" /\ "delete" \notin Setups /\ "none" \notin Setups
  /\ AllCommands = Setups \cup {"user", "trust", "delete"}
BY DEF Kind, Setups, AllCommands

LEMMA PromisesAre ==
  ASSUME NEW c \in Setups
  PROVE  /\ Aws!Promised(c, TRUE) \subseteq
              Aws!Promised(c, FALSE) \cup {"schedule"} \cup StandsFor("scheduleRole")
         /\ Google!Promised(c, TRUE) \subseteq Google!Promised(c, FALSE) \cup {"agentSchedule"}
         /\ \A cron \in BOOLEAN :
              /\ Aws!Promised(c, cron) \subseteq Aws!Part
              /\ Google!Promised(c, cron) \subseteq Google!Part
              /\ c = "local" => /\ Aws!Promised(c, cron) = Aws!Promised(c, FALSE)
                                /\ Google!Promised(c, cron) = Google!Promised(c, FALSE)
         /\ Promised(c, FALSE) \cap Schedules = {}
<1>1. /\ Aws!Family["buildRole"] = {"buildAdmin", "buildPolicy", "buildAttached"}
      /\ Aws!Family["pipelineRole"] = {"pipelinePolicy", "pipelineAttached"}
      /\ Aws!Family["scheduleRole"] = {"schedulePolicy", "scheduleAttached"}
  BY DEF Aws!Family
<1>2. /\ Google!TargetParts =
            {"planTarget", "applyTarget", "planTargetAccount", "applyTargetAccount"}
      /\ Google!AgentParts = {"agentAccount", "accountRoles", "projectRoles"}
  BY GoogleOwners DEF Google!TargetParts, Google!With, Google!AgentParts
<1>3. /\ Aws!Promised(c, TRUE) \subseteq
           Aws!Promised(c, FALSE) \cup {"schedule"} \cup StandsFor("scheduleRole")
      /\ Google!Promised(c, TRUE) \subseteq Google!Promised(c, FALSE) \cup {"agentSchedule"}
  BY <1>1, StandFor DEF Aws!Promised, Google!Promised
<1>4. ASSUME NEW cron \in BOOLEAN PROVE Aws!Promised(c, cron) \subseteq Aws!Part
  BY <1>1, AwsParts DEF Aws!Promised, Aws!BucketParts, Aws!StepParts
<1>5. ASSUME NEW cron \in BOOLEAN PROVE Google!Promised(c, cron) \subseteq Google!Part
  BY <1>2, GoogleParts DEF Google!Promised, Google!StepParts
<1>6. \A cron \in BOOLEAN :
        c = "local" => /\ Aws!Promised(c, cron) = Aws!Promised(c, FALSE)
                       /\ Google!Promised(c, cron) = Google!Promised(c, FALSE)
  BY DEF Aws!Promised, Google!Promised
<1>7. Promised(c, FALSE) \cap Schedules = {}
  <2>1. "schedule" \notin Aws!Promised(c, FALSE) /\ "agentSchedule" \notin Aws!Promised(c, FALSE)
    BY <1>1 DEF Aws!Promised, Aws!BucketParts, Aws!StepParts
  <2>2. /\ "schedule" \notin Google!Promised(c, FALSE)
        /\ "agentSchedule" \notin Google!Promised(c, FALSE)
    BY <1>2 DEF Google!Promised, Google!StepParts
  <2> QED BY <2>1, <2>2, Zenon DEF Promised, Schedules
<1> QED BY <1>3, <1>4, <1>5, <1>6, <1>7, Zenon

LEMMA AccountsApart == Aws!Part \cap Google!Part = {}
<1>1. \A p \in Google!Part : p \notin Aws!Part
  BY AwsParts, GoogleParts
<1> QED BY <1>1

\* No setup is for a part of a service account, nor for what such a part
\* stands for.
LEMMA AccountsNotPromised ==
  ASSUME NEW c \in Setups, NEW cron \in BOOLEAN, NEW x \in ServiceAccounts
  PROVE  StandsFor(x) \cap Promised(c, cron) = {}
<1> DEFINE all == {"saPolicy", "saUser", "saUserAttached", "saKey", "saRole",
                   "saRoleAttached", "userAccount", "userAccountRoles",
                   "userProjectRoles", "userKey", "trust"}
<1>1. x \in all
  BY DEF ServiceAccounts, Aws!ServiceAccountParts, Google!ServiceAccountParts
<1>2. StandsFor(x) \subseteq all
  <2>1. CASE x \in {"saUser", "saRole"}
    BY <2>1, StandFor
  <2>2. CASE x \notin {"saUser", "saRole"}
    <3>1. x \notin Owners
      BY <1>1, <2>2, AwsOwners, GoogleOwners DEF Owners
    <3> QED BY <1>1, <3>1, StandFor
  <2> QED BY <2>1, <2>2
<1>3. all \cap Aws!Promised(c, cron) = {}
  <2>1. /\ Aws!Family["buildRole"] = {"buildAdmin", "buildPolicy", "buildAttached"}
        /\ Aws!Family["pipelineRole"] = {"pipelinePolicy", "pipelineAttached"}
        /\ Aws!Family["scheduleRole"] = {"schedulePolicy", "scheduleAttached"}
    BY DEF Aws!Family
  <2> QED BY <2>1 DEF Aws!Promised, Aws!BucketParts, Aws!StepParts
<1>4. all \cap Google!Promised(c, cron) = {}
  BY GoogleOwners DEF Google!Promised, Google!TargetParts, Google!With,
                      Google!AgentParts, Google!StepParts
<1> QED BY <1>2, <1>3, <1>4 DEF Promised

\* The calls a setup begins with supply all it is for, and delete none of it.
LEMMA SetupBegins ==
  ASSUME AccountInv, NEW s \in Sessions, BeginSetup(s)
  PROVE  \E c, calls, taken :
           LET W == Promised(c, (taken \cap scope) \cap Schedules = {}) \cap scope
           IN  /\ c \in Setups /\ Begin(s, c, calls, taken)
               /\ SeriesServes(calls, W, Schedules \ W)
<1>1. PICK c \in Setups, cron \in BOOLEAN :
        Begin(s, c, IF OfGoogle THEN Google!Setup(c, cron) ELSE Aws!Setup(c, cron),
              IF cron \/ c = "local" THEN {} ELSE Schedules)
  BY DEF BeginSetup, Setups
<1> DEFINE calls == IF OfGoogle THEN Google!Setup(c, cron) ELSE Aws!Setup(c, cron)
           taken == IF cron \/ c = "local" THEN {} ELSE Schedules
           quiet == (taken \cap scope) \cap Schedules = {}
           W == Promised(c, quiet) \cap scope
<1>2. quiet \in BOOLEAN /\ (cron => quiet)
  OBVIOUS
<1>3. ASSUME ~cron, c # "local", quiet PROVE Schedules \cap scope = {}
  BY <1>3
<1>4. ~cron /\ c # "local" => W \cap Schedules = {}
  <2>1. CASE ~cron /\ c # "local" /\ quiet
    BY <2>1, <1>3
  <2>2. CASE ~quiet
    <3>1. W \subseteq Promised(c, FALSE)
      BY <2>2, Zenon
    <3> QED BY <3>1, PromisesAre, Zenon
  <2> QED BY <2>1, <2>2
<1>5. /\ ~cron /\ c # "local" => "schedule" \in Schedules \ W
      /\ ~cron /\ c # "local" => "agentSchedule" \in Schedules \ W
  BY <1>4 DEF Schedules
<1>6. /\ scope \subseteq Aws!Part \/ scope \subseteq Google!Part
      /\ "scheduleRole" \in scope => "schedule" \in scope
      /\ \A o \in Owners : Family[o] \cap scope # {} => o \in scope
  BY ScopesAssumption DEF AccountInv
<1>7. CASE OfGoogle
  <2>1. W \subseteq Google!Promised(c, quiet)
    BY <1>2, <1>7, PromisesAre, AccountsApart, Zenon DEF OfGoogle, Promised
  <2>2. W \subseteq Google!Promised(c, cron)
    <3>1. CASE quiet = cron \/ c = "local"
      BY <2>1, <3>1, <1>2, PromisesAre, Zenon
    <3>2. CASE ~cron /\ quiet /\ c # "local"
      <4>1. "agentSchedule" \notin W
        BY <1>3, <3>2 DEF Schedules
      <4> QED BY <2>1, <3>2, <4>1, PromisesAre, Zenon
    <3> QED BY <1>2, <3>1, <3>2
  <2> HIDE DEF W
  <2>3. SeriesServes(Google!Setup(c, cron), Google!Promised(c, cron), Schedules \ W)
    BY <1>5, GoogleSetupServes
  <2>4. SeriesServes(calls, W, Schedules \ W)
    BY <1>7, <2>2, <2>3 DEF SeriesServes
  <2> QED BY <1>1, <2>4, Zenon DEF W
<1>8. CASE ~OfGoogle
  <2>1. W \subseteq Aws!Promised(c, quiet)
    BY <1>2, <1>6, <1>8, PromisesAre, AccountsApart, Zenon DEF OfGoogle, Promised
  <2>2. W \subseteq Aws!Promised(c, cron)
    <3>1. CASE quiet = cron \/ c = "local"
      BY <2>1, <3>1, <1>2, PromisesAre, Zenon
    <3>2. CASE ~cron /\ quiet /\ c # "local"
      <4>1. "schedule" \notin scope
        BY <1>3, <3>2 DEF Schedules
      <4>2. StandsFor("scheduleRole") \cap scope = {}
        BY <1>6, <4>1 DEF StandsFor
      <4> QED BY <2>1, <3>2, <4>1, <4>2, PromisesAre, Zenon
    <3> QED BY <1>2, <3>1, <3>2
  <2> HIDE DEF W
  <2>3. SeriesServes(Aws!Setup(c, cron), Aws!Promised(c, cron), Schedules \ W)
    BY <1>5, AwsSetupServes
  <2>4. SeriesServes(calls, W, Schedules \ W)
    BY <1>8, <2>2, <2>3 DEF SeriesServes
  <2> QED BY <1>1, <2>4, Zenon DEF W
<1> QED BY <1>7, <1>8

-----------------------------------------------------------------------------
\* A session begins.
LEMMA BeginKeepsSetup ==
  ASSUME AccountInv, DeleteInv, SetupInv, NEW s \in Sessions,
         NEW c, NEW calls \in Seq(AnyCall), NEW taken, Begin(s, c, calls, taken),
         LET W == Promised(c, (taken \cap scope) \cap Schedules = {}) \cap scope
         IN  c \in Setups => SeriesServes(calls, W, Schedules \ W),
         Kind(c) = "account" => DeletesOnly(calls, ServiceAccounts)
  PROVE  SetupInv'
<1> DEFINE W == Promised(c, (taken \cap scope) \cap Schedules = {}) \cap scope
<1>1. /\ c \in Commands /\ command[s] = "none" /\ GoesOn(s, calls)
      /\ command' = [command EXCEPT ![s] = c]
      /\ takes' = [takes EXCEPT ![s] = taken \cap scope]
      /\ overlapped' = [t \in Sessions |->
           CASE t = s -> {Kind(command[u]) : u \in Running}
             [] t \in Running -> overlapped[t] \cup {Kind(c)}
             [] OTHER -> {}]
      /\ UNCHANGED <<scope, parts>>
      /\ command \in [Sessions -> Commands \cup {"none"}]
      /\ takes \in [Sessions -> SUBSET scope]
  BY DEF Begin, AccountInv, DeleteInv
<1>2. c # "none" /\ c \in AllCommands
  BY <1>1, CommandsAssumption DEF AllCommands
<1>3. /\ command'[s] = c /\ \A t \in Sessions \ {s} : command'[t] = command[t]
      /\ s \notin Running /\ Running' = Running \cup {s}
  BY <1>1, <1>2 DEF Running
<1>4. \A t \in Running : t # s /\ t \in Sessions /\ todo'[t] = todo[t] /\ takes'[t] = takes[t]
  <2>1. \A t \in Sessions \ {s} : todo'[t] = todo[t]
    BY <1>1 DEF GoesOn, AccountInv, CallsOK
  <2> QED BY <2>1, <1>1, <1>3 DEF Running
<1>5. overlapped'[s] = {Kind(command[u]) : u \in Running}
  BY <1>1, <1>3
<1>6. \A t \in Running : overlapped'[t] = overlapped[t] \cup {Kind(c)}
  BY <1>1, <1>4
<1>7. takes'[s] = taken \cap scope
  BY <1>1
<1>8. Wanted(s)' = W /\ \A t \in Running : Wanted(t)' = Wanted(t)
  <2>1. Wanted(s)' = W
    BY <1>1, <1>3, <1>7 DEF Wanted
  <2>2. \A t \in Running : Wanted(t)' = Wanted(t)
    BY <1>1, <1>3, <1>4 DEF Wanted
  <2> QED BY <2>1, <2>2
<1>9. c \in Setups => SeriesServes(calls, W, Schedules \ W)
  OBVIOUS
<1>10. /\ \A p \in scope : Supplies(calls, p) => Supplies(todo'[s], p)
       /\ \A R : DeletesOnly(calls, R) => DeletesOnly(todo'[s], R)
  BY <1>1, SuppliesGoOn
<1>11. W \subseteq scope
  OBVIOUS
<1> HIDE DEF W
<1>12. \A t, u \in Running' : t # u => Kind(command'[u]) \in overlapped'[t]
  <2> SUFFICES ASSUME NEW t \in Running', NEW u \in Running', t # u
               PROVE  Kind(command'[u]) \in overlapped'[t]
    OBVIOUS
  <2>1. CASE t = s
    BY <2>1, <1>3, <1>4, <1>5
  <2>2. CASE t # s /\ u = s
    BY <2>2, <1>3, <1>6
  <2>3. CASE t # s /\ u # s
    <3>1. Kind(command[u]) \in overlapped[t] /\ command'[u] = command[u]
      BY <2>3, <1>3, <1>4 DEF SetupInv
    <3> QED BY <3>1, <2>3, <1>3, <1>6
  <2> QED BY <2>1, <2>2, <2>3
<1>13. \A t \in Running' : Careful(t)'
  <2>1. Careful(s)'
    <3>1. c \in Setups => DeletesOnly(todo'[s], Schedules \ W)
      BY <1>9, <1>10 DEF SeriesServes
    <3>2. Kind(c) = "account" => DeletesOnly(todo'[s], ServiceAccounts)
      BY <1>10
    <3> QED BY <3>1, <3>2, <1>3, <1>8 DEF Careful
  <2>2. ASSUME NEW t \in Running PROVE Careful(t)'
    <3>1. Careful(t) /\ command'[t] = command[t]
      BY <1>3, <1>4 DEF SetupInv
    <3> QED BY <3>1, <1>4, <1>8, Zenon DEF Careful
  <2> QED BY <2>1, <2>2, <1>3
<1>14. ASSUME NEW t \in Running', command'[t] \in Setups, "delete" \notin overlapped'[t]
       PROVE  Supplied(t)'
  <2>1. CASE t = s
    <3>1. \A p \in W : Supplies(todo'[s], p)
      BY <2>1, <1>3, <1>9, <1>10, <1>11, <1>14 DEF SeriesServes
    <3> QED BY <3>1, <2>1, <1>8 DEF Supplied
  <2>2. CASE t # s
    <3>1. t \in Running /\ command'[t] = command[t] /\ overlapped[t] \subseteq overlapped'[t]
      BY <2>2, <1>3, <1>4, <1>6
    <3>2. Supplied(t)
      BY <3>1, <1>14 DEF SetupInv
    <3> QED BY <3>1, <3>2, <1>1, <1>4, <1>8 DEF Supplied
  <2> QED BY <2>1, <2>2
<1> QED BY <1>12, <1>13, <1>14 DEF SetupInv

LEMMA BeginningsKeepSetup ==
  ASSUME AccountInv, DeleteInv, SetupInv, NEW s \in Sessions,
         BeginSetup(s) \/ BeginServiceAccount(s) \/ BeginDelete(s)
  PROVE  SetupInv'
<1>1. CASE BeginSetup(s)
  <2>1. PICK c, calls, taken :
           LET W == Promised(c, (taken \cap scope) \cap Schedules = {}) \cap scope
           IN  /\ c \in Setups /\ Begin(s, c, calls, taken)
               /\ SeriesServes(calls, W, Schedules \ W)
    BY <1>1, SetupBegins
  <2>2. calls \in Seq(AnyCall) /\ Kind(c) # "account"
    BY <2>1, KindsAre DEF SeriesServes
  <2> QED BY <2>1, <2>2, BeginKeepsSetup, Zenon
<1>2. CASE BeginServiceAccount(s)
  <2>1. PICK c \in {"user", "trust"}, flag \in BOOLEAN :
        Begin(s, c, IF OfGoogle THEN Google!CreateServiceAccount(c, flag, flag)
                                ELSE Aws!CreateServiceAccount(c, flag, flag),
              CASE ~flag -> {}
                [] c = "user" -> {"saKey", "userKey"}
                [] c = "trust" -> {"saUser", "userKey"} \cup Family["saUser"])
    BY <1>2 DEF BeginServiceAccount
  <2> DEFINE calls == IF OfGoogle THEN Google!CreateServiceAccount(c, flag, flag)
                                  ELSE Aws!CreateServiceAccount(c, flag, flag)
  <2>2. Series(calls)
    BY GoogleServiceAccounts, AwsServiceAccounts
  <2>3. DeletesOnly(calls, ServiceAccounts)
    BY GoogleAccountSpares, AwsAccountSpares
  <2>4. c \notin Setups
    BY KindsAre
  <2> HIDE DEF calls
  <2>5. \E taken : Begin(s, c, calls, taken)
    BY <2>1 DEF calls
  <2>6. calls \in Seq(AnyCall)
    BY <2>2 DEF Series
  <2> QED BY <2>3, <2>4, <2>5, <2>6, BeginKeepsSetup, Zenon
<1>3. CASE BeginDelete(s)
  <2>1. PICK calls, taken : calls \in Seq(AnyCall) /\ Begin(s, "delete", calls, taken)
    BY <1>3, DeleteIsSeries DEF Series
  <2>2. "delete" \notin Setups /\ Kind("delete") # "account"
    BY KindsAre
  <2> QED BY <2>1, <2>2, BeginKeepsSetup, Zenon
<1> QED BY <1>1, <1>2, <1>3

\* A step of a session that runs: what it is about to do is still careful,
\* and nobody loses a part he is for.
LEMMA StepKeepsSetup ==
  ASSUME AccountInv, DeleteInv, SetupInv, NEW s \in Running,
         UNCHANGED <<scope, command, takes, overlapped>>,
         NEW calls \in Seq(AnyCall), GoesOn(s, calls),
         \A R : DeletesOnly(todo[s], R) => DeletesOnly(calls, R),
         \A p : Supplies(todo[s], p) =>
                  Supplies(calls, p) \/ \E x \in parts' : p \in StandsFor(x),
         \A x \in parts \ parts' : \A R : Spares(Call(s), R) => x \in R,
         todo[s] # <<>>
  PROVE  SetupInv'
<1>1. /\ Running' = Running /\ s \in Sessions
      /\ \A t \in Running : /\ Wanted(t)' = Wanted(t) /\ command'[t] = command[t]
                            /\ overlapped'[t] = overlapped[t]
  BY DEF Running, Wanted
<1>2. \A t \in Running \ {s} : todo'[t] = todo[t]
  BY <1>1 DEF GoesOn, AccountInv, CallsOK, Running
<1>3. /\ \A p \in scope : Supplies(calls, p) => Supplies(todo'[s], p)
      /\ \A R : DeletesOnly(calls, R) => DeletesOnly(todo'[s], R)
  BY <1>1, SuppliesGoOn
<1>4. \A t \in Running' : Careful(t)'
  <2>1. Careful(s)'
    <3>1. Careful(s)
      BY DEF SetupInv
    <3> QED BY <3>1, <1>1, <1>3, Zenon DEF Careful
  <2>2. ASSUME NEW t \in Running \ {s} PROVE Careful(t)'
    <3>1. Careful(t)
      BY DEF SetupInv
    <3> QED BY <3>1, <1>1, <1>2, Zenon DEF Careful
  <2> QED BY <2>1, <2>2, <1>1
<1>5. ASSUME NEW t \in Running, command[t] \in Setups, "delete" \notin overlapped[t],
             NEW x \in parts \ parts', NEW p \in Wanted(t) \cap StandsFor(x)
      PROVE  p \in Schedules /\ "setup" \in overlapped[t]
  <2>1. \A R : Spares(Call(s), R) => x \in R
    OBVIOUS
  <2>2. DeletesOnly(todo[s], Schedules \ Wanted(s)) => x \in Schedules \ Wanted(s)
    BY <2>1, <1>1, FirstCall, SuppliesTail DEF AccountInv
  <2>3. DeletesOnly(todo[s], ServiceAccounts) => x \in ServiceAccounts
    BY <2>1, <1>1, FirstCall, SuppliesTail DEF AccountInv
  <2>4. Careful(s) /\ (t # s => Kind(command[s]) \in overlapped[t])
    BY DEF SetupInv
  <2>5. command[s] \in Setups \cup {"user", "trust", "delete"}
    BY KindsAre, CommandsAssumption DEF AccountInv, Running
  <2>6. CASE command[s] \in Setups
    <3>1. x \in Schedules \ Wanted(s)
      BY <2>2, <2>4, <2>6 DEF Careful
    <3>2. StandsFor(x) = {x}
      <4>1. x \notin Owners
        BY <3>1, Families DEF Schedules
      <4> QED BY <4>1, StandFor
    <3>3. t # s
      BY <3>1, <3>2, <1>5
    <3> QED BY <2>4, <2>6, <3>1, <3>2, <3>3, KindsAre
  <2>7. CASE command[s] \in {"user", "trust"}
    <3>1. x \in ServiceAccounts
      BY <2>3, <2>4, <2>7, KindsAre DEF Careful
    <3>2. p \in Promised(command[t], takes[t] \cap Schedules = {})
      BY DEF Wanted
    <3>3. (takes[t] \cap Schedules = {}) \in BOOLEAN
      OBVIOUS
    <3> QED BY <1>5, <3>1, <3>2, <3>3, AccountsNotPromised, Zenon
  <2>8. CASE command[s] = "delete"
    BY <1>5, <2>4, <2>8, KindsAre
  <2> QED BY <2>5, <2>6, <2>7, <2>8
<1>6. ASSUME NEW t \in Running, command[t] \in Setups, "delete" \notin overlapped[t]
      PROVE  Supplied(t)'
  <2> SUFFICES ASSUME NEW p \in Wanted(t)
               PROVE  \/ \E x \in parts' : p \in StandsFor(x)
                      \/ Supplies(todo'[t], p)
                      \/ p \in Schedules /\ "setup" \in overlapped[t]
    BY <1>1 DEF Supplied
  <2>1. \/ \E x \in parts : p \in StandsFor(x)
        \/ Supplies(todo[t], p)
        \/ p \in Schedules /\ "setup" \in overlapped[t]
    BY <1>6 DEF SetupInv, Supplied
  <2>2. CASE \E x \in parts : p \in StandsFor(x)
    BY <2>2, <1>5, <1>6
  <2>3. CASE Supplies(todo[t], p)
    <3>1. p \in scope
      BY DEF Wanted
    <3> QED BY <2>3, <3>1, <1>2, <1>3
  <2> QED BY <2>1, <2>2, <2>3
<1>7. \A t, u \in Running' : t # u => Kind(command'[u]) \in overlapped'[t]
  BY <1>1 DEF SetupInv
<1> QED BY <1>1, <1>4, <1>6, <1>7 DEF SetupInv

LEMMA LookKeepsSetup ==
  ASSUME AccountInv, DeleteInv, SetupInv, NEW s \in Running, LookUp(s)
  PROVE  SetupInv'
<1> DEFINE q == todo[s]
           c == Call(s)
           answer == IF c.part \in parts THEN c.found ELSE c.missing
           calls == answer \o Tail(q)
<1>1. /\ q # <<>> /\ c.do = "look" /\ s \in Sessions
      /\ UNCHANGED <<scope, parts, command, takes, overlapped>>
  BY DEF LookUp, Calls, Running
<1>2. GoesOn(s, calls)
  BY DEF LookUp
<1>3. /\ q \in Seq(AnyCall) /\ q[1] = c /\ Tail(q) \in Seq(AnyCall) /\ c \in AnyCall
  BY <1>1, FirstCall DEF AccountInv
<1>4. c.found \in Seq(Calls1) /\ c.missing \in Seq(Calls1)
  <2>1. c \in LooksFor(SimpleCalls) \cup LooksFor(Calls1)
    BY <1>1, <1>3 DEF AnyCall, Calls1, SimpleCalls
  <2>2. \A S : c \in LooksFor(S) => c.found \in Seq(S) /\ c.missing \in Seq(S)
    BY DEF LooksFor
  <2> QED BY <2>1, <2>2, MoreCalls
<1> HIDE DEF c, q
<1>5. answer \in Seq(Calls1) /\ answer \in Seq(AnyCall)
  BY <1>4, MoreCalls
<1>6. \A R : Spares(c, R) => DeletesOnly(answer, R)
  <2> SUFFICES ASSUME NEW R, Spares(c, R) PROVE DeletesOnly(answer, R)
    OBVIOUS
  <2>1. \A i \in 1..Len(answer) : Spares1(answer[i], R) /\ answer[i] \in Calls1
    BY <1>1, <1>5 DEF Spares
  <2> QED BY <2>1, SparesMore DEF DeletesOnly
<1>7. \A p : SeesTo(c, p) => Supplies(answer, p) \/ \E x \in parts : p \in StandsFor(x)
  <2> SUFFICES ASSUME NEW p, SeesTo(c, p)
               PROVE  Supplies(answer, p) \/ \E x \in parts : p \in StandsFor(x)
    OBVIOUS
  <2>1. /\ \E i \in 1..Len(c.missing) : Sees1(c.missing[i], p)
        /\ p \in StandsFor(c.part) \/ \E i \in 1..Len(c.found) : Sees1(c.found[i], p)
    BY <1>1 DEF SeesTo, Sees0
  <2>2. CASE c.part \notin parts
    BY <2>1, <2>2, SeesMore DEF Supplies
  <2>3. CASE c.part \in parts
    BY <2>1, <2>3, SeesMore DEF Supplies
  <2> QED BY <2>2, <2>3
<1> HIDE DEF answer
<1>8. calls \in Seq(AnyCall)
  BY <1>3, <1>5
<1>9. \A R : DeletesOnly(q, R) => DeletesOnly(calls, R)
  BY <1>1, <1>3, <1>5, <1>6, SuppliesTail, SuppliesConcat, Zenon
<1>10. \A p : Supplies(q, p) => Supplies(calls, p) \/ \E x \in parts : p \in StandsFor(x)
  BY <1>1, <1>3, <1>5, <1>7, SuppliesTail, SuppliesConcat, Zenon
<1> HIDE DEF calls
<1> QED BY <1>1, <1>2, <1>8, <1>9, <1>10, StepKeepsSetup DEF q

\* What is left out when another session has made the bucket stands with it.
LEMMA BucketSupplies ==
  ASSUME AccountInv, NEW s \in Sessions, Calls(s, "make"), Call(s).part = "bucket"
  PROVE  /\ \A R : DeletesOnly(todo[s], R) => DeletesOnly(Skip(todo[s], 2), R)
         /\ \A p : Supplies(todo[s], p) =>
                     Supplies(Skip(todo[s], 2), p) \/ p \in StandsFor("bucket")
<1> DEFINE q == todo[s]
<1>1. q \in Seq(AnyCall) /\ Len(q) \in Nat \ {0} /\ Begun(q, "bucket") /\ q[1] = Make("bucket")
  BY FirstCall, AboutToMake, AwsOwners, Zenon DEF Calls, AccountInv, Begun
<1> HIDE DEF q
<1>2. PICK n \in 1..Len(q) :
          /\ \A i \in 2..n : q[i].do = "make" /\ q[i].part \in Family["bucket"]
          /\ \A p \in Family["bucket"] : \E i \in 2..n : q[i].part = p
          /\ \A i \in 2..n : q[i].part \in Repaired => i > 3
  BY <1>1, Zenon DEF Begun
<1>3. n >= 3
  <2>1. "tags" \in Family["bucket"] /\ "versioning" \in Family["bucket"]
    BY Families
  <2>2. PICK i \in 2..n : q[i].part = "tags"
    BY <1>2, <2>1
  <2>3. PICK j \in 2..n : q[j].part = "versioning"
    BY <1>2, <2>1
  <2>4. i # j
    BY <2>2, <2>3
  <2> QED BY <2>2, <2>3, <2>4
<1>4. 3 \in 0..Len(q) /\ 2 \in 2..n /\ 3 \in 2..n
  BY <1>1, <1>3
<1>5. ASSUME NEW i \in 2..3
      PROVE  q[i].do = "make" /\ q[i].part \in Family["bucket"] \ Repaired
  <2>1. i \in 2..n /\ ~(i > 3)
    BY <1>3
  <2> QED BY <1>2, <2>1, Zenon
<1>6. ASSUME NEW p, NEW i \in 1..3, SeesTo(q[i], p) PROVE p \in StandsFor("bucket")
  <2>1. CASE i = 1
    BY <1>1, <1>6, <2>1 DEF SeesTo, Sees0, Make
  <2>2. CASE i # 1
    <3>1. i \in 2..3
      BY <2>2
    <3>2. q[i].do = "make" /\ q[i].part \in Family["bucket"] \ Repaired
      BY <3>1, <1>5
    <3>3. p \in StandsFor(q[i].part)
      BY <1>6, <3>2 DEF SeesTo, Sees0
    <3>4. q[i].part \notin Owners
      BY <3>2, FamiliesApart, Families
    <3>5. p = q[i].part
      BY <3>3, <3>4, StandFor
    <3>6. "bucket" \in Owners
      BY Families
    <3> QED BY <3>2, <3>5, <3>6 DEF StandsFor
  <2> QED BY <2>1, <2>2
<1>7. Skip(q, 2) = SubSeq(q, 3 + 1, Len(q))
  BY DEF Skip
<1>8. \A R : DeletesOnly(q, R) => DeletesOnly(SubSeq(q, 3 + 1, Len(q)), R)
  BY <1>1, <1>4, DeletesOnlySuffix
<1>9. \A p : Supplies(q, p) /\ p \notin StandsFor("bucket")
               => Supplies(SubSeq(q, 3 + 1, Len(q)), p)
  BY <1>1, <1>4, <1>6, SuppliesSuffix
<1> QED BY <1>7, <1>8, <1>9, Zenon DEF q

LEMMA MakeKeepsSetup ==
  ASSUME AccountInv, DeleteInv, SetupInv, NEW s \in Running, MakePart(s)
  PROVE  SetupInv'
<1> DEFINE x == Call(s).part
           q == todo[s]
           calls == IF x = "bucket" /\ x \in parts THEN Skip(q, 2) ELSE Tail(q)
<1>1. /\ Calls(s, "make") /\ q # <<>> /\ Call(s).do = "make" /\ s \in Sessions
      /\ parts \subseteq parts' /\ x \in parts'
      /\ UNCHANGED <<scope, command, takes, overlapped>>
  BY DEF MakePart, Calls, Running
<1>2. /\ q \in Seq(AnyCall) /\ q[1] = Call(s) /\ Tail(q) \in Seq(AnyCall)
      /\ Len(q) \in Nat \ {0}
  BY <1>1, FirstCall DEF AccountInv
<1>3. GoesOn(s, calls)
  <2>1. GoesOn(s, Skip(q, IF x = "bucket" /\ x \in parts THEN 2 ELSE 0))
    BY DEF MakePart
  <2>2. Skip(q, 0) = Tail(q)
    BY <1>1, <1>2 DEF Skip
  <2> QED BY <2>1, <2>2
<1>4. \A p : SeesTo(Call(s), p) => p \in StandsFor(x)
  BY <1>1 DEF SeesTo, Sees0
<1> HIDE DEF x, q
<1>5. /\ calls \in Seq(AnyCall)
      /\ \A R : DeletesOnly(q, R) => DeletesOnly(calls, R)
      /\ \A p : Supplies(q, p) => Supplies(calls, p) \/ p \in StandsFor(x)
  <2>1. CASE x = "bucket" /\ x \in parts
    <3>1. Skip(q, 2) \in Seq(AnyCall)
      BY <1>1, <2>1, BucketSkips DEF x, q, AccountInv
    <3>2. /\ \A R : DeletesOnly(q, R) => DeletesOnly(Skip(q, 2), R)
          /\ \A p : Supplies(q, p) => Supplies(Skip(q, 2), p) \/ p \in StandsFor("bucket")
      BY <1>1, <2>1, BucketSupplies DEF x, q
    <3> QED BY <2>1, <3>1, <3>2
  <2>2. CASE ~(x = "bucket" /\ x \in parts)
    <3>1. /\ \A p : Supplies(q, p) => SeesTo(q[1], p) \/ Supplies(Tail(q), p)
          /\ \A R : DeletesOnly(q, R) => DeletesOnly(Tail(q), R)
      BY <1>1, <1>2, SuppliesTail
    <3> QED BY <1>2, <1>4, <2>2, <3>1
  <2> QED BY <2>1, <2>2
<1> HIDE DEF calls
<1>6. parts \ parts' = {}
  BY <1>1
<1> QED BY <1>1, <1>3, <1>5, <1>6, StepKeepsSetup DEF q

\* What is deleted, or left out when a deletion only warns, supplies nothing.
LEMMA DeletionSupplies ==
  ASSUME AccountInv, NEW s \in Sessions, todo[s] # <<>>, Deletes(Call(s))
  PROVE  LET calls == Skip(todo[s], Call(s).skips)
         IN  /\ \A R : DeletesOnly(todo[s], R) => DeletesOnly(calls, R)
             /\ \A p : Supplies(todo[s], p) => Supplies(calls, p)
<1> DEFINE q == todo[s]
           n == Call(s).skips + 1
<1>1. /\ q \in Seq(AnyCall) /\ Tidy(q) /\ q[1] = Call(s) /\ Len(q) \in Nat \ {0}
      /\ Call(s) \in AnyCall
  BY FirstCall DEF AccountInv, Deletes
<1>2. Call(s).skips \in Nat
  BY <1>1 DEF AnyCall, Calls1, SimpleCalls, LooksFor, Deletes
<1>3. \A j \in 1..Call(s).skips : 1 + j <= Len(q) /\ Deletes(q[1 + j])
  BY <1>1 DEF Tidy
<1> HIDE DEF q
<1>4. n \in 0..Len(q)
  BY <1>1, <1>2, <1>3
<1>5. ASSUME NEW i \in 1..n PROVE Deletes(q[i])
  <2>1. CASE i = 1
    BY <1>1, <2>1
  <2>2. CASE i # 1
    <3>1. i - 1 \in 1..Call(s).skips /\ 1 + (i - 1) = i
      BY <1>2, <2>2
    <3> QED BY <1>3, <3>1
  <2> QED BY <2>1, <2>2
<1>6. \A i \in 1..n : \A p : ~SeesTo(q[i], p)
  BY <1>5 DEF Deletes, SeesTo, Sees0
<1>7. Skip(q, Call(s).skips) = SubSeq(q, n + 1, Len(q))
  <2>1. n + 1 = Call(s).skips + 2
    BY <1>2
  <2> QED BY <2>1, Zenon DEF Skip
<1> HIDE DEF n
<1>8. \A R : DeletesOnly(q, R) => DeletesOnly(SubSeq(q, n + 1, Len(q)), R)
  BY <1>1, <1>4, DeletesOnlySuffix
<1>9. \A p : Supplies(q, p) => Supplies(SubSeq(q, n + 1, Len(q)), p)
  BY <1>1, <1>4, <1>6, SuppliesSuffix, Zenon
<1> QED BY <1>7, <1>8, <1>9 DEF q

LEMMA DeletionsKeepSetup ==
  ASSUME AccountInv, DeleteInv, SetupInv, NEW s \in Running,
         \/ UpdateSAPolicy(s) \/ RemovePart(s) \/ RemovalRefused(s) \/ RemovalFails(s)
         \/ TruncateBucket(s) \/ TruncateFails(s)
  PROVE  SetupInv'
<1>1. /\ todo[s] # <<>> /\ s \in Sessions
      /\ Call(s).do \in {"remove", "try", "truncate", "update"}
      /\ UNCHANGED <<scope, command, takes, overlapped>>
  BY DEF UpdateSAPolicy, RemovePart, RemovalRefused, RemovalFails, TruncateBucket,
         TruncateFails, Calls, Running
<1>2. PICK calls \in Seq(AnyCall) :
        /\ GoesOn(s, calls)
        /\ \A R : DeletesOnly(todo[s], R) => DeletesOnly(calls, R)
        /\ \A p : Supplies(todo[s], p) => Supplies(calls, p)
  <2>1. CASE GoesOn(s, Tail(todo[s]))
    <3>1. /\ todo[s] \in Seq(AnyCall) /\ Call(s) = todo[s][1]
          /\ Tail(todo[s]) \in Seq(AnyCall)
      BY <1>1, FirstCall DEF AccountInv
    <3>2. \A p : ~SeesTo(Call(s), p)
      BY <1>1 DEF SeesTo, Sees0
    <3>3. /\ \A p : Supplies(todo[s], p) => SeesTo(todo[s][1], p) \/ Supplies(Tail(todo[s]), p)
          /\ \A R : DeletesOnly(todo[s], R) => DeletesOnly(Tail(todo[s]), R)
      BY <1>1, <3>1, SuppliesTail
    <3> QED BY <2>1, <3>1, <3>2, <3>3, Zenon
  <2>2. CASE Deletes(Call(s)) /\ GoesOn(s, Skip(todo[s], Call(s).skips))
    BY <1>1, <2>2, DeletionSupplies, DeletionGoesOn, Zenon DEF AccountInv
  <2> QED BY <2>1, <2>2
       DEF UpdateSAPolicy, RemovePart, RemovalRefused, RemovalFails, TruncateBucket,
           TruncateFails, Calls, Deletes
<1>3. ASSUME NEW x \in parts \ parts', NEW R, Spares(Call(s), R) PROVE x \in R
  <2>1. ~TruncateBucket(s) /\ ~TruncateFails(s)
    BY <1>3 DEF TruncateBucket, TruncateFails, Calls, Spares, Spares0
  <2>2. ~UpdateSAPolicy(s) /\ ~RemovalRefused(s)
    BY <1>3 DEF UpdateSAPolicy, RemovalRefused
  <2>3. x \in GoesWith(Call(s).parts) /\ Call(s).do \in {"remove", "try"}
    <3>1. CASE RemovePart(s)
      BY <1>3, <3>1 DEF RemovePart, Delete1, Calls, GoesWith
    <3>2. CASE RemovalFails(s)
      BY <1>3, <3>2 DEF RemovalFails, Delete1, Calls, GoesWith
    <3> QED BY <2>1, <2>2, <3>1, <3>2
  <2> QED BY <1>3, <2>3 DEF Spares, Spares0
<1>4. \A p : Supplies(todo[s], p) =>
               Supplies(calls, p) \/ \E x \in parts' : p \in StandsFor(x)
  BY <1>2
<1> QED BY <1>1, <1>2, <1>3, <1>4, StepKeepsSetup

LEMMA EndKeepsSetup ==
  ASSUME AccountInv, DeleteInv, SetupInv, NEW s \in Sessions,
         End(s) \/ BreaksOff(s) \/ Collides(s) \/ UpdateCollides(s)
  PROVE  SetupInv'
<1>1. Ends(s) /\ UNCHANGED <<scope, parts>>
  BY DEF End, BreaksOff, Collides, UpdateCollides
<1>2. /\ command' = [command EXCEPT ![s] = "none"]
      /\ todo' = [todo EXCEPT ![s] = <<>>]
      /\ takes' = [takes EXCEPT ![s] = {}]
      /\ overlapped' = [overlapped EXCEPT ![s] = {}]
      /\ command \in [Sessions -> Commands \cup {"none"}]
      /\ todo \in [Sessions -> Seq(AnyCall)]
      /\ takes \in [Sessions -> SUBSET scope]
      /\ overlapped \in [Sessions -> SUBSET {"setup", "account", "delete"}]
  BY <1>1 DEF Ends, Forgotten, AccountInv, CallsOK, DeleteInv
<1>3. ASSUME NEW t \in Running'
      PROVE  /\ t \in Running /\ command'[t] = command[t] /\ todo'[t] = todo[t]
             /\ takes'[t] = takes[t] /\ overlapped'[t] = overlapped[t]
  <2>1. t \in Sessions /\ t # s
    BY <1>2, <1>3 DEF Running
  <2> QED BY <1>2, <1>3, <2>1 DEF Running
<1>4. \A t \in Running' : Wanted(t)' = Wanted(t)
  BY <1>1, <1>3 DEF Wanted
<1>5. \A t \in Running' : Careful(t) => Careful(t)'
  BY <1>3, <1>4, Zenon DEF Careful
<1>6. \A t \in Running' : Supplied(t) => Supplied(t)'
  BY <1>1, <1>3, <1>4 DEF Supplied
<1> QED BY <1>3, <1>5, <1>6 DEF SetupInv

LEMMA SetupInit == Init => SetupInv
BY DEF Init, SetupInv, Running

LEMMA SetupInductive ==
  ASSUME AccountInv, DeleteInv, SetupInv, [Next]_vars
  PROVE  SetupInv'
<1>1. ASSUME UNCHANGED <<scope, parts, command, todo, takes, overlapped>>
      PROVE  SetupInv'
  <2>1. /\ Running' = Running
        /\ \A t \in Running : Careful(t) => Careful(t)'
        /\ \A t \in Running : Supplied(t) => Supplied(t)'
    BY <1>1 DEF Running, Careful, Supplied, Wanted
  <2> QED BY <1>1, <2>1 DEF SetupInv
<1>2. CASE FilesChange
  BY <1>1, <1>2 DEF FilesChange
<1>3. ASSUME NEW s \in Sessions, SessionStep(s) PROVE SetupInv'
  <2>1. todo[s] # <<>> => s \in Running
    BY DEF AccountInv, CallsOK, Running
  <2>2. LookUp(s) \/ MakePart(s) \/ UpdateSAPolicy(s) \/ RemovePart(s)
        \/ RemovalRefused(s) \/ RemovalFails(s) \/ TruncateBucket(s) \/ TruncateFails(s)
           => s \in Running
    BY <2>1 DEF LookUp, MakePart, UpdateSAPolicy, RemovePart, RemovalRefused,
                RemovalFails, TruncateBucket, TruncateFails, Calls
  <2> QED BY <1>3, <2>2, BeginningsKeepSetup, LookKeepsSetup, MakeKeepsSetup,
             DeletionsKeepSetup, EndKeepsSetup DEF SessionStep
<1>4. CASE UNCHANGED vars
  BY <1>1, <1>4 DEF vars
<1> QED BY <1>2, <1>3, <1>4 DEF Next

\* Whatever failed, was killed or was under way elsewhere: what a setup that ran
\* through with no delete at its side is for and has not left is of a family
\* whose owner is there, and was left undone before or is about to be made by
\* another session; or it is the schedule, which another setup deletes
\* (SetupResources, CreateBucket, createServiceAccount, createTarget).
THEOREM SetupLeavesAll == Spec => []SetupCompletes
<1>1. ASSUME AccountInv, DeleteInv, SetupInv PROVE SetupCompletes
  <2> SUFFICES ASSUME NEW s \in Sessions, Through(s), command[s] \in Setups,
                      "delete" \notin overlapped[s], NEW p \in Wanted(s) \ parts,
                      ~(p \in Schedules /\ "setup" \in overlapped[s])
               PROVE  p \notin Repaired
                      /\ (p \in unfinished \/ \E t \in Sessions : p \in UnderWay(t))
    BY DEF SetupCompletes, Wanted
  <2>1. ~Supplies(todo[s], p)
    BY DEF Through, Supplies
  <2>2. s \in Running
    BY DEF Through, Running
  <2>3. PICK x \in parts : p \in StandsFor(x)
    BY <1>1, <2>1, <2>2 DEF SetupInv, Supplied
  <2>4. x \in Owners /\ p \in Family[x] \ Repaired
    BY <2>3 DEF StandsFor
  <2> QED BY <1>1, <2>3, <2>4 DEF AccountInv, MissingIsMade
<1>2. Init => AccountInv /\ DeleteInv /\ SetupInv
  BY AccountInit, DeleteInit, SetupInit
<1>3. AccountInv /\ DeleteInv /\ SetupInv /\ [Next]_vars
        => (AccountInv /\ DeleteInv /\ SetupInv)'
  BY AccountInductive, DeleteInductive, SetupInductive
<1>4. AccountInv /\ DeleteInv /\ SetupInv => SetupCompletes
  BY <1>1
<1> QED BY <1>2, <1>3, <1>4, PTL DEF Spec

(***************************************************************************)
(* What a delete is refused                                                *)
(***************************************************************************)
\* AWS refuses to delete p as long as x is there.
Hinders(x, p) == p \in Needs(x) /\ x \notin Contents(p)

\* Whatever hinders a deletion is to be deleted before, if it is one of X.
InOrder(q, X) ==
    \A i \in 1..Len(q) : q[i].do = "try" =>
        \A p \in q[i].parts, x \in X : Hinders(x, p) =>
            \E j \in 1..(i - 1) : q[j].do = "try" /\ x \in GoesWith(q[j].parts)

\* What a delete may make does not hinder any deletion.
Harmless == {"lifecycle", "sslPolicy", "planTarget", "applyTarget"}

\* A refused deletion of the policy leaves out no other deletion.
HarmlessCall(call) ==
    /\ call.do = "try" /\ "saPolicy" \in call.parts => call.skips = 0
    /\ Prepares(call) => call.part \in Harmless

\* The last calls of a series that deletes the bucket, from its end.
LastCalls == <<Try({"bucket"}, 0), Truncate("marker", 1), Truncate("version", 2)>>

DeletesBucket(q) == q # <<>> /\ q[Len(q)] = LastCalls[1]

\* The bucket is emptied last if at all, and right before its deletion.
EmptiesLast(q) ==
    /\ \A i \in 1..Len(q) : EmptiesBucket(q[i]) => DeletesBucket(q) /\ i > Len(q) - 3
    /\ DeletesBucket(q) =>
         \A i \in 1..3 : i <= Len(q) => q[Len(q) + 1 - i] = LastCalls[i]

\* What emptying the bucket makes of its pages.
Emptied(pgs, kind) == Without(pgs, kind, Reach(pgs, kind))

Half(pgs) == Emptied(pgs, "version")
Whole(pgs) == Emptied(Half(pgs), "marker")

\* The pages when as many calls of the bucket's deletion are to come.
PagesBefore(n, pgs) ==
    CASE n > 2 -> pgs
      [] n = 2 -> Half(pgs)
      [] n = 1 -> Whole(pgs)

\* The calls of a delete at work are in order.
WellOrdered(q, X) ==
    /\ Deleting(q) /\ EmptiesLast(q) /\ InOrder(q, X)
    /\ \A i \in 1..Len(q) : HarmlessCall(q[i])

\* It has emptied the bucket as far as it got, and what it was refused it was
\* for one of two reasons.
Orderly(s) ==
    /\ WellOrdered(todo[s], parts)
    /\ refused[s] \subseteq {"saPolicy", "bucket"}
    /\ "saPolicy" \in refused[s] => "saPolicy" \in parts /\ saVersions > 1
    /\ "bucket" \in refused[s] =>
         /\ todo[s] = <<>>
         /\ Len(listing[s]) > 1 /\ Entries(pages) < Entries(listing[s])
    /\ "bucket" \in scope /\ DeletesBucket(todo[s]) =>
         pages = PagesBefore(Len(todo[s]), listing[s])

\* A delete alone, no call of which has failed but for what AWS refused.
Calm(s) == command[s] = "delete" /\ overlapped[s] = {} /\ ~failed[s]

OrderInv ==
    /\ pages \in Seq(Pages)
    /\ listing \in [Sessions -> Seq(Pages)]
    /\ refused \in [Sessions -> SUBSET scope]
    /\ failed \in [Sessions -> BOOLEAN]
    /\ \A s \in Sessions : command[s] = "none" => refused[s] = {}
    /\ \A s \in Sessions : Calm(s) => Orderly(s)

LEMMA FewNumbers ==
  ASSUME NEW n \in Nat
  PROVE  /\ n # 0 /\ n <= 2 => n \in {1, 2}
         /\ n # 0 /\ ~(n > 3) => n \in {1, 2, 3} /\ n \in 1..3
         /\ n # 0 /\ 1 > n - 3 => n \in {1, 2, 3} /\ n \in 1..3
OBVIOUS

LEMMA PagesAre ==
  /\ \A pgs : \A n \in Nat : n > 2 => PagesBefore(n, pgs) = pgs
  /\ \A pgs : PagesBefore(2, pgs) = Half(pgs) /\ PagesBefore(1, pgs) = Whole(pgs)
BY DEF PagesBefore

-----------------------------------------------------------------------------
LEMMA Least ==
  ASSUME NEW T \in SUBSET Nat, T # {}
  PROVE  \E n \in T : \A m \in T : n <= m
<1> DEFINE R == {ss \in Nat \X Nat : ss[1] < ss[2]}
<1>1. IsWellFoundedOn(R, Nat)
  BY NatLessThanWellFounded DEF OpToRel
<1>2. \A x \in Nat, y \in Nat : <<x, y>> \in R <=> x < y
  OBVIOUS
<1> HIDE DEF R
<1>3. PICK x \in T : \A y \in T : ~(<<y, x>> \in R)
  BY <1>1, WFMin, Zenon
<1>4. \A y \in T : x <= y
  <2> SUFFICES ASSUME NEW y \in T PROVE x <= y
    OBVIOUS
  <2>1. x \in Nat /\ y \in Nat /\ ~(y < x)
    BY <1>2, <1>3, Zenon
  <2> QED BY <2>1
<1> QED BY <1>4

LEMMA ReachIs ==
  ASSUME NEW pgs \in Seq(Pages), NEW kind
  PROVE  LET n == Reach(pgs, kind)
         IN  /\ n \in 0..Len(pgs)
             /\ \A i \in 1..n : kind \in pgs[i]
             /\ n < Len(pgs) => kind \notin pgs[n + 1]
<1> DEFINE Is(n) == /\ \A i \in 1..n : kind \in pgs[i]
                    /\ n < Len(pgs) => kind \notin pgs[n + 1]
           T == {i \in 1..Len(pgs) : kind \notin pgs[i]}
<1>1. Len(pgs) \in Nat
  OBVIOUS
<1>2. \E n \in 0..Len(pgs) : Is(n)
  <2>1. CASE T = {}
    <3>1. Is(Len(pgs))
      BY <1>1, <2>1
    <3> QED BY <1>1, <3>1
  <2>2. CASE T # {}
    <3>1. T \in SUBSET Nat
      BY <1>1
    <3>2. PICK m \in T : \A i \in T : m <= i
      BY <2>2, <3>1, Least, Zenon
    <3>3. m \in 1..Len(pgs) /\ kind \notin pgs[m]
      OBVIOUS
    <3>4. \A i \in 1..(m - 1) : kind \in pgs[i]
      <4> SUFFICES ASSUME NEW i \in 1..(m - 1), kind \notin pgs[i] PROVE FALSE
        OBVIOUS
      <4>1. i \in T /\ i < m
        BY <3>3, <1>1
      <4> QED BY <4>1, <3>2, <3>3, <1>1
    <3>5. m - 1 \in 0..Len(pgs) /\ (m - 1) + 1 = m
      BY <3>3, <1>1
    <3> QED BY <3>3, <3>4, <3>5
  <2> QED BY <2>1, <2>2
<1>3. Reach(pgs, kind) = CHOOSE n \in 0..Len(pgs) : Is(n)
  BY DEF Reach
<1> HIDE DEF Is
<1>4. Reach(pgs, kind) \in 0..Len(pgs) /\ Is(Reach(pgs, kind))
  BY <1>2, <1>3
<1> QED BY <1>4 DEF Is

\* The members of a finite set of numbers, one after the other.
LEMMA Enumerated ==
  ASSUME NEW K \in SUBSET Nat, IsFiniteSet(K)
  PROVE  \E f \in [1..Cardinality(K) -> K] : \A i, j \in DOMAIN f : i < j => f[i] < f[j]
<1> DEFINE m == Cardinality(K)
           Below(i) == {k \in K : k <= i}
           g == [i \in K |-> Cardinality(Below(i))]
<1>1. m \in Nat
  BY FS_CardinalityType
<1>2. \A i \in K : /\ IsFiniteSet(Below(i)) /\ g[i] \in Nat /\ g[i] <= m
                   /\ g[i] = Cardinality(Below(i)) /\ i \in Below(i)
  <2> SUFFICES ASSUME NEW i \in K
               PROVE  /\ IsFiniteSet(Below(i)) /\ g[i] \in Nat /\ g[i] <= m
                      /\ g[i] = Cardinality(Below(i)) /\ i \in Below(i)
    OBVIOUS
  <2>1. Below(i) \in SUBSET K /\ i \in Below(i) /\ g[i] = Cardinality(Below(i))
    OBVIOUS
  <2> HIDE DEF Below, g
  <2>2. IsFiniteSet(Below(i)) /\ Cardinality(Below(i)) <= m
    BY <2>1, FS_Subset
  <2> QED BY <2>1, <2>2, FS_CardinalityType
<1>3. \A i, j \in K : i < j => g[i] < g[j]
  <2> SUFFICES ASSUME NEW i \in K, NEW j \in K, i < j PROVE g[i] < g[j]
    OBVIOUS
  <2>1. Below(i) \in SUBSET Below(j) /\ j \notin Below(i)
    <3>1. i \in Nat /\ j \in Nat /\ ~(j <= i) /\ \A k \in K : k \in Nat /\ (k <= i => k <= j)
      OBVIOUS
    <3> QED BY <3>1, Zenon
  <2> HIDE DEF Below, g
  <2>2. Cardinality(Below(i)) <= Cardinality(Below(j))
        /\ Cardinality(Below(i)) # Cardinality(Below(j))
    BY <1>2, <2>1, FS_Subset
  <2> QED BY <1>2, <2>2
<1>4. \A i \in K : g[i] \in 1..m
  <2> SUFFICES ASSUME NEW i \in K PROVE g[i] # 0
    BY <1>1, <1>2
  <2> HIDE DEF Below, g
  <2> QED BY <1>2, FS_EmptySet
<1>5. g \in Injection(K, 1..m)
  <2>1. g \in [K -> 1..m]
    BY <1>4
  <2>2. \A i, j \in K : g[i] = g[j] => i = j
    <3> SUFFICES ASSUME NEW i \in K, NEW j \in K, i # j PROVE g[i] # g[j]
      OBVIOUS
    <3>1. i \in Nat /\ j \in Nat /\ g[i] \in Nat /\ g[j] \in Nat
      BY <1>2
    <3>2. i < j \/ j < i
      BY <3>1
    <3>3. g[i] < g[j] \/ g[j] < g[i]
      BY <1>3, <3>2
    <3> HIDE DEF g
    <3> QED BY <3>1, <3>3
  <2> HIDE DEF g
  <2> QED BY <2>1, <2>2 DEF Injection, IsInjective
<1>6. \A n \in 1..m : \E i \in K : g[i] = n
  <2>1. IsFiniteSet(1..m) /\ Cardinality(1..m) = m
    BY <1>1, FS_Interval
  <2> HIDE DEF g
  <2>2. g \in Surjection(K, 1..m)
    BY <1>5, <2>1, FS_Injection
  <2> QED BY <2>2 DEF Surjection
<1> HIDE DEF g, m
<1> DEFINE f == [n \in 1..m |-> CHOOSE i \in K : g[i] = n]
<1>7. \A n \in 1..m : f[n] \in K /\ g[f[n]] = n
  BY <1>6
<1>8. f \in [1..m -> K]
  BY <1>7
<1>9. ASSUME NEW i \in 1..m, NEW j \in 1..m, i < j PROVE f[i] < f[j]
  <2>1. f[i] \in K /\ f[j] \in K /\ g[f[i]] = i /\ g[f[j]] = j
    BY <1>7
  <2> HIDE DEF f
  <2>2. i \in Nat /\ j \in Nat /\ f[i] \in Nat /\ f[j] \in Nat
    <3>1. i \in Nat /\ j \in Nat
      BY <1>1
    <3>2. \A k \in K : k \in Nat
      OBVIOUS
    <3> QED BY <2>1, <3>1, <3>2, Zenon
  <2>3. f[i] # f[j]
    <3>1. i # j
      BY <1>9, <2>2
    <3> QED BY <2>1, <3>1
  <2>4. f[j] < f[i] => j < i
    BY <1>3, <2>1, Zenon
  <2> QED BY <1>9, <2>2, <2>3, <2>4
<1> HIDE DEF f
<1> QED BY <1>8, <1>9, Zenon DEF m

EntriesOf(pgs) == {e \in (DOMAIN pgs) \X {"version", "marker"} : e[2] \in pgs[e[1]]}

LEMMA EntriesFinite ==
  ASSUME NEW pgs \in Seq(Pages)
  PROVE  /\ IsFiniteSet(EntriesOf(pgs)) /\ Entries(pgs) = Cardinality(EntriesOf(pgs))
         /\ Entries(pgs) \in Nat
<1>1. IsFiniteSet(1..Len(pgs)) /\ DOMAIN pgs = 1..Len(pgs)
  BY FS_Interval
<1>2. IsFiniteSet({"version", "marker"})
  <2>1. IsFiniteSet({"version"} \cup {"marker"})
    BY FS_Singleton, FS_AddElement, Zenon
  <2>2. {"version"} \cup {"marker"} = {"version", "marker"}
    OBVIOUS
  <2> QED BY <2>1, <2>2
<1>3. IsFiniteSet((1..Len(pgs)) \X {"version", "marker"})
  BY <1>1, <1>2, FS_Product
<1>4. EntriesOf(pgs) \in SUBSET ((1..Len(pgs)) \X {"version", "marker"})
  BY <1>1 DEF EntriesOf
<1>5. IsFiniteSet(EntriesOf(pgs))
  BY <1>3, <1>4, FS_Subset
<1>6. Entries(pgs) = Cardinality(EntriesOf(pgs))
  BY DEF Entries, EntriesOf
<1> QED BY <1>5, <1>6, FS_CardinalityType

\* Pages that are each part of another have no more entries, and fewer if an
\* entry is in none of them.
LEMMA FewerEntries ==
  ASSUME NEW pgs \in Seq(Pages), NEW r \in Seq(Pages),
         NEW f \in [DOMAIN r -> DOMAIN pgs],
         \A i, j \in DOMAIN r : f[i] = f[j] => i = j,
         \A i \in DOMAIN r : r[i] \subseteq pgs[f[i]]
  PROVE  /\ Entries(r) <= Entries(pgs)
         /\ \A e \in EntriesOf(pgs) :
              (\A i \in DOMAIN r : f[i] = e[1] => e[2] \notin r[i])
                 => Entries(r) < Entries(pgs)
<1> DEFINE g == [e \in EntriesOf(r) |-> <<f[e[1]], e[2]>>]
<1>1. \A e \in EntriesOf(r) : /\ e[1] \in DOMAIN r /\ e[2] \in r[e[1]]
                              /\ e = <<e[1], e[2]>> /\ e[2] \in {"version", "marker"}
  BY DEF EntriesOf
<1>2. \A e \in EntriesOf(r) : g[e] \in EntriesOf(pgs)
  <2> SUFFICES ASSUME NEW e \in EntriesOf(r) PROVE <<f[e[1]], e[2]>> \in EntriesOf(pgs)
    OBVIOUS
  <2>1. f[e[1]] \in DOMAIN pgs /\ e[2] \in pgs[f[e[1]]] /\ e[2] \in {"version", "marker"}
    BY <1>1
  <2> QED BY <2>1 DEF EntriesOf
<1>3. \A d, e \in EntriesOf(r) : g[d] = g[e] => d = e
  <2> SUFFICES ASSUME NEW d \in EntriesOf(r), NEW e \in EntriesOf(r), g[d] = g[e]
               PROVE  d = e
    OBVIOUS
  <2>1. f[d[1]] = f[e[1]] /\ d[2] = e[2]
    OBVIOUS
  <2>2. d[1] = e[1]
    BY <1>1, <2>1
  <2> QED BY <1>1, <2>1, <2>2
<1>4. ASSUME NEW T, T \subseteq EntriesOf(pgs), \A e \in EntriesOf(r) : g[e] \in T
      PROVE  IsFiniteSet(T) /\ Entries(r) <= Cardinality(T)
  <2>1. IsFiniteSet(T)
    BY <1>4, EntriesFinite, FS_Subset
  <2>2. g \in [EntriesOf(r) -> T]
    BY <1>4
  <2> HIDE DEF g
  <2>3. g \in Injection(EntriesOf(r), T)
    BY <1>3, <2>2 DEF Injection, IsInjective
  <2>4. Cardinality(EntriesOf(r)) <= Cardinality(T)
    BY <2>1, <2>3, FS_Injection
  <2> QED BY <2>1, <2>4, EntriesFinite
<1>5. Entries(r) <= Entries(pgs)
  BY <1>2, <1>4, EntriesFinite
<1>6. ASSUME NEW e \in EntriesOf(pgs), \A i \in DOMAIN r : f[i] = e[1] => e[2] \notin r[i]
      PROVE  Entries(r) < Entries(pgs)
  <2> DEFINE T == EntriesOf(pgs) \ {e}
  <2>1. \A d \in EntriesOf(r) : g[d] # e
    <3> SUFFICES ASSUME NEW d \in EntriesOf(r), g[d] = e PROVE FALSE
      OBVIOUS
    <3>1. f[d[1]] = e[1] /\ d[2] = e[2]
      BY <1>6
    <3> QED BY <1>1, <1>6, <3>1
  <2>2. \A d \in EntriesOf(r) : g[d] \in T
    BY <1>2, <2>1
  <2>3. Entries(r) <= Cardinality(T)
    BY <1>4, <2>2
  <2>4. Cardinality(T) = Cardinality(EntriesOf(pgs)) - 1
    BY EntriesFinite, FS_RemoveElement, Zenon
  <2> HIDE DEF T
  <2> QED BY <2>3, <2>4, EntriesFinite
<1> QED BY <1>5, <1>6

\* What a page keeps.
Left(pgs, kind, n, i) == IF i <= n THEN pgs[i] \ {kind} ELSE pgs[i]

\* r has of each page what it keeps, if that is anything; f has its page.
Keeps(pgs, kind, n, r, f) ==
    /\ f \in [DOMAIN r -> DOMAIN pgs]
    /\ \A i, j \in DOMAIN r : i < j => f[i] < f[j]
    /\ \A i, j \in DOMAIN r : f[i] = f[j] => i = j
    /\ \A i \in DOMAIN r : r[i] = Left(pgs, kind, n, f[i])
    /\ \A k \in DOMAIN pgs : Left(pgs, kind, n, k) # {} => \E i \in DOMAIN r : f[i] = k

LEMMA WithoutIs ==
  ASSUME NEW pgs \in Seq(Pages), NEW kind \in {"version", "marker"}, NEW n \in 0..Len(pgs),
         NEW r, r = Without(pgs, kind, n)
  PROVE  r \in Seq(Pages) /\ \E f : Keeps(pgs, kind, n, r, f)
<1> DEFINE left == [i \in DOMAIN pgs |-> IF i <= n THEN pgs[i] \ {kind} ELSE pgs[i]]
           kept == {i \in DOMAIN pgs : left[i] # {}}
           m == Cardinality(kept)
           Rising(f) == \A i, j \in DOMAIN f : i < j => f[i] < f[j]
           order == CHOOSE f \in [1..m -> kept] : Rising(f)
<1>1. r = [i \in DOMAIN order |-> left[order[i]]]
  BY DEF Without
<1>2. DOMAIN pgs = 1..Len(pgs) /\ Len(pgs) \in Nat
  OBVIOUS
<1>16. \A i \in DOMAIN pgs : left[i] = Left(pgs, kind, n, i)
  BY DEF Left
<1>3. \A i \in kept : i \in DOMAIN pgs /\ left[i] \in Pages
  <2> SUFFICES ASSUME NEW i \in kept PROVE left[i] \in Pages
    OBVIOUS
  <2>1. i \in DOMAIN pgs /\ left[i] # {} /\ left[i] \subseteq pgs[i]
    OBVIOUS
  <2>2. pgs[i] \in Pages
    BY <2>1
  <2> QED BY <2>1, <2>2 DEF Pages
<1>4. kept \in SUBSET Nat /\ IsFiniteSet(kept)
  <2>1. kept \in SUBSET (1..Len(pgs)) /\ (1..Len(pgs)) \subseteq Nat
    BY <1>2
  <2>2. IsFiniteSet(1..Len(pgs))
    BY <1>2, FS_Interval
  <2> HIDE DEF kept
  <2>3. IsFiniteSet(kept)
    BY <2>1, <2>2, FS_Subset, Zenon
  <2>4. kept \in SUBSET Nat
    BY <2>1
  <2> QED BY <2>3, <2>4
<1>5. m \in Nat
  BY <1>4, FS_CardinalityType
<1> HIDE DEF kept
<1>6. order \in [1..m -> kept] /\ Rising(order)
  BY <1>4, Enumerated, Zenon
<1> HIDE DEF order, m
<1>7. \A i, j \in 1..m : i < j => order[i] < order[j]
  BY <1>6
<1>8. \A i, j \in 1..m : order[i] = order[j] => i = j
  <2> SUFFICES ASSUME NEW i \in 1..m, NEW j \in 1..m, i # j PROVE order[i] # order[j]
    OBVIOUS
  <2>1. i \in Nat /\ j \in Nat /\ order[i] \in Nat /\ order[j] \in Nat
    <3>1. i \in Nat /\ j \in Nat
      BY <1>5
    <3>2. order[i] \in kept /\ order[j] \in kept /\ \A k \in kept : k \in Nat
      BY <1>4, <1>6
    <3> QED BY <3>1, <3>2
  <2>2. i < j \/ j < i
    BY <2>1
  <2>3. order[i] < order[j] \/ order[j] < order[i]
    BY <1>7, <2>2
  <2> QED BY <2>1, <2>3
<1>9. \A k \in kept : \E i \in 1..m : order[i] = k
  <2>1. IsFiniteSet(1..m) /\ Cardinality(1..m) = m
    BY <1>5, FS_Interval
  <2>2. order \in Injection(1..m, kept)
    BY <1>6, <1>8 DEF Injection, IsInjective
  <2>3. Cardinality(1..m) = Cardinality(kept)
    BY <2>1 DEF m
  <2>4. order \in Surjection(1..m, kept)
    BY <1>4, <2>2, <2>3, FS_Injection
  <2> QED BY <2>4 DEF Surjection
<1>10. r \in Seq(Pages) /\ DOMAIN r = 1..m /\ \A i \in 1..m : r[i] = left[order[i]]
  <2>1. DOMAIN order = 1..m /\ \A i \in 1..m : order[i] \in kept
    BY <1>6
  <2>2. r = [i \in 1..m |-> left[order[i]]]
    BY <1>1, <2>1
  <2>3. \A i \in 1..m : left[order[i]] \in Pages
    BY <1>3, <2>1, Zenon
  <2>4. r \in [1..m -> Pages]
    BY <2>2, <2>3, Zenon
  <2>5. r \in Seq(Pages)
    BY <1>5, <2>4
  <2> QED BY <2>2, <2>5
<1>11. order \in [1..m -> DOMAIN pgs]
  BY <1>3, <1>6, Zenon
<1>12. \A k \in DOMAIN pgs : left[k] # {} => \E i \in 1..m : order[i] = k
  BY <1>9 DEF kept
<1>13. DOMAIN r = 1..m
  BY <1>10
<1>14. order \in [DOMAIN r -> DOMAIN pgs]
  BY <1>11, <1>13
<1>15. /\ \A i, j \in DOMAIN r : i < j => order[i] < order[j]
       /\ \A i, j \in DOMAIN r : order[i] = order[j] => i = j
       /\ \A i \in DOMAIN r : r[i] = left[order[i]]
       /\ \A k \in DOMAIN pgs : left[k] # {} => \E i \in DOMAIN r : order[i] = k
  BY <1>7, <1>8, <1>10, <1>12, <1>13
<1> HIDE DEF left
<1>17. \A i \in DOMAIN r : r[i] = Left(pgs, kind, n, order[i])
  <2>1. \A i \in DOMAIN r : order[i] \in DOMAIN pgs
    BY <1>14
  <2> QED BY <1>15, <1>16, <2>1
<1>18. \A k \in DOMAIN pgs :
          Left(pgs, kind, n, k) # {} => \E i \in DOMAIN r : order[i] = k
  BY <1>15, <1>16
<1>19. Keeps(pgs, kind, n, r, order)
  BY <1>14, <1>15, <1>17, <1>18 DEF Keeps
<1> QED BY <1>10, <1>19

LEMMA TruncatedIs ==
  ASSUME NEW pgs \in Seq(Pages), NEW kind \in {"version", "marker"}, NEW n \in 0..Len(pgs),
         NEW r, r = Without(pgs, kind, n)
  PROVE  r \in Seq(Pages) /\ Entries(r) <= Entries(pgs)
<1> DEFINE left(i) == Left(pgs, kind, n, i)
<1>1. \A i \in DOMAIN pgs : left(i) \subseteq pgs[i]
  BY DEF Left
<1> HIDE DEF left
<1>2. r \in Seq(Pages) /\ \E f : Keeps(pgs, kind, n, r, f)
  BY WithoutIs
<1>3. PICK f : Keeps(pgs, kind, n, r, f)
  BY <1>2
<1>6. /\ f \in [DOMAIN r -> DOMAIN pgs]
      /\ \A i, j \in DOMAIN r : f[i] = f[j] => i = j
      /\ \A i \in DOMAIN r : r[i] = left(f[i])
  BY <1>3 DEF Keeps, left
<1>4. \A i \in DOMAIN r : r[i] \subseteq pgs[f[i]]
  BY <1>1, <1>6
<1>5. Entries(r) <= Entries(pgs)
  BY <1>2, <1>6, <1>4, FewerEntries
<1> QED BY <1>2, <1>5

LEMMA EmptiedIs ==
  ASSUME NEW pgs \in Seq(Pages), NEW kind \in {"version", "marker"},
         NEW r, r = Emptied(pgs, kind)
  PROVE  /\ r \in Seq(Pages) /\ Entries(r) <= Entries(pgs)
         /\ pgs = <<>> => r = <<>>
         /\ pgs # <<>> /\ kind \in pgs[1] => Entries(r) < Entries(pgs)
         /\ pgs # <<>> /\ kind \notin pgs[1] => r # <<>> /\ r[1] = pgs[1]
         /\ Len(pgs) = 1 => r = <<>> \/ (Len(r) = 1 /\ r[1] = pgs[1] \ {kind})
<1> DEFINE n == Reach(pgs, kind)
           left(i) == Left(pgs, kind, n, i)
<1>1. /\ n \in 0..Len(pgs)
      /\ \A i \in 1..n : kind \in pgs[i]
      /\ n < Len(pgs) => kind \notin pgs[n + 1]
  BY ReachIs
<1>2. Len(pgs) \in Nat /\ DOMAIN pgs = 1..Len(pgs) /\ n \in Nat
      /\ (pgs = <<>> <=> Len(pgs) = 0)
  BY <1>1
<1>3. r = Without(pgs, kind, n)
  BY DEF Emptied
<1> HIDE DEF n
<1>4. \A i : left(i) = IF i <= n THEN pgs[i] \ {kind} ELSE pgs[i]
  BY DEF Left
<1> HIDE DEF left
<1>5. r \in Seq(Pages) /\ \E f : Keeps(pgs, kind, n, r, f)
  BY <1>1, <1>3, WithoutIs
<1>14. PICK f : Keeps(pgs, kind, n, r, f)
  BY <1>5
<1>6. /\ f \in [DOMAIN r -> DOMAIN pgs]
      /\ \A i, j \in DOMAIN r : i < j => f[i] < f[j]
      /\ \A i, j \in DOMAIN r : f[i] = f[j] => i = j
      /\ \A i \in DOMAIN r : r[i] = left(f[i])
      /\ \A k \in DOMAIN pgs : left(k) # {} => \E i \in DOMAIN r : f[i] = k
  BY <1>14 DEF Keeps, left
<1>7. /\ Len(r) \in Nat /\ DOMAIN r = 1..Len(r) /\ (r = <<>> <=> Len(r) = 0)
  BY <1>5
<1>8. \A i \in DOMAIN r : f[i] \in DOMAIN pgs /\ r[i] \subseteq pgs[f[i]]
  <2>1. \A k \in DOMAIN pgs : left(k) \subseteq pgs[k]
    BY <1>4
  <2>2. \A i \in DOMAIN r : f[i] \in DOMAIN pgs
    BY <1>6
  <2> QED BY <1>6, <2>1, <2>2
<1>9. /\ Entries(r) <= Entries(pgs)
      /\ \A e \in EntriesOf(pgs) :
           (\A i \in DOMAIN r : f[i] = e[1] => e[2] \notin r[i])
              => Entries(r) < Entries(pgs)
  <2>1. f \in [DOMAIN r -> DOMAIN pgs] /\ \A i, j \in DOMAIN r : f[i] = f[j] => i = j
    BY <1>6
  <2>2. \A i \in DOMAIN r : r[i] \subseteq pgs[f[i]]
    BY <1>8
  <2>3. r \in Seq(Pages)
    BY <1>5
  <2> QED BY <2>1, <2>2, <2>3, FewerEntries, Zenon
<1>10. ASSUME pgs # <<>>, kind \in pgs[1] PROVE Entries(r) < Entries(pgs)
  <2>1. 1 \in DOMAIN pgs /\ 1 <= n
    <3>1. n # 0
      BY <1>1, <1>2, <1>10
    <3> QED BY <1>2, <1>10, <3>1
  <2>2. left(1) = pgs[1] \ {kind}
    BY <1>4, <2>1
  <2> DEFINE e == <<1, kind>>
  <2>3. e \in EntriesOf(pgs)
    BY <1>10, <2>1 DEF EntriesOf
  <2>4. \A i \in DOMAIN r : f[i] = e[1] => e[2] \notin r[i]
    BY <1>6, <2>2
  <2> HIDE DEF e
  <2> QED BY <1>9, <2>3, <2>4
<1>11. ASSUME pgs # <<>>, kind \notin pgs[1] PROVE r # <<>> /\ r[1] = pgs[1]
  <2>1. 1 \in DOMAIN pgs /\ n = 0
    <3>1. ~(1 <= n)
      BY <1>1, <1>2, <1>11
    <3> QED BY <1>2, <1>11, <3>1
  <2>2. left(1) = pgs[1] /\ pgs[1] # {}
    <3>1. left(1) = pgs[1]
      BY <1>4, <2>1
    <3>2. pgs[1] \in Pages
      BY <2>1
    <3>3. pgs[1] # {}
      <4>1. \A p \in Pages : p # {}
        BY DEF Pages
      <4> QED BY <3>2, <4>1
    <3> QED BY <3>1, <3>3
  <2>3. PICK i \in DOMAIN r : f[i] = 1
    BY <1>6, <2>1, <2>2
  <2>4. 1 \in DOMAIN r /\ (i # 1 => 1 < i)
    <3>1. i \in 1..Len(r) /\ Len(r) \in Nat
      BY <1>7
    <3> QED BY <1>7, <3>1
  <2>5. f[1] \in 1..Len(pgs) /\ (i # 1 => f[1] < f[i])
    BY <1>2, <1>6, <2>4
  <2>6. f[1] = 1
    BY <1>2, <2>3, <2>5
  <2> QED BY <1>6, <1>7, <2>2, <2>4, <2>6
<1>12. pgs = <<>> => r = <<>>
  <2> SUFFICES ASSUME pgs = <<>>, r # <<>> PROVE FALSE
    OBVIOUS
  <2>1. 1 \in DOMAIN r
    BY <1>7
  <2> QED BY <1>2, <1>8, <2>1
<1>13. ASSUME Len(pgs) = 1, r # <<>> PROVE Len(r) = 1 /\ r[1] = pgs[1] \ {kind}
  <2>1. 1 \in DOMAIN r /\ f[1] = 1
    <3>1. 1 \in DOMAIN r
      BY <1>7, <1>13
    <3>2. f[1] \in 1..1
      BY <1>2, <1>8, <1>13, <3>1
    <3> QED BY <3>1, <3>2
  <2>2. Len(r) = 1
    <3> SUFFICES ASSUME Len(r) # 1 PROVE FALSE
      OBVIOUS
    <3>1. 2 \in DOMAIN r
      BY <1>7, <1>13
    <3>2. f[2] \in 1..1
      BY <1>2, <1>8, <1>13, <3>1
    <3> QED BY <1>6, <2>1, <3>1, <3>2
  <2>3. left(1) = pgs[1] \ {kind}
    <3>1. 1 \in DOMAIN pgs
      BY <1>2, <1>13
    <3>2. CASE 1 <= n
      BY <1>4, <3>1, <3>2
    <3>3. CASE ~(1 <= n)
      <4>1. n + 1 = 1 /\ n < Len(pgs)
        BY <1>2, <1>13, <3>3
      <4>2. kind \notin pgs[1]
        BY <1>1, <4>1
      <4>3. left(1) = pgs[1]
        BY <1>4, <3>1, <3>3
      <4> QED BY <4>2, <4>3
    <3> QED BY <3>2, <3>3
  <2> QED BY <1>6, <2>1, <2>2, <2>3
<1> QED BY <1>5, <1>9, <1>10, <1>11, <1>12, <1>13

\* A bucket that is not empty after it has been emptied had several pages, and
\* has fewer entries than before.
LEMMA SomethingIsLeft ==
  ASSUME NEW pgs \in Seq(Pages)
  PROVE  /\ Half(pgs) \in Seq(Pages) /\ Whole(pgs) \in Seq(Pages)
         /\ Whole(pgs) # <<>> => Len(pgs) > 1 /\ Entries(Whole(pgs)) < Entries(pgs)
<1> DEFINE a == Half(pgs)
           b == Whole(pgs)
<1>1. a = Emptied(pgs, "version") /\ b = Emptied(a, "marker")
  BY DEF Half, Whole
<1> HIDE DEF a, b
<1>2. /\ a \in Seq(Pages) /\ Entries(a) <= Entries(pgs)
      /\ pgs = <<>> => a = <<>>
      /\ pgs # <<>> /\ "version" \in pgs[1] => Entries(a) < Entries(pgs)
      /\ pgs # <<>> /\ "version" \notin pgs[1] => a # <<>> /\ a[1] = pgs[1]
      /\ Len(pgs) = 1 => a = <<>> \/ (Len(a) = 1 /\ a[1] = pgs[1] \ {"version"})
  BY <1>1, EmptiedIs
<1>3. /\ b \in Seq(Pages) /\ Entries(b) <= Entries(a)
      /\ a = <<>> => b = <<>>
      /\ a # <<>> /\ "marker" \in a[1] => Entries(b) < Entries(a)
      /\ Len(a) = 1 => b = <<>> \/ (Len(b) = 1 /\ b[1] = a[1] \ {"marker"})
  BY <1>1, <1>2, EmptiedIs
<1>4. Entries(a) \in Nat /\ Entries(b) \in Nat /\ Entries(pgs) \in Nat
  BY <1>2, <1>3, EntriesFinite
<1>5. /\ \A q \in Seq(Pages) : Len(q) \in Nat /\ (q # <<>> => Len(q) # 0 /\ q[1] \in Pages)
      /\ \A p \in Pages : p \subseteq {"version", "marker"} /\ p # {}
  <2>1. \A q \in Seq(Pages) : Len(q) \in Nat /\ (q # <<>> => Len(q) # 0 /\ q[1] \in Pages)
    OBVIOUS
  <2>2. \A p \in Pages : p \subseteq {"version", "marker"} /\ p # {}
    BY DEF Pages
  <2> QED BY <2>1, <2>2
<1>6. ASSUME b # <<>> PROVE Len(pgs) > 1 /\ Entries(b) < Entries(pgs)
  <2>1. a # <<>> /\ pgs # <<>>
    BY <1>2, <1>3, <1>6
  <2>2. pgs[1] \in Pages /\ b[1] \in Pages
    BY <1>3, <1>5, <1>6, <2>1
  <2>3. Len(pgs) # 1
    <3> SUFFICES ASSUME Len(pgs) = 1 PROVE FALSE
      OBVIOUS
    <3>1. b[1] = (pgs[1] \ {"version"}) \ {"marker"}
      BY <1>2, <1>3, <1>6, <2>1
    <3> QED BY <1>5, <2>2, <3>1
  <2>4. Len(pgs) > 1
    <3>1. Len(pgs) \in Nat /\ Len(pgs) # 0
      BY <1>5, <2>1
    <3> QED BY <2>3, <3>1
  <2>5. CASE "version" \in pgs[1]
    <3>1. Entries(a) < Entries(pgs) /\ Entries(b) <= Entries(a)
      BY <1>2, <1>3, <2>1, <2>5
    <3> QED BY <1>4, <2>4, <3>1
  <2>6. CASE "version" \notin pgs[1]
    <3>1. "marker" \in a[1]
      <4>1. a[1] = pgs[1]
        BY <1>2, <2>1, <2>6
      <4>2. "marker" \in pgs[1]
        BY <1>5, <2>2, <2>6
      <4> QED BY <4>1, <4>2
    <3>2. Entries(b) < Entries(a) /\ Entries(a) <= Entries(pgs)
      BY <1>2, <1>3, <2>1, <3>1
    <3> QED BY <1>4, <2>4, <3>2
  <2> QED BY <2>5, <2>6
<1> QED BY <1>2, <1>3, <1>6 DEF a, b

LEMMA HinderedBy ==
  ASSUME NEW x, NEW p, Hinders(x, p)
  PROVE  \/ p = "buildRole" /\ x \in {"buildAdmin", "buildAttached"}
         \/ p = "buildPolicy" /\ x = "buildAttached"
         \/ p \in {"pipelineRole", "pipelinePolicy"} /\ x = "pipelineAttached"
         \/ p \in {"scheduleRole", "schedulePolicy"} /\ x = "scheduleAttached"
         \/ p = "saUser" /\ x \in {"saUserAttached", "saKey"}
         \/ p = "saRole" /\ x = "saRoleAttached"
         \/ p = "saPolicy" /\ x \in {"saUserAttached", "saRoleAttached"}
         \/ p = "storage" /\ x = "storedConfig"
<1>1. p \in Needs(x) /\ x \notin Contents(p)
  BY DEF Hinders
<1>2. CASE p \in Aws!Needs(x)
  <2>1. \/ x \in Aws!BucketParts \cup {"config"} /\ p = "bucket"
        \/ x = "logStream" /\ p = "logGroup"
        \/ x = "buildAdmin" /\ p = "buildRole"
        \/ x = "buildAttached" /\ p \in {"buildRole", "buildPolicy"}
        \/ x = "pipelineAttached" /\ p \in {"pipelineRole", "pipelinePolicy"}
        \/ x = "scheduleAttached" /\ p \in {"scheduleRole", "schedulePolicy"}
        \/ x = "saUserAttached" /\ p \in {"saUser", "saPolicy"}
        \/ x = "saRoleAttached" /\ p \in {"saRole", "saPolicy"}
        \/ x = "saKey" /\ p = "saUser"
    BY <1>2 DEF Aws!Needs
  <2>2. ~(x \in Aws!BucketParts \cup {"config"} /\ p = "bucket")
    BY <1>1 DEF Contents, Aws!Contents
  <2>3. ~(x = "logStream" /\ p = "logGroup")
    BY <1>1 DEF Contents, Aws!Contents
  <2> QED BY <2>1, <2>2, <2>3
<1>3. CASE p \in Google!Needs(x)
  <2>1. \/ x = "storedConfig" /\ p = "storage"
        \/ x \in {"accountRoles", "projectRoles"} /\ p = "agentAccount"
        \/ x \in Google!ServiceAccountParts \ {"userAccount"} /\ p = "userAccount"
    BY <1>3 DEF Google!Needs
  <2>2. ~(x \in {"accountRoles", "projectRoles"} /\ p = "agentAccount")
    <3>1. Google!Contents("agentAccount") = {"agentAccount", "accountRoles", "projectRoles"}
      BY GoogleOwners DEF Google!Contents, Google!AgentParts
    <3> QED BY <1>1, <3>1 DEF Contents
  <2>3. ~(x \in Google!ServiceAccountParts \ {"userAccount"} /\ p = "userAccount")
    <3>1. Google!Contents("userAccount") = Google!ServiceAccountParts
      BY GoogleOwners DEF Google!Contents
    <3> QED BY <1>1, <3>1 DEF Contents
  <2> QED BY <2>1, <2>2, <2>3
<1> QED BY <1>1, <1>2, <1>3 DEF Needs

\* The policy, the bucket and what is in it, and what a delete makes.
LEMMA HinderNothing ==
  ASSUME NEW x \in GoesWith({"saPolicy"}) \cup GoesWith({"bucket"}) \cup Harmless, NEW p
  PROVE  ~Hinders(x, p)
<1>1. Contents("saPolicy") = {}
  BY GoogleOwners DEF Contents, Aws!Contents, Google!Contents
<1>2. x \in {"saPolicy", "bucket", "tags", "versioning", "lifecycle", "sslPolicy", "dummyZip",
             "config", "planTarget", "applyTarget"}
  BY <1>1, BucketContents DEF GoesWith, Harmless
<1> QED BY <1>2, HinderedBy

\* Series of calls in order, those that may be followed by others of the kind,
\* and those after which only the deletion of the bucket may come.
Fit(q) ==
    q \in Seq(AnyCall) /\ InOrder(q, Part) /\ \A i \in 1..Len(q) : HarmlessCall(q[i])
Apart(q) == Fit(q) /\ \A i \in 1..Len(q) : ~EmptiesBucket(q[i])

LEMMA FitConcat ==
  ASSUME NEW q, NEW r, Fit(q), Fit(r)
  PROVE  Fit(q \o r)
<1> DEFINE t == q \o r
<1>1. /\ t \in Seq(AnyCall)
      /\ Len(t) = Len(q) + Len(r) /\ Len(q) \in Nat /\ Len(r) \in Nat
      /\ \A i \in 1..Len(q) : t[i] = q[i]
      /\ \A i \in 1..Len(r) : t[Len(q) + i] = r[i]
      /\ \A i \in (Len(q) + 1)..(Len(q) + Len(r)) : t[i] = r[i - Len(q)]
  BY ConcatIs DEF Fit
<1> HIDE DEF t
<1>2. ASSUME NEW i \in 1..Len(t), i > Len(q)
      PROVE  i - Len(q) \in 1..Len(r) /\ t[i] = r[i - Len(q)]
  BY <1>1, <1>2
<1>3. InOrder(t, Part)
  <2> SUFFICES ASSUME NEW i \in 1..Len(t), t[i].do = "try", NEW p \in t[i].parts,
                      NEW x \in Part, Hinders(x, p)
               PROVE  \E j \in 1..(i - 1) : t[j].do = "try" /\ x \in GoesWith(t[j].parts)
    BY DEF InOrder
  <2>1. CASE i <= Len(q)
    <3>1. i \in 1..Len(q) /\ t[i] = q[i]
      BY <1>1, <2>1
    <3>2. PICK j \in 1..(i - 1) : q[j].do = "try" /\ x \in GoesWith(q[j].parts)
      BY <3>1 DEF Fit, InOrder
    <3>3. j \in 1..Len(q)
      BY <1>1, <3>1
    <3> QED BY <1>1, <3>2, <3>3
  <2>2. CASE i > Len(q)
    <3> DEFINE k == i - Len(q)
    <3>1. k \in 1..Len(r) /\ t[i] = r[k] /\ i = Len(q) + k
      BY <1>1, <1>2, <2>2
    <3> HIDE DEF k
    <3>2. PICK j \in 1..(k - 1) : r[j].do = "try" /\ x \in GoesWith(r[j].parts)
      BY <3>1, Zenon DEF Fit, InOrder
    <3>3. j \in 1..Len(r) /\ Len(q) + j \in 1..(i - 1)
      BY <1>1, <3>1
    <3>4. t[Len(q) + j] = r[j]
      BY <1>1, <3>3
    <3> QED BY <3>2, <3>3, <3>4
  <2> QED BY <2>1, <2>2, <1>1
<1>4. ASSUME NEW i \in 1..Len(t) PROVE HarmlessCall(t[i])
  <2>1. CASE i <= Len(q)
    <3>1. i \in 1..Len(q) /\ t[i] = q[i]
      BY <1>1, <2>1
    <3> QED BY <3>1 DEF Fit
  <2>2. CASE i > Len(q)
    BY <1>2, <2>2 DEF Fit
  <2> QED BY <2>1, <2>2, <1>1
<1>5. Fit(t)
  BY <1>1, <1>3, <1>4 DEF Fit
<1> QED BY <1>5 DEF t

LEMMA ApartConcat ==
  ASSUME NEW q, NEW r, Apart(q), Apart(r)
  PROVE  Apart(q \o r)
<1> DEFINE t == q \o r
<1>1. /\ Len(t) = Len(q) + Len(r) /\ Len(q) \in Nat /\ Len(r) \in Nat
      /\ \A i \in 1..Len(q) : t[i] = q[i]
      /\ \A i \in (Len(q) + 1)..(Len(q) + Len(r)) : t[i] = r[i - Len(q)]
  BY ConcatIs DEF Apart, Fit
<1>2. Fit(t)
  BY FitConcat DEF Apart
<1> HIDE DEF t
<1>3. ASSUME NEW i \in 1..Len(t) PROVE ~EmptiesBucket(t[i])
  <2>1. CASE i <= Len(q)
    <3>1. i \in 1..Len(q) /\ t[i] = q[i]
      BY <1>1, <2>1
    <3> QED BY <3>1 DEF Apart
  <2>2. CASE i > Len(q)
    <3>1. i \in (Len(q) + 1)..(Len(q) + Len(r)) /\ i - Len(q) \in 1..Len(r)
      BY <1>1, <2>2
    <3> QED BY <1>1, <3>1 DEF Apart
  <2> QED BY <2>1, <2>2, <1>1
<1>4. Apart(t)
  BY <1>2, <1>3 DEF Apart
<1> QED BY <1>4 DEF t

LEMMA ApartEmpty == Apart(<<>>)
BY DEF Apart, Fit, InOrder

\* As a series that deletes no bucket is.
LEMMA ApartEmptiesLast ==
  ASSUME NEW q, Apart(q)
  PROVE  EmptiesLast(q) /\ ~DeletesBucket(q)
<1>1. ~DeletesBucket(q)
  <2> SUFFICES ASSUME DeletesBucket(q) PROVE FALSE
    OBVIOUS
  <2>1. Len(q) \in 1..Len(q) /\ q[Len(q)] = Try({"bucket"}, 0)
    BY DEF DeletesBucket, LastCalls, Apart, Fit
  <2> QED BY <2>1 DEF Apart, EmptiesBucket, Try
<1>2. EmptiesLast(q)
  BY <1>1 DEF EmptiesLast, Apart
<1> QED BY <1>1, <1>2

\* The deletion of the bucket comes last.
LEMMA BucketLast ==
  ASSUME NEW q, Apart(q), NEW r, Fit(r), Len(r) = 3, r[1] = Truncate("version", 2),
         r[2] = Truncate("marker", 1), r[3] = Try({"bucket"}, 0)
  PROVE  EmptiesLast(q \o r) /\ Len(q \o r) > 2
<1> DEFINE t == q \o r
<1>1. /\ t \in Seq(AnyCall) /\ Len(t) = Len(q) + 3 /\ Len(q) \in Nat
      /\ \A i \in 1..Len(q) : t[i] = q[i]
      /\ \A i \in 1..3 : t[Len(q) + i] = r[i]
  <2>1. q \in Seq(AnyCall) /\ r \in Seq(AnyCall) /\ Len(q) \in Nat
    BY DEF Apart, Fit
  <2>2. /\ t \in Seq(AnyCall) /\ Len(t) = Len(q) + Len(r)
        /\ \A i \in 1..Len(q) : t[i] = q[i]
        /\ \A i \in 1..Len(r) : t[Len(q) + i] = r[i]
    BY <2>1, ConcatIs
  <2> HIDE DEF t
  <2> QED BY <2>1, <2>2
<1> HIDE DEF t
<1>2. /\ t[Len(q) + 1] = LastCalls[3] /\ t[Len(q) + 2] = LastCalls[2]
      /\ t[Len(q) + 3] = LastCalls[1]
  BY <1>1 DEF LastCalls
<1>3. DeletesBucket(t)
  <2>1. t # <<>> /\ Len(t) = Len(q) + 3
    BY <1>1
  <2> QED BY <1>2, <2>1 DEF DeletesBucket
<1>4. ASSUME NEW i \in 1..Len(t), EmptiesBucket(t[i]) PROVE i > Len(t) - 3
  <2> SUFFICES ASSUME i <= Len(q) PROVE FALSE
    BY <1>1
  <2>1. i \in 1..Len(q) /\ t[i] = q[i]
    BY <1>1
  <2> QED BY <1>4, <2>1 DEF Apart
<1>5. ASSUME NEW i \in 1..3 PROVE t[Len(t) + 1 - i] = LastCalls[i]
  <2>1. Len(t) + 1 - 1 = Len(q) + 3 /\ Len(t) + 1 - 2 = Len(q) + 2
        /\ Len(t) + 1 - 3 = Len(q) + 1
    BY <1>1
  <2>2. i = 1 \/ i = 2 \/ i = 3
    OBVIOUS
  <2> QED BY <1>2, <2>1, <2>2
<1>6. EmptiesLast(t)
  BY <1>3, <1>4, <1>5 DEF EmptiesLast
<1> QED BY <1>1, <1>6 DEF t


LEMMA PolicyInNothing == \A p : "saPolicy" \notin Contents(p)
<1> SUFFICES ASSUME NEW p PROVE "saPolicy" \notin Contents(p)
  OBVIOUS
<1>1. "saPolicy" \notin Aws!Contents(p)
  BY DEF Aws!Contents, Aws!BucketParts
<1>2. "saPolicy" \notin Google!Contents(p)
  <2>1. \A t \in DOMAIN Google!With : "saPolicy" \notin Google!With[t]
    BY GoogleOwners DEF Google!With
  <2> QED BY <2>1 DEF Google!Contents, Google!AgentParts, Google!ServiceAccountParts
<1> QED BY <1>1, <1>2 DEF Contents

\* A series that deletes nothing that is hindered, nor the bucket or the policy.
LEMMA FreeApart ==
  ASSUME NEW q \in Seq(AnyCall),
         \A i \in 1..Len(q) :
            /\ q[i].do # "truncate"
            /\ q[i].do = "try" =>
                 q[i].parts \cap {"bucket", "buildRole", "buildPolicy", "pipelineRole",
                    "pipelinePolicy", "scheduleRole", "schedulePolicy", "saUser", "saRole",
                    "saPolicy", "storage"} = {}
            /\ Prepares(q[i]) => q[i].part \in Harmless
  PROVE  Apart(q)
<1>1. InOrder(q, Part)
  BY HinderedBy DEF InOrder
<1>2. \A i \in 1..Len(q) : HarmlessCall(q[i])
  BY DEF HarmlessCall
<1>3. \A i \in 1..Len(q) : ~EmptiesBucket(q[i])
  BY Zenon DEF EmptiesBucket
<1> QED BY <1>1, <1>2, <1>3 DEF Apart, Fit

\* Each stage of a delete of AWS deletes whatever hinders one of its deletions.
LEMMA AwsStagesFit ==
  /\ Apart(AwsRepair) /\ Apart(AwsProject) /\ Apart(AwsFirst) /\ Apart(AwsRoles)
  /\ Apart(AwsUsers) /\ Fit(AwsBucket)
<1>1. /\ AwsRepair \in Seq(AnyCall) /\ AwsProject \in Seq(AnyCall)
      /\ AwsFirst \in Seq(AnyCall) /\ AwsRoles \in Seq(AnyCall)
      /\ AwsUsers \in Seq(AnyCall) /\ AwsBucket \in Seq(AnyCall)
  BY AwsStagesDelete DEF Deletions, Series
<1>2. Apart(AwsRepair)
  <2>1. \A i \in 1..Len(AwsRepair) : /\ AwsRepair[i].do = "make"
                                      /\ AwsRepair[i].part \in Harmless
    BY AwsStages DEF Make, Harmless
  <2> QED BY <1>1, <2>1, FreeApart, Zenon DEF Prepares
<1>3. Apart(AwsProject)
  <2>1. \A i \in 1..Len(AwsProject) :
           /\ AwsProject[i].do = "try"
           /\ AwsProject[i].parts \subseteq {"stepPipeline", "stepDestroyPipeline", "stepProject"}
    BY AwsStages
  <2> QED BY <1>1, <2>1, FreeApart, Zenon DEF Prepares
<1>4. Apart(AwsFirst)
  <2>1. \A i \in 1..Len(AwsFirst) :
           /\ AwsFirst[i].do = "try"
           /\ AwsFirst[i].parts \subseteq {"schedule", "runPipeline", "runProject",
                "updatePipeline", "updateProject", "table", "logStream", "logGroup"}
    BY AwsStages
  <2> QED BY <1>1, <2>1, FreeApart, Zenon DEF Prepares
<1>5. Apart(AwsRoles)
  <2>1. \A i \in 1..Len(AwsRoles) :
          /\ AwsRoles[i].do = "try"
          /\ AwsRoles[i].parts \subseteq {"buildAdmin", "buildAttached", "buildRole",
               "buildPolicy", "pipelineAttached", "pipelineRole", "pipelinePolicy",
               "scheduleAttached", "scheduleRole", "schedulePolicy"}
    BY AwsStages
  <2>2. ASSUME NEW i \in 1..9, NEW p \in AwsRoles[i].parts, NEW x \in Part, Hinders(x, p)
        PROVE  \E j \in 1..(i - 1) : x \in AwsRoles[j].parts
    <3>1. \/ p = "buildRole" /\ x \in {"buildAdmin", "buildAttached"}
          \/ p = "buildPolicy" /\ x = "buildAttached"
          \/ p \in {"pipelineRole", "pipelinePolicy"} /\ x = "pipelineAttached"
          \/ p \in {"scheduleRole", "schedulePolicy"} /\ x = "scheduleAttached"
      BY <2>1, <2>2, HinderedBy, AwsStages
    <3>2. \/ i \in 2..3 /\ x \in {"buildAdmin", "buildAttached"}
          \/ i \in 5..6 /\ x = "pipelineAttached"
          \/ i \in 8..9 /\ x = "scheduleAttached"
      <4>1. \/ i = 1 \/ i = 2 \/ i = 3 \/ i = 4 \/ i = 5 \/ i = 6 \/ i = 7 \/ i = 8 \/ i = 9
        OBVIOUS
      <4> QED BY <2>2, <3>1, <4>1, AwsStages
    <3>3. CASE i \in 2..3 /\ x \in {"buildAdmin", "buildAttached"}
      <4>1. 1 \in 1..(i - 1) /\ x \in AwsRoles[1].parts
        BY <3>3, AwsStages
      <4> QED BY <4>1
    <3>4. CASE i \in 5..6 /\ x = "pipelineAttached"
      <4>1. 4 \in 1..(i - 1) /\ x \in AwsRoles[4].parts
        BY <3>4, AwsStages
      <4> QED BY <4>1
    <3>5. CASE i \in 8..9 /\ x = "scheduleAttached"
      <4>1. 7 \in 1..(i - 1) /\ x \in AwsRoles[7].parts
        BY <3>5, AwsStages
      <4> QED BY <4>1
    <3> QED BY <3>2, <3>3, <3>4, <3>5
  <2>3. Len(AwsRoles) = 9
    BY AwsStages
  <2>4. InOrder(AwsRoles, Part)
    <3> SUFFICES ASSUME NEW i \in 1..9, NEW p \in AwsRoles[i].parts, NEW x \in Part,
                        Hinders(x, p)
                 PROVE  \E j \in 1..(i - 1) : AwsRoles[j].do = "try"
                                              /\ x \in GoesWith(AwsRoles[j].parts)
      BY <2>3 DEF InOrder
    <3>1. PICK j \in 1..(i - 1) : x \in AwsRoles[j].parts
      BY <2>2
    <3>2. j \in 1..Len(AwsRoles)
      BY <2>3
    <3> QED BY <2>1, <3>1, <3>2 DEF GoesWith
  <2>5. \A i \in 1..Len(AwsRoles) : HarmlessCall(AwsRoles[i]) /\ ~EmptiesBucket(AwsRoles[i])
    BY <2>1, Zenon DEF HarmlessCall, Prepares, EmptiesBucket
  <2> QED BY <1>1, <2>4, <2>5 DEF Apart, Fit
<1>6. Apart(AwsUsers)
  <2>1. \A i \in 1..Len(AwsUsers) :
          /\ AwsUsers[i].do = "try" /\ AwsUsers[i].skips = 0
          /\ AwsUsers[i].parts \subseteq {"saRoleAttached", "saRole", "saUserAttached",
               "saKey", "saUser", "saPolicy"}
    BY AwsStages
  <2>2. ASSUME NEW i \in 1..6, NEW p \in AwsUsers[i].parts, NEW x \in Part, Hinders(x, p)
        PROVE  \E j \in 1..(i - 1) : x \in AwsUsers[j].parts
    <3>1. \/ p = "saUser" /\ x \in {"saUserAttached", "saKey"}
          \/ p = "saRole" /\ x = "saRoleAttached"
          \/ p = "saPolicy" /\ x \in {"saUserAttached", "saRoleAttached"}
      BY <2>1, <2>2, HinderedBy, AwsStages
    <3>2. \/ i \in 2..6 /\ x = "saRoleAttached"
          \/ i \in 5..6 /\ x = "saUserAttached"
          \/ i \in 5..6 /\ x = "saKey"
      <4>1. \/ i = 1 \/ i = 2 \/ i = 3 \/ i = 4 \/ i = 5 \/ i = 6
        OBVIOUS
      <4> QED BY <2>2, <3>1, <4>1, AwsStages
    <3>3. CASE i \in 2..6 /\ x = "saRoleAttached"
      <4>1. 1 \in 1..(i - 1) /\ x \in AwsUsers[1].parts
        BY <3>3, AwsStages
      <4> QED BY <4>1
    <3>4. CASE i \in 5..6 /\ x = "saUserAttached"
      <4>1. 3 \in 1..(i - 1) /\ x \in AwsUsers[3].parts
        BY <3>4, AwsStages
      <4> QED BY <4>1
    <3>5. CASE i \in 5..6 /\ x = "saKey"
      <4>1. 4 \in 1..(i - 1) /\ x \in AwsUsers[4].parts
        BY <3>5, AwsStages
      <4> QED BY <4>1
    <3> QED BY <3>2, <3>3, <3>4, <3>5
  <2>3. Len(AwsUsers) = 6
    BY AwsStages
  <2>4. InOrder(AwsUsers, Part)
    <3> SUFFICES ASSUME NEW i \in 1..6, NEW p \in AwsUsers[i].parts, NEW x \in Part,
                        Hinders(x, p)
                 PROVE  \E j \in 1..(i - 1) : AwsUsers[j].do = "try"
                                              /\ x \in GoesWith(AwsUsers[j].parts)
      BY <2>3 DEF InOrder
    <3>1. PICK j \in 1..(i - 1) : x \in AwsUsers[j].parts
      BY <2>2
    <3>2. j \in 1..Len(AwsUsers)
      BY <2>3
    <3> QED BY <2>1, <3>1, <3>2 DEF GoesWith
  <2>5. \A i \in 1..Len(AwsUsers) : HarmlessCall(AwsUsers[i]) /\ ~EmptiesBucket(AwsUsers[i])
    BY <2>1, Zenon DEF HarmlessCall, Prepares, EmptiesBucket
  <2> QED BY <1>1, <2>4, <2>5 DEF Apart, Fit
<1>7. Fit(AwsBucket)
  <2>1. Len(AwsBucket) = 3 /\ AwsBucket[1].do = "truncate" /\ AwsBucket[2].do = "truncate"
        /\ AwsBucket[3].parts = {"bucket"}
    BY AwsStages DEF Truncate, Try
  <2>2. \A i \in 1..Len(AwsBucket) : AwsBucket[i].do = "try" => AwsBucket[i].parts = {"bucket"}
    BY <2>1
  <2>3. InOrder(AwsBucket, Part)
    BY <2>2, HinderedBy DEF InOrder
  <2>4. \A i \in 1..Len(AwsBucket) : HarmlessCall(AwsBucket[i])
    BY <2>1, <2>2, AwsStages DEF HarmlessCall, Prepares, Try
  <2> QED BY <1>1, <2>3, <2>4 DEF Fit
<1> QED BY <1>2, <1>3, <1>4, <1>5, <1>6, <1>7

LEMMA GoogleStagesFit ==
  /\ Apart(GooglePrepare) /\ Apart(GoogleStep) /\ Apart(GoogleAgent) /\ Apart(GoogleTargets)
  /\ Apart(GoogleOwn) /\ Apart(GoogleUser) /\ Apart(GoogleBucket)
<1>1. /\ GooglePrepare \in Seq(AnyCall) /\ GoogleStep \in Seq(AnyCall)
      /\ GoogleAgent \in Seq(AnyCall) /\ GoogleTargets \in Seq(AnyCall)
      /\ GoogleOwn \in Seq(AnyCall) /\ GoogleUser \in Seq(AnyCall)
      /\ GoogleBucket \in Seq(AnyCall)
  BY GoogleStagesDelete DEF Deletions, Series
<1>2. Apart(GooglePrepare)
  <2>1. \A i \in 1..Len(GooglePrepare) : /\ GooglePrepare[i].do = "look"
                                          /\ GooglePrepare[i].part \in Harmless
    BY GoogleStages DEF GetOrMake, Look, Harmless
  <2> QED BY <1>1, <2>1, FreeApart, Zenon DEF Prepares
<1>3. Apart(GoogleStep)
  <2>1. \A i \in 1..Len(GoogleStep) :
           /\ GoogleStep[i].do = "try"
           /\ GoogleStep[i].parts \subseteq {"deliveryPipeline", "planJob", "applyJob",
                "planDestroyJob", "applyDestroyJob"}
    BY GoogleStages
  <2> QED BY <1>1, <2>1, FreeApart, Zenon DEF Prepares
<1>4. Apart(GoogleAgent)
  <2>1. \A i \in 1..Len(GoogleAgent) :
           /\ GoogleAgent[i].do = "try"
           /\ GoogleAgent[i].parts \subseteq {"agentSchedule", "agentRunJob", "agentUpdateJob"}
    BY GoogleStages
  <2> QED BY <1>1, <2>1, FreeApart, Zenon DEF Prepares
<1>5. Apart(GoogleTargets)
  <2>1. \A i \in 1..Len(GoogleTargets) :
           /\ GoogleTargets[i].do = "try"
           /\ GoogleTargets[i].parts \subseteq {"planTarget", "applyTarget"}
    BY GoogleStages
  <2> QED BY <1>1, <2>1, FreeApart, Zenon DEF Prepares
<1>6. Apart(GoogleOwn) /\ Apart(GoogleUser)
  <2>1. /\ \A i \in 1..Len(GoogleOwn) :
             GoogleOwn[i].do = "try" /\ GoogleOwn[i].parts = {"agentAccount"}
        /\ \A i \in 1..Len(GoogleUser) :
             GoogleUser[i].do = "try" /\ GoogleUser[i].parts = {"userAccount"}
    BY GoogleStages DEF Try
  <2> QED BY <1>1, <2>1, FreeApart, Zenon DEF Prepares
<1>7. Apart(GoogleBucket)
  <2>1. /\ Len(GoogleBucket) = 2 /\ \A i \in 1..2 : GoogleBucket[i].do = "try"
        /\ GoogleBucket[1].parts = {"storedConfig"} /\ GoogleBucket[2].parts = {"storage"}
    BY GoogleStages
  <2>2. InOrder(GoogleBucket, Part)
    <3> SUFFICES ASSUME NEW i \in 1..2, NEW p \in GoogleBucket[i].parts, NEW x \in Part,
                        Hinders(x, p)
                 PROVE  \E j \in 1..(i - 1) : GoogleBucket[j].do = "try"
                                              /\ x \in GoesWith(GoogleBucket[j].parts)
      BY <2>1 DEF InOrder
    <3>1. i = 2 /\ x = "storedConfig"
      BY <2>1, HinderedBy
    <3>2. 1 \in 1..(i - 1) /\ x \in GoogleBucket[1].parts
      BY <2>1, <3>1
    <3> QED BY <2>1, <3>2 DEF GoesWith
  <2>3. \A i \in 1..Len(GoogleBucket) : /\ GoogleBucket[i].do = "try"
                                        /\ GoogleBucket[i].parts \subseteq {"storedConfig", "storage"}
    BY <2>1
  <2>4. \A i \in 1..Len(GoogleBucket) : HarmlessCall(GoogleBucket[i])
    BY <2>3 DEF HarmlessCall, Prepares
  <2>5. \A i \in 1..Len(GoogleBucket) : ~EmptiesBucket(GoogleBucket[i])
    BY <2>3 DEF EmptiesBucket
  <2> QED BY <1>1, <2>2, <2>4, <2>5 DEF Apart, Fit
<1> QED BY <1>2, <1>3, <1>4, <1>5, <1>6, <1>7

\* The calls of a delete, before any is made.
Planned(q) == Fit(q) /\ EmptiesLast(q) /\ (DeletesBucket(q) => Len(q) > 2)

LEMMA AwsPlanned ==
  ASSUME NEW found \in BOOLEAN, NEW steps \in BOOLEAN, NEW b \in BOOLEAN,
         NEW account \in BOOLEAN
  PROVE  Planned(Aws!Delete(found, steps, b, account))
<1> DEFINE prepare == IF found THEN AwsRepair ELSE <<>>
           more == IF steps THEN AwsProject ELSE <<>>
           sa == IF account THEN AwsUsers ELSE <<>>
           last == IF b THEN AwsBucket ELSE <<>>
           most == prepare \o more \o (AwsFirst \o AwsRoles \o sa)
           all == prepare \o more \o (AwsFirst \o AwsRoles \o sa \o last)
<1>1. Aws!Delete(found, steps, b, account) = all
  BY AwsDeleteIs, Zenon
<1>2. Apart(prepare) /\ Apart(more) /\ Apart(sa) /\ Fit(last)
  BY AwsStagesFit, ApartEmpty DEF Apart
<1>3. b => last = AwsBucket
  OBVIOUS
<1>4. ~b => last = <<>>
  OBVIOUS
<1> HIDE DEF prepare, more, sa, last
<1>5. Apart(AwsFirst \o AwsRoles \o sa)
  <2>1. Apart(AwsFirst \o AwsRoles)
    BY AwsStagesFit, ApartConcat
  <2> QED BY <1>2, <2>1, ApartConcat
<1>6. Apart(most)
  <2>1. Apart(prepare \o more)
    BY <1>2, ApartConcat
  <2> QED BY <1>5, <2>1, ApartConcat
<1>7. all = most \o last
  <2> DEFINE x == prepare \o more
             y == AwsFirst \o AwsRoles \o sa
  <2>1. x \in Seq(AnyCall) /\ y \in Seq(AnyCall) /\ last \in Seq(AnyCall)
    BY <1>2, <1>5 DEF Apart, Fit
  <2>2. most = x \o y /\ all = x \o (y \o last)
    OBVIOUS
  <2> HIDE DEF x, y, most, all
  <2> QED BY <2>1, <2>2
<1> HIDE DEF most, all
<1>8. CASE b
  <2>1. EmptiesLast(most \o AwsBucket) /\ Len(most \o AwsBucket) > 2
    BY <1>6, AwsStagesFit, AwsStages, BucketLast, Zenon
  <2>2. Fit(most \o AwsBucket)
    BY <1>6, AwsStagesFit, FitConcat DEF Apart
  <2> QED BY <1>1, <1>3, <1>7, <1>8, <2>1, <2>2 DEF Planned
<1>9. CASE ~b
  <2>1. most \o <<>> = most
    BY <1>6 DEF Apart, Fit
  <2>2. Fit(most) /\ EmptiesLast(most) /\ ~DeletesBucket(most)
    BY <1>6, ApartEmptiesLast DEF Apart
  <2> QED BY <1>1, <1>4, <1>7, <1>9, <2>1, <2>2 DEF Planned
<1> QED BY <1>8, <1>9

LEMMA GooglePlanned ==
  ASSUME NEW steps \in BOOLEAN, NEW b \in BOOLEAN, NEW account \in BOOLEAN
  PROVE  Planned(Google!Delete(steps, b, account))
<1> DEFINE more == IF steps THEN GoogleStep ELSE <<>>
           sa == IF account THEN GoogleUser ELSE <<>>
           last == IF b THEN GoogleBucket ELSE <<>>
           rest == GoogleAgent \o GoogleTargets \o GoogleOwn \o sa \o last
           all == GooglePrepare \o more \o rest
<1>1. Google!Delete(steps, b, account) = all
  BY GoogleDeleteIs, Zenon
<1>2. Apart(more) /\ Apart(sa) /\ Apart(last)
  BY GoogleStagesFit, ApartEmpty
<1> HIDE DEF more, sa, last
<1>3. Apart(rest)
  <2>1. Apart(GoogleAgent \o GoogleTargets)
    BY GoogleStagesFit, ApartConcat
  <2>2. Apart((GoogleAgent \o GoogleTargets) \o GoogleOwn)
    BY <2>1, GoogleStagesFit, ApartConcat
  <2>3. Apart(((GoogleAgent \o GoogleTargets) \o GoogleOwn) \o sa)
    BY <1>2, <2>2, ApartConcat
  <2> QED BY <1>2, <2>3, ApartConcat
<1> HIDE DEF rest
<1>4. Apart(all)
  <2>1. Apart(GooglePrepare \o more)
    BY <1>2, GoogleStagesFit, ApartConcat
  <2> QED BY <1>3, <2>1, ApartConcat
<1> HIDE DEF all
<1> QED BY <1>1, <1>4, ApartEmptiesLast DEF Planned, Apart

\* A part that hinders a deletion.
Obstructs(x) == \E p : Hinders(x, p)

\* The rest of a series is in order if what was to be deleted by the calls left
\* out hinders nothing or is gone.
LEMMA OrderedSuffix ==
  ASSUME NEW S, NEW q \in Seq(S), NEW n \in 0..Len(q), Tidy(q), NEW X, WellOrdered(q, X),
         NEW Y,
         \A x \in Y : Obstructs(x) =>
            /\ x \in X
            /\ \A i \in 1..n : q[i].do = "try" => x \notin GoesWith(q[i].parts)
  PROVE  LET r == SubSeq(q, n + 1, Len(q))
         IN  WellOrdered(r, Y) /\ (DeletesBucket(r) => DeletesBucket(q))
<1> DEFINE r == SubSeq(q, n + 1, Len(q))
<1>1. /\ r \in Seq(S) /\ Len(r) = Len(q) - n
      /\ \A i \in 1..(Len(q) - n) : r[i] = q[n + i]
  BY SuffixIs
<1>2. Deleting(r)
  BY DeletingSuffix DEF WellOrdered
<1> HIDE DEF r
<1>3. /\ n \in Nat /\ Len(q) \in Nat
      /\ \A i \in 1..Len(r) : n + i \in 1..Len(q) /\ r[i] = q[n + i]
  BY <1>1
<1>4. InOrder(r, Y)
  <2> SUFFICES ASSUME NEW i \in 1..Len(r), r[i].do = "try", NEW p \in r[i].parts, NEW x \in Y,
                      Hinders(x, p)
               PROVE  \E j \in 1..(i - 1) : r[j].do = "try" /\ x \in GoesWith(r[j].parts)
    BY DEF InOrder
  <2>1. Obstructs(x)
    BY DEF Obstructs
  <2>2. n + i \in 1..Len(q) /\ r[i] = q[n + i]
    BY <1>3
  <2>3. PICK j \in 1..(n + i - 1) : q[j].do = "try" /\ x \in GoesWith(q[j].parts)
    BY <2>1, <2>2 DEF WellOrdered, InOrder
  <2>4. ~(j <= n)
    BY <2>1, <2>3, <1>3
  <2>5. j - n \in 1..(i - 1) /\ j - n \in 1..Len(r) /\ n + (j - n) = j
    BY <2>2, <2>3, <2>4, <1>1, <1>3
  <2>6. r[j - n] = q[j]
    BY <2>5, <1>3, Zenon
  <2> QED BY <2>3, <2>5, <2>6
<1>5. \A i \in 1..Len(r) : HarmlessCall(r[i])
  BY <1>3 DEF WellOrdered
<1>6. Len(r) > 0 => r # <<>> /\ r[Len(r)] = q[Len(q)] /\ q # <<>>
  <2> SUFFICES ASSUME Len(r) > 0 PROVE r # <<>> /\ r[Len(r)] = q[Len(q)] /\ q # <<>>
    OBVIOUS
  <2>1. Len(r) \in 1..Len(r) /\ n + Len(r) = Len(q)
    BY <1>1, <1>3
  <2> QED BY <1>3, <2>1
<1>7. r # <<>> => Len(r) > 0
  BY <1>1
<1>8. DeletesBucket(r) <=> Len(r) > 0 /\ DeletesBucket(q)
  BY <1>6, <1>7 DEF DeletesBucket
<1>9. EmptiesLast(r)
  <2>1. ASSUME NEW i \in 1..Len(r), EmptiesBucket(r[i])
        PROVE  DeletesBucket(r) /\ i > Len(r) - 3
    <3>1. n + i \in 1..Len(q) /\ EmptiesBucket(q[n + i])
      BY <1>3, <2>1
    <3>2. DeletesBucket(q) /\ n + i > Len(q) - 3
      BY <3>1 DEF WellOrdered, EmptiesLast
    <3>3. Len(r) > 0
      BY <1>1, <1>3
    <3> QED BY <3>2, <3>3, <1>1, <1>3, <1>8
  <2>2. ASSUME DeletesBucket(r), NEW i \in 1..3, i <= Len(r)
        PROVE  r[Len(r) + 1 - i] = LastCalls[i]
    <3>1. Len(r) + 1 - i \in 1..Len(r) /\ n + (Len(r) + 1 - i) = Len(q) + 1 - i
          /\ i <= Len(q)
      BY <1>1, <1>3, <2>2
    <3>2. q[Len(q) + 1 - i] = LastCalls[i]
      BY <1>8, <2>2, <3>1 DEF WellOrdered, EmptiesLast
    <3>3. r[Len(r) + 1 - i] = q[n + (Len(r) + 1 - i)]
      BY <1>3, <3>1
    <3> QED BY <3>1, <3>2, <3>3
  <2> QED BY <2>1, <2>2 DEF EmptiesLast
<1> QED BY <1>2, <1>4, <1>5, <1>8, <1>9 DEF WellOrdered, r

\* A delete goes on in order; of the bucket's deletion nothing is left out.
LEMMA OrderGoesOn ==
  ASSUME AccountInv, NEW s \in Sessions, NEW calls \in Seq(AnyCall), Tidy(calls),
         NEW X \in SUBSET scope, WellOrdered(calls, X), GoesOn(s, calls)
  PROVE  /\ WellOrdered(todo'[s], X)
         /\ calls = <<>> => todo'[s] = <<>>
         /\ "bucket" \in scope /\ DeletesBucket(todo'[s]) =>
              /\ DeletesBucket(calls)
              /\ Len(todo'[s]) = Len(calls) \/ (Len(todo'[s]) > 2 /\ Len(calls) > 2)
<1>1. PICK n \in 0..Len(calls) :
        /\ \A i \in 1..n : ~InScope(calls[i])
        /\ todo' = [todo EXCEPT ![s] = SubSeq(calls, n + 1, Len(calls))]
  BY Zenon DEF GoesOn
<1> DEFINE r == SubSeq(calls, n + 1, Len(calls))
<1>2. r \in Seq(AnyCall) /\ Len(r) = Len(calls) - n
  BY SuffixIs
<1>3. ASSUME NEW x \in X, NEW i \in 1..n, calls[i].do = "try"
      PROVE  x \notin GoesWith(calls[i].parts)
  <2>1. calls[i] \in AnyCall
    BY <1>3
  <2>2. calls[i].parts \in Together
    BY <2>1, <1>3 DEF AnyCall, Calls1, SimpleCalls, LooksFor
  <2>3. ~(calls[i].parts \subseteq scope)
    BY <1>1, <1>3 DEF InScope
  <2> QED BY <1>3, <2>2, <2>3, DoomInScope
<1>4. WellOrdered(r, X) /\ (DeletesBucket(r) => DeletesBucket(calls))
  BY <1>3, OrderedSuffix
<1> HIDE DEF r
<1>5. todo'[s] = r
  BY <1>1 DEF r, AccountInv, CallsOK
<1>6. calls = <<>> => r = <<>>
  BY <1>2
<1>7. ASSUME "bucket" \in scope, DeletesBucket(calls)
      PROVE  Len(r) = Len(calls) \/ (Len(r) > 2 /\ Len(calls) > 2)
  <2>1. /\ InScope(LastCalls[1]) /\ InScope(LastCalls[2]) /\ InScope(LastCalls[3])
    BY <1>7 DEF InScope, LastCalls, Try, Truncate
  <2>2. \A i \in 1..3 : i <= Len(calls) => calls[Len(calls) + 1 - i] = LastCalls[i]
    BY <1>7 DEF WellOrdered, EmptiesLast
  <2>3. Len(calls) \in Nat /\ Len(calls) # 0 /\ n \in Nat
    BY <1>7 DEF DeletesBucket
  <2>4. CASE Len(calls) > 2
    <3>1. ASSUME ~(n < Len(calls) - 2) PROVE FALSE
      <4>1. 3 <= Len(calls) /\ Len(calls) + 1 - 3 \in 1..n
        BY <2>3, <2>4, <3>1
      <4> QED BY <1>1, <2>1, <2>2, <4>1
    <3> QED BY <1>2, <2>3, <2>4, <3>1
  <2>5. CASE Len(calls) <= 2
    <3>1. ASSUME n # 0 PROVE FALSE
      <4>1. 1 \in 1..n
        BY <2>3, <3>1
      <4>2. Len(calls) = 1 \/ Len(calls) = 2
        <5> DEFINE m == Len(calls)
        <5>1. m \in Nat /\ m # 0 /\ m <= 2
          BY <2>3, <2>5
        <5> HIDE DEF m
        <5>2. m \in {1, 2}
          BY <5>1, FewNumbers
        <5> QED BY <5>2 DEF m
      <4>3. calls[1] = LastCalls[1] \/ calls[1] = LastCalls[2]
        <5>1. CASE Len(calls) = 1
          <6>1. 1 <= Len(calls) /\ Len(calls) + 1 - 1 = 1
            BY <5>1
          <6>2. calls[Len(calls) + 1 - 1] = LastCalls[1]
            BY <2>2, <6>1
          <6> QED BY <6>1, <6>2, Zenon
        <5>2. CASE Len(calls) = 2
          <6>1. 2 <= Len(calls) /\ Len(calls) + 1 - 2 = 1
            BY <5>2
          <6>2. calls[Len(calls) + 1 - 2] = LastCalls[2]
            BY <2>2, <6>1
          <6> QED BY <6>1, <6>2, Zenon
        <5> QED BY <4>2, <5>1, <5>2
      <4>4. ~InScope(calls[1])
        BY <1>1, <4>1
      <4> QED BY <2>1, <4>3, <4>4
    <3> QED BY <1>2, <2>3, <3>1
  <2> QED BY <2>3, <2>4, <2>5
<1> QED BY <1>4, <1>5, <1>6, <1>7

\* What a delete looked for is made in the place of the look.
LEMMA OrderedLook ==
  ASSUME NEW S, NEW q \in Seq(S), q # <<>>, Tidy(q), NEW X, WellOrdered(q, X),
         NEW c, q[1].do = "look", c.do = "make", c.part \in Harmless \ Aws!Owners
  PROVE  /\ WellOrdered(<<c>> \o Tail(q), X) /\ Len(<<c>> \o Tail(q)) = Len(q)
         /\ DeletesBucket(<<c>> \o Tail(q)) => DeletesBucket(q)
<1> DEFINE r == <<c>> \o Tail(q)
<1>1. Deleting(r)
  BY DeletingLook DEF WellOrdered
<1>2. Len(r) = Len(q) /\ r[1] = c /\ Len(q) \in Nat \ {0} /\ r # <<>>
      /\ \A i \in 2..Len(q) : r[i] = q[i]
  <2> DEFINE t == Tail(q)
  <2>1. /\ t \in Seq(S) /\ Len(t) = Len(q) - 1 /\ Len(q) \in Nat \ {0}
        /\ \A i \in 1..(Len(q) - 1) : t[i] = q[i + 1]
    BY TailIs
  <2> HIDE DEF t
  <2>2. Len(<<c>> \o t) = Len(t) + 1 /\ (<<c>> \o t)[1] = c
        /\ \A i \in 1..Len(t) : (<<c>> \o t)[i + 1] = t[i]
    BY <2>1
  <2>3. ASSUME NEW i \in 2..Len(q) PROVE (<<c>> \o t)[i] = q[i]
    <3>1. i - 1 \in 1..Len(t) /\ (i - 1) + 1 = i /\ i - 1 \in 1..(Len(q) - 1)
      BY <2>1
    <3>2. (<<c>> \o t)[(i - 1) + 1] = t[i - 1] /\ t[i - 1] = q[(i - 1) + 1]
      BY <2>1, <2>2, <3>1
    <3> QED BY <3>1, <3>2
  <2>4. <<c>> \o t # <<>>
    BY <2>1, <2>2
  <2> QED BY <2>1, <2>2, <2>3, <2>4 DEF t
<1> HIDE DEF r
<1>3. InOrder(r, X)
  <2> SUFFICES ASSUME NEW i \in 1..Len(r), r[i].do = "try", NEW p \in r[i].parts, NEW x \in X,
                      Hinders(x, p)
               PROVE  \E j \in 1..(i - 1) : r[j].do = "try" /\ x \in GoesWith(r[j].parts)
    BY DEF InOrder
  <2>1. i \in 2..Len(q) /\ r[i] = q[i] /\ i \in 1..Len(q)
    <3>1. i # 1
      BY <1>2
    <3> QED BY <1>2, <3>1
  <2>2. PICK j \in 1..(i - 1) : q[j].do = "try" /\ x \in GoesWith(q[j].parts)
    BY <2>1 DEF WellOrdered, InOrder
  <2>3. j \in 2..Len(q)
    BY <1>2, <2>1, <2>2
  <2> QED BY <1>2, <2>2, <2>3
<1>4. ASSUME NEW i \in 1..Len(r) PROVE HarmlessCall(r[i])
  <2>1. CASE i = 1
    BY <1>2, <2>1 DEF HarmlessCall
  <2>2. CASE i # 1
    BY <1>2, <2>2 DEF WellOrdered
  <2> QED BY <2>1, <2>2
<1>5. ~EmptiesBucket(r[1]) /\ ~EmptiesBucket(q[1]) /\ r[1] # LastCalls[1] /\ q[1] # LastCalls[1]
  BY <1>2 DEF EmptiesBucket, LastCalls, Try
<1>6. DeletesBucket(r) <=> DeletesBucket(q)
  <2>1. CASE Len(q) = 1
    BY <1>2, <1>5, <2>1 DEF DeletesBucket
  <2>2. CASE Len(q) # 1
    <3>1. Len(q) \in 2..Len(q)
      BY <1>2, <2>2
    <3> QED BY <1>2, <3>1 DEF DeletesBucket
  <2> QED BY <2>1, <2>2
<1>7. EmptiesLast(r)
  <2>1. ASSUME NEW i \in 1..Len(r), EmptiesBucket(r[i])
        PROVE  DeletesBucket(r) /\ i > Len(r) - 3
    <3>1. i \in 2..Len(q) /\ i \in 1..Len(q)
      BY <1>2, <1>5, <2>1
    <3>2. EmptiesBucket(q[i])
      BY <1>2, <2>1, <3>1
    <3> QED BY <1>2, <1>6, <3>1, <3>2 DEF WellOrdered, EmptiesLast
  <2>2. ASSUME DeletesBucket(r), NEW i \in 1..3, i <= Len(r)
        PROVE  r[Len(r) + 1 - i] = LastCalls[i]
    <3>1. q[Len(q) + 1 - i] = LastCalls[i]
      BY <1>2, <1>6, <2>2 DEF WellOrdered, EmptiesLast
    <3>2. Len(q) + 1 - i \in 1..Len(q)
      BY <1>2, <2>2
    <3>3. Len(q) + 1 - i # 1
      <4> SUFFICES ASSUME Len(q) + 1 - i = 1 PROVE FALSE
        OBVIOUS
      <4>1. q[1] = LastCalls[i]
        BY <3>1
      <4>2. LastCalls[i].do # "look"
        <5>1. i = 1 \/ i = 2 \/ i = 3
          OBVIOUS
        <5> QED BY <5>1 DEF LastCalls, Try, Truncate
      <4> QED BY <4>1, <4>2
    <3>4. Len(q) + 1 - i \in 2..Len(q)
      BY <3>2, <3>3, <1>2
    <3> QED BY <1>2, <3>1, <3>4
  <2> QED BY <2>1, <2>2 DEF EmptiesLast
<1> QED BY <1>1, <1>2, <1>3, <1>4, <1>6, <1>7 DEF WellOrdered, r

\* The first call of a delete no call of which has failed.
LEMMA CalmCall ==
  ASSUME AccountInv, OrderInv, NEW s \in Sessions, Calm(s), todo[s] # <<>>
  PROVE  /\ todo[s] \in Seq(AnyCall) /\ Tidy(todo[s]) /\ Len(todo[s]) \in Nat \ {0}
         /\ Call(s) = todo[s][1] /\ Call(s) \in AnyCall
         /\ Tail(todo[s]) \in Seq(AnyCall) /\ Tidy(Tail(todo[s]))
         /\ WellOrdered(todo[s], parts) /\ HarmlessCall(Call(s))
         /\ Prepares(Call(s)) \/ Deletes(Call(s))
         /\ "bucket" \notin refused[s]
         /\ EmptiesBucket(Call(s)) =>
              /\ Len(todo[s]) \in 1..3 /\ DeletesBucket(todo[s])
              /\ Call(s) = LastCalls[Len(todo[s])]
         /\ ~EmptiesBucket(Call(s)) /\ DeletesBucket(todo[s]) => Len(todo[s]) > 3
<1> DEFINE q == todo[s]
<1>1. WellOrdered(q, parts) /\ "bucket" \notin refused[s]
  BY DEF OrderInv, Orderly
<1>2. /\ q \in Seq(AnyCall) /\ Call(s) = q[1] /\ Ready(q) /\ Call(s) \in AnyCall
      /\ Len(q) \in Nat \ {0} /\ Tail(q) \in Seq(AnyCall) /\ Tidy(Tail(q))
      /\ q # <<>>
  BY FirstCall DEF AccountInv
<1> HIDE DEF q
<1>3. 1 \in 1..Len(q)
  BY <1>2
<1>4. (Prepares(Call(s)) \/ Deletes(Call(s))) /\ HarmlessCall(Call(s))
  BY <1>1, <1>2, <1>3 DEF WellOrdered, Deleting
<1>5. Tidy(q)
  <2>1. ASSUME NEW o \in Aws!Owners, Begun(q, o) PROVE FALSE
    <3>1. Call(s).do = "make" /\ Call(s).part = o
      BY <1>2, <2>1 DEF Begun, Make
    <3> QED BY <1>4, <3>1 DEF Prepares, Deletes
  <2> QED BY <2>1, <1>2 DEF Ready
<1>6. ASSUME DeletesBucket(q), Len(q) \in 1..3
      PROVE  Call(s) = LastCalls[Len(q)]
  <2>1. Len(q) <= Len(q) /\ Len(q) + 1 - Len(q) = 1
    BY <1>2
  <2>2. q[Len(q) + 1 - Len(q)] = LastCalls[Len(q)]
    BY <1>1, <1>6, <2>1 DEF WellOrdered, EmptiesLast
  <2> QED BY <1>2, <2>1, <2>2
<1>7. ASSUME EmptiesBucket(Call(s))
      PROVE  Len(q) \in 1..3 /\ DeletesBucket(q) /\ Call(s) = LastCalls[Len(q)]
  <2>1. DeletesBucket(q) /\ 1 > Len(q) - 3
    BY <1>1, <1>2, <1>3, <1>7 DEF WellOrdered, EmptiesLast
  <2>2. Len(q) \in 1..3
    <3> DEFINE m == Len(q)
    <3>1. m \in Nat /\ m # 0 /\ 1 > m - 3
      BY <1>2, <2>1
    <3> HIDE DEF m
    <3>2. m \in 1..3
      BY <3>1, FewNumbers
    <3> QED BY <3>2 DEF m
  <2> QED BY <1>6, <2>1, <2>2
<1>8. ASSUME ~EmptiesBucket(Call(s)), DeletesBucket(q) PROVE Len(q) > 3
  <2> SUFFICES ASSUME ~(Len(q) > 3) PROVE FALSE
    OBVIOUS
  <2>1. Call(s) = LastCalls[1] \/ Call(s) = LastCalls[2] \/ Call(s) = LastCalls[3]
    <3> DEFINE m == Len(q)
    <3>1. m \in Nat /\ m # 0 /\ ~(m > 3)
      BY <1>2
    <3> HIDE DEF m
    <3>2. m \in {1, 2, 3} /\ m \in 1..3
      BY <3>1, FewNumbers
    <3>3. Call(s) = LastCalls[m]
      BY <1>6, <1>8, <3>2 DEF m
    <3> QED BY <3>2, <3>3
  <2> QED BY <1>8, <2>1 DEF EmptiesBucket, LastCalls, Try, Truncate
<1> QED BY <1>1, <1>2, <1>4, <1>5, <1>7, <1>8 DEF q

LEMMA OrderedTail ==
  ASSUME NEW S, NEW q \in Seq(S), q # <<>>, Tidy(q), NEW X, WellOrdered(q, X), NEW Y,
         \A x \in Y : Obstructs(x) =>
            x \in X /\ (q[1].do = "try" => x \notin GoesWith(q[1].parts))
  PROVE  /\ WellOrdered(Tail(q), Y) /\ Len(Tail(q)) = Len(q) - 1
         /\ DeletesBucket(Tail(q)) => DeletesBucket(q)
<1>1. 1 \in 0..Len(q) /\ Tail(q) = SubSeq(q, 1 + 1, Len(q)) /\ Len(Tail(q)) = Len(q) - 1
  BY TailIs
<1>2. \A x \in Y : Obstructs(x) =>
         /\ x \in X
         /\ \A i \in 1..1 : q[i].do = "try" => x \notin GoesWith(q[i].parts)
  <2>1. \A i \in 1..1 : i = 1
    OBVIOUS
  <2> QED BY <2>1
<1> DEFINE n == 1
           r == SubSeq(q, n + 1, Len(q))
<1>3. WellOrdered(r, Y) /\ (DeletesBucket(r) => DeletesBucket(q))
  BY <1>1, <1>2, OrderedSuffix
<1>4. r = Tail(q)
  BY <1>1
<1> HIDE DEF r
<1> QED BY <1>1, <1>3, <1>4

LEMMA NothingInOrder == \A X : WellOrdered(<<>>, X) /\ ~DeletesBucket(<<>>)
BY DEF WellOrdered, Deleting, EmptiesLast, InOrder, DeletesBucket

\* A delete goes on with calls that are in order.
LEMMA StillOrderly ==
  ASSUME AccountInv, NEW s \in Sessions, NEW calls \in Seq(AnyCall), Tidy(calls),
         parts' \subseteq scope, WellOrdered(calls, parts'), GoesOn(s, calls),
         UNCHANGED <<scope, listing>>,
         refused'[s] \subseteq {"saPolicy", "bucket"},
         "saPolicy" \in refused'[s] => "saPolicy" \in parts' /\ saVersions' > 1,
         "bucket" \in refused'[s] =>
            /\ calls = <<>>
            /\ Len(listing[s]) > 1 /\ Entries(pages') < Entries(listing[s]),
         "bucket" \in scope /\ DeletesBucket(calls) =>
            pages' = PagesBefore(Len(calls), listing[s])
  PROVE  Orderly(s)'
<1> DEFINE r == todo'[s]
<1>1. /\ WellOrdered(r, parts')
      /\ calls = <<>> => r = <<>>
      /\ "bucket" \in scope /\ DeletesBucket(r) =>
           /\ DeletesBucket(calls)
           /\ Len(r) = Len(calls) \/ (Len(r) > 2 /\ Len(calls) > 2)
  BY OrderGoesOn
<1>0. r \in Seq(AnyCall)
  BY GoesOnIs DEF AccountInv, Ready
<1> HIDE DEF r
<1>2. ASSUME "bucket" \in scope, DeletesBucket(r)
      PROVE  pages' = PagesBefore(Len(r), listing[s])
  <2>1. pages' = PagesBefore(Len(calls), listing[s])
    BY <1>1, <1>2
  <2>2. CASE Len(r) = Len(calls)
    BY <2>1, <2>2
  <2>3. CASE Len(r) > 2 /\ Len(calls) > 2
    <3>1. Len(calls) \in Nat /\ Len(r) \in Nat
      BY <1>0
    <3> QED BY <2>1, <2>3, <3>1, PagesAre
  <2> QED BY <1>1, <1>2, <2>2, <2>3
<1>3. /\ listing'[s] = listing[s] /\ scope' = scope
  OBVIOUS
<1> QED BY <1>1, <1>2, <1>3 DEF Orderly, r

\* It goes on with the rest of its calls.
LEMMA CalmTail ==
  ASSUME AccountInv, OrderInv, NEW s \in Sessions, Calm(s), todo[s] # <<>>,
         GoesOn(s, Tail(todo[s])), UNCHANGED <<scope, listing>>, parts' \subseteq scope,
         \A x \in parts' : Obstructs(x) =>
            x \in parts /\ (Call(s).do = "try" => x \notin GoesWith(Call(s).parts)),
         refused'[s] \subseteq {"saPolicy", "bucket"},
         "saPolicy" \in refused'[s] => "saPolicy" \in parts' /\ saVersions' > 1,
         "bucket" \in refused'[s] =>
            /\ Tail(todo[s]) = <<>>
            /\ Len(listing[s]) > 1 /\ Entries(pages') < Entries(listing[s]),
         ~EmptiesBucket(Call(s)) => pages' = pages,
         "bucket" \in scope /\ EmptiesBucket(Call(s)) /\ Len(todo[s]) > 1 =>
            pages' = PagesBefore(Len(todo[s]) - 1, listing[s])
  PROVE  Orderly(s)'
<1> DEFINE q == todo[s]
           t == Tail(todo[s])
<1>1. /\ q \in Seq(AnyCall) /\ Tidy(q) /\ Len(q) \in Nat \ {0} /\ q # <<>>
      /\ Call(s) = q[1] /\ t = Tail(q) /\ t \in Seq(AnyCall) /\ Tidy(t)
      /\ WellOrdered(q, parts)
      /\ EmptiesBucket(Call(s)) => Len(q) \in 1..3 /\ DeletesBucket(q)
      /\ ~EmptiesBucket(Call(s)) /\ DeletesBucket(q) => Len(q) > 3
  BY CalmCall
<1>2. "bucket" \in scope /\ DeletesBucket(q) => pages = PagesBefore(Len(q), listing[s])
  BY DEF OrderInv, Orderly
<1>3. "bucket" \in scope /\ EmptiesBucket(Call(s)) /\ Len(q) > 1 =>
         pages' = PagesBefore(Len(q) - 1, listing[s])
  OBVIOUS
<1> HIDE DEF q, t
<1>4. WellOrdered(t, parts') /\ Len(t) = Len(q) - 1 /\ (DeletesBucket(t) => DeletesBucket(q))
  BY <1>1, OrderedTail
<1>5. ASSUME "bucket" \in scope, DeletesBucket(t)
      PROVE  pages' = PagesBefore(Len(t), listing[s])
  <2>1. Len(t) > 0 /\ Len(q) > 1
    <3>1. t # <<>>
      BY <1>5 DEF DeletesBucket
    <3>2. Len(t) # 0 /\ Len(t) \in Nat
      BY <1>1, <3>1
    <3> QED BY <1>1, <1>4, <3>2
  <2>2. CASE EmptiesBucket(Call(s))
    BY <1>3, <1>4, <1>5, <2>1, <2>2
  <2>3. CASE ~EmptiesBucket(Call(s))
    <3>1. Len(q) > 3 /\ Len(q) > 2 /\ Len(t) > 2
      BY <1>1, <1>4, <1>5, <2>3
    <3>2. pages' = pages /\ pages = PagesBefore(Len(q), listing[s])
      BY <1>2, <1>4, <1>5, <2>3
    <3>3. Len(q) \in Nat /\ Len(t) \in Nat
      BY <1>1
    <3> QED BY <3>1, <3>2, <3>3, PagesAre
  <2> QED BY <2>2, <2>3
<1>6. GoesOn(s, t) /\ ("bucket" \in refused'[s] => t = <<>>)
  BY DEF t
<1> QED BY <1>1, <1>4, <1>5, <1>6, StillOrderly, Zenon

\* A delete makes what hinders nothing, so the rest stays in order.
LEMMA CalmLook ==
  ASSUME AccountInv, OrderInv, NEW s \in Sessions, Calm(s), LookUp(s)
  PROVE  Orderly(s)'
<1>1. /\ todo[s] # <<>> /\ Call(s).do = "look"
      /\ UNCHANGED <<scope, parts, pages, saVersions, refused, listing>>
  BY DEF LookUp, Calls
<1> DEFINE x == Call(s).part
           q == todo[s]
           calls == (IF x \in parts THEN Call(s).found ELSE Call(s).missing) \o Tail(q)
<1>2. GoesOn(s, calls)
  BY DEF LookUp
<1>3. /\ q \in Seq(AnyCall) /\ q # <<>> /\ Tidy(q) /\ Len(q) \in Nat \ {0}
      /\ Call(s) = q[1] /\ Call(s) \in AnyCall
      /\ Tail(q) \in Seq(AnyCall) /\ Tidy(Tail(q))
      /\ WellOrdered(q, parts) /\ HarmlessCall(Call(s)) /\ Prepares(Call(s))
      /\ DeletesBucket(q) => Len(q) > 3
  BY <1>1, CalmCall DEF Deletes, EmptiesBucket
<1>4. /\ x \in Harmless \ Aws!Owners
      /\ Call(s).found = <<>> /\ Call(s).missing = <<Make(x)>>
  BY <1>1, <1>3 DEF Prepares, HarmlessCall
<1>5. /\ refused[s] \subseteq {"saPolicy", "bucket"} /\ "bucket" \notin refused[s]
      /\ "saPolicy" \in refused[s] => "saPolicy" \in parts /\ saVersions > 1
      /\ "bucket" \in scope /\ DeletesBucket(q) => pages = PagesBefore(Len(q), listing[s])
      /\ parts \subseteq scope
  BY <1>1, CalmCall DEF OrderInv, Orderly, AccountInv
<1> HIDE DEF q, x
<1>6. CASE x \in parts
  <2>1. calls = Tail(q)
    BY <1>3, <1>4, <1>6
  <2> HIDE DEF calls
  <2>2. GoesOn(s, Tail(todo[s]))
    BY <1>2, <2>1 DEF q
  <2>3. ~EmptiesBucket(Call(s)) /\ Call(s).do # "try"
    BY <1>1 DEF EmptiesBucket
  <2> QED BY <1>1, <1>5, <2>2, <2>3, CalmTail
<1>7. CASE x \notin parts
  <2> DEFINE c == Make(x)
  <2>1. calls = <<c>> \o Tail(q)
    BY <1>3, <1>4, <1>7
  <2>2. c.do = "make" /\ c.part = x /\ c \in AnyCall
    <3>1. x \in Part
      BY <1>1, <1>3 DEF x, AnyCall, Calls1, SimpleCalls, LooksFor
    <3> QED BY <3>1, SimpleOnes, MoreCalls DEF Make
  <2> HIDE DEF calls, c
  <2>3. calls \in Seq(AnyCall) /\ Tidy(calls)
    <3> DEFINE u == <<c>>
    <3>1. u \in Seq(AnyCall)
      BY <2>2
    <3>2. Tidy(u)
      BY <1>4, <2>2, TidyMake
    <3>3. calls = u \o Tail(q)
      BY <2>1
    <3> HIDE DEF u
    <3>4. calls \in Seq(AnyCall)
      BY <1>3, <3>1, <3>3
    <3> QED BY <1>3, <3>1, <3>2, <3>3, <3>4, TidyConcat, Zenon
  <2>4. /\ WellOrdered(calls, parts) /\ Len(calls) = Len(q)
        /\ DeletesBucket(calls) => DeletesBucket(q)
    <3>1. q[1].do = "look"
      BY <1>1, <1>3
    <3> QED BY <1>3, <1>4, <2>1, <2>2, <3>1, OrderedLook
  <2>5. "bucket" \in scope /\ DeletesBucket(calls) =>
          pages' = PagesBefore(Len(calls), listing[s])
    BY <1>1, <1>5, <2>4
  <2> QED BY <1>1, <1>2, <1>5, <2>3, <2>4, <2>5, StillOrderly
<1> QED BY <1>6, <1>7

LEMMA CalmMake ==
  ASSUME AccountInv, OrderInv, NEW s \in Sessions, Calm(s), MakePart(s)
  PROVE  Orderly(s)'
<1> DEFINE x == Call(s).part
           q == todo[s]
<1>1. /\ todo[s] # <<>> /\ Call(s).do = "make" /\ UNCHANGED <<scope, refused, listing>>
      /\ parts' = parts \cup {x} \cup MadeWith(s, x)
      /\ pages' = IF x \in {"dummyZip", "config"} THEN WithVersion(pages) ELSE pages
      /\ saVersions' = IF x = "saPolicy" /\ x \notin parts THEN 1 ELSE saVersions
      /\ GoesOn(s, Skip(q, IF x = "bucket" /\ x \in parts THEN 2 ELSE 0))
  BY DEF MakePart, Calls
<1>2. MadeWith(s, x) = {}
  BY DEF MadeWith, Calm
<1>3. /\ q \in Seq(AnyCall) /\ Len(q) \in Nat \ {0} /\ q # <<>>
      /\ Call(s) \in AnyCall /\ InScope(Call(s))
      /\ HarmlessCall(Call(s)) /\ Prepares(Call(s))
  BY <1>1, CalmCall, FirstCall DEF Deletes, AccountInv
<1>4. x \in Harmless
  BY <1>3 DEF HarmlessCall
<1>5. /\ refused[s] \subseteq {"saPolicy", "bucket"} /\ "bucket" \notin refused[s]
      /\ "saPolicy" \in refused[s] => "saPolicy" \in parts /\ saVersions > 1
      /\ parts \subseteq scope
  BY <1>1, CalmCall DEF OrderInv, Orderly, AccountInv
<1>6. /\ parts' = parts \cup {x} /\ x \in scope /\ pages' = pages
      /\ saVersions' = saVersions /\ GoesOn(s, Skip(q, 0))
  <2>1. x \notin {"dummyZip", "config", "saPolicy", "bucket"}
    BY <1>4 DEF Harmless
  <2>2. x \in scope
    BY <1>1, <1>3 DEF InScope
  <2> QED BY <1>1, <1>2, <2>1, <2>2
<1>7. Skip(q, 0) = Tail(q)
  BY <1>3 DEF Skip
<1>8. ~Obstructs(x)
  BY <1>4, HinderNothing DEF Obstructs
<1>9. GoesOn(s, Tail(todo[s])) /\ ~EmptiesBucket(Call(s)) /\ Call(s).do # "try"
  BY <1>1, <1>6, <1>7 DEF EmptiesBucket
<1> HIDE DEF x, q
<1> QED BY <1>1, <1>5, <1>6, <1>8, <1>9, CalmTail

\* Nothing that exists hinders the deletion that comes next.
LEMMA NothingHinders ==
  ASSUME AccountInv, OrderInv, NEW s \in Sessions, Calm(s), Calls(s, "try"),
         NEW p \in Call(s).parts, NEW x \in parts
  PROVE  ~Hinders(x, p)
<1>1. /\ todo[s] # <<>> /\ Call(s).do = "try"
  BY DEF Calls
<1>2. /\ WellOrdered(todo[s], parts) /\ Call(s) = todo[s][1] /\ Len(todo[s]) \in Nat \ {0}
  BY <1>1, CalmCall
<1>3. 1 \in 1..Len(todo[s]) /\ \A j \in 1..(1 - 1) : FALSE
  BY <1>2
<1> QED BY <1>1, <1>2, <1>3 DEF WellOrdered, InOrder

\* What AWS refuses a delete is the policy for its versions, or the bucket for
\* its pages, and that after both were emptied.
LEMMA RefusedInOrder ==
  ASSUME AccountInv, OrderInv, NEW s \in Sessions, Calm(s), Calls(s, "try")
  PROVE  /\ RefusedParts(Call(s).parts) \subseteq {"saPolicy", "bucket"} \cap Call(s).parts \cap parts
         /\ "saPolicy" \in RefusedParts(Call(s).parts) => saVersions > 1
         /\ "bucket" \in RefusedParts(Call(s).parts) => pages # <<>>
<1> SUFFICES ASSUME NEW p \in RefusedParts(Call(s).parts)
             PROVE  /\ p \in Call(s).parts \cap parts
                    /\ (p = "saPolicy" /\ saVersions > 1) \/ (p = "bucket" /\ pages # <<>>)
  OBVIOUS
<1>1. /\ p \in Call(s).parts \cap parts
      /\ \/ \E x \in parts \ Contents(p) : p \in Needs(x)
         \/ p = "saPolicy" /\ saVersions > 1
         \/ p = "bucket" /\ pages # <<>>
  BY DEF RefusedParts
<1>2. ~\E x \in parts \ Contents(p) : p \in Needs(x)
  BY <1>1, NothingHinders DEF Hinders
<1> QED BY <1>1, <1>2

LEMMA CalmRemove ==
  ASSUME AccountInv, OrderInv, NEW s \in Sessions, Calm(s), RemovePart(s)
  PROVE  Orderly(s)'
<1> DEFINE S == Call(s).parts
           gone == S \cup UNION {Contents(p) : p \in S}
<1>1. /\ todo[s] # <<>> /\ Call(s).do \in {"remove", "try"} /\ RefusedParts(S) = {}
      /\ UNCHANGED <<scope, pages, refused, listing>>
      /\ parts' = parts \ gone /\ GoesOn(s, Tail(todo[s]))
      /\ saVersions' = IF "saPolicy" \in gone THEN 0 ELSE saVersions
  BY DEF RemovePart, Calls, Delete1
<1>2. /\ todo[s] \in Seq(AnyCall) /\ Len(todo[s]) \in Nat \ {0}
      /\ Prepares(Call(s)) \/ Deletes(Call(s))
      /\ EmptiesBucket(Call(s)) =>
           Len(todo[s]) \in 1..3 /\ Call(s) = LastCalls[Len(todo[s])]
      /\ Call(s).do = "try"
  BY <1>1, CalmCall DEF Prepares, Deletes
<1>3. /\ refused[s] \subseteq {"saPolicy", "bucket"} /\ "bucket" \notin refused[s]
      /\ "saPolicy" \in refused[s] => "saPolicy" \in parts /\ saVersions > 1
      /\ parts \subseteq scope
  BY <1>1, CalmCall DEF OrderInv, Orderly, AccountInv
<1>4. gone = GoesWith(S)
  BY DEF GoesWith
<1>5. ASSUME "saPolicy" \in refused[s] PROVE "saPolicy" \notin gone
  <2>1. \A p : "saPolicy" \notin Contents(p)
    BY PolicyInNothing
  <2>2. "saPolicy" \notin S
    BY <1>1, <1>3, <1>5 DEF RefusedParts
  <2> QED BY <2>1, <2>2
<1> HIDE DEF gone, S
<1>6. EmptiesBucket(Call(s)) => Len(todo[s]) = 1
  <2> SUFFICES ASSUME EmptiesBucket(Call(s)), Len(todo[s]) # 1 PROVE FALSE
    OBVIOUS
  <2>1. Len(todo[s]) = 2 \/ Len(todo[s]) = 3
    BY <1>2
  <2>2. Call(s) = LastCalls[2] \/ Call(s) = LastCalls[3]
    BY <1>2, <2>1, Zenon
  <2> QED BY <1>2, <2>2 DEF LastCalls, Truncate
<1>7. \A x \in parts' : Obstructs(x) =>
         x \in parts /\ (Call(s).do = "try" => x \notin GoesWith(Call(s).parts))
  BY <1>1, <1>4 DEF S
<1>8. "saPolicy" \in refused'[s] => "saPolicy" \in parts' /\ saVersions' > 1
  BY <1>1, <1>3, <1>5
<1>9. ~(EmptiesBucket(Call(s)) /\ Len(todo[s]) > 1)
  <2>1. CASE ~EmptiesBucket(Call(s))
    BY <2>1
  <2>2. CASE Len(todo[s]) = 1
    BY <2>2
  <2> QED BY <1>6, <2>1, <2>2
<1>10. /\ refused'[s] \subseteq {"saPolicy", "bucket"} /\ "bucket" \notin refused'[s]
       /\ parts' \subseteq scope
  BY <1>1, <1>3
<1> QED BY <1>1, <1>7, <1>8, <1>9, <1>10, CalmTail

LEMMA CalmRefused ==
  ASSUME AccountInv, OrderInv, NEW s \in Sessions, Calm(s), RemovalRefused(s)
  PROVE  Orderly(s)'
<1> DEFINE q == todo[s]
           S == Call(s).parts
           R == RefusedParts(Call(s).parts)
<1>1. /\ todo[s] # <<>> /\ Calls(s, "try") /\ Call(s).do = "try" /\ R # {}
      /\ UNCHANGED <<scope, parts, pages, saVersions, listing>>
      /\ refused' = [refused EXCEPT ![s] = @ \cup R]
      /\ GoesOn(s, Skip(q, Call(s).skips))
  BY DEF RemovalRefused, Calls
<1>2. /\ q \in Seq(AnyCall) /\ Len(q) \in Nat \ {0} /\ q # <<>>
      /\ Call(s) \in AnyCall /\ HarmlessCall(Call(s))
      /\ EmptiesBucket(Call(s)) => Len(q) \in 1..3 /\ Call(s) = LastCalls[Len(q)]
                                   /\ DeletesBucket(q)
      /\ Tail(q) \in Seq(AnyCall) /\ Len(Tail(q)) = Len(q) - 1
  BY <1>1, CalmCall, TailIs
<1>3. /\ refused[s] \subseteq {"saPolicy", "bucket"} /\ "bucket" \notin refused[s]
      /\ "saPolicy" \in refused[s] => "saPolicy" \in parts /\ saVersions > 1
      /\ "bucket" \in scope /\ DeletesBucket(q) => pages = PagesBefore(Len(q), listing[s])
      /\ parts \subseteq scope
      /\ refused'[s] = refused[s] \cup R
      /\ listing[s] \in Seq(Pages)
  BY <1>1, CalmCall DEF OrderInv, Orderly, AccountInv
<1>4. /\ R \subseteq {"saPolicy", "bucket"} \cap S \cap parts
      /\ "saPolicy" \in R => saVersions > 1
      /\ "bucket" \in R => pages # <<>>
  BY <1>1, RefusedInOrder
<1>5. S \in Together
  BY <1>1, <1>2 DEF AnyCall, Calls1, SimpleCalls, LooksFor
<1> HIDE DEF q, S, R
<1>6. /\ S = {"saPolicy"} \/ S = {"bucket"}
      /\ "bucket" \in R => S = {"bucket"}
  BY <1>1, <1>4, <1>5, Zenon DEF Together
<1>7. S = {"bucket"} => Call(s) = LastCalls[1] /\ Len(q) = 1 /\ DeletesBucket(q)
  <2> SUFFICES ASSUME S = {"bucket"}
               PROVE  Call(s) = LastCalls[1] /\ Len(q) = 1 /\ DeletesBucket(q)
    OBVIOUS
  <2>1. Len(q) \in 1..3 /\ Call(s) = LastCalls[Len(q)] /\ DeletesBucket(q)
    BY <1>1, <1>2 DEF S, EmptiesBucket
  <2>2. Len(q) = 1 \/ Len(q) = 2 \/ Len(q) = 3
    BY <2>1
  <2>3. LastCalls[2].do # "try" /\ LastCalls[3].do # "try"
    BY DEF LastCalls, Truncate
  <2> QED BY <1>1, <2>1, <2>2, <2>3, Zenon
<1>8. Call(s).skips = 0
  <2>1. CASE S = {"saPolicy"}
    BY <1>1, <1>2, <2>1 DEF HarmlessCall, S
  <2>2. CASE S = {"bucket"}
    BY <1>7, <2>2 DEF LastCalls, Try
  <2> QED BY <1>6, <2>1, <2>2
<1>9. GoesOn(s, Tail(todo[s]))
  <2>1. Skip(q, 0) = Tail(q)
    BY <1>2 DEF Skip
  <2> QED BY <1>1, <1>8, <2>1 DEF q
<1>10. \A x \in parts' : Obstructs(x) =>
          x \in parts /\ (Call(s).do = "try" => x \notin GoesWith(Call(s).parts))
  <2> SUFFICES ASSUME NEW x \in parts, x \in GoesWith(S) PROVE ~Obstructs(x)
    BY <1>1 DEF S
  <2> QED BY <1>6, HinderNothing DEF Obstructs
<1>11. "bucket" \in R =>
         /\ Tail(q) = <<>>
         /\ Len(listing[s]) > 1 /\ Entries(pages) < Entries(listing[s])
  <2> SUFFICES ASSUME "bucket" \in R
               PROVE  /\ Tail(q) = <<>>
                      /\ Len(listing[s]) > 1 /\ Entries(pages) < Entries(listing[s])
    OBVIOUS
  <2>1. Len(q) = 1 /\ DeletesBucket(q) /\ "bucket" \in scope /\ pages # <<>>
    BY <1>3, <1>4, <1>6, <1>7
  <2>2. Tail(q) = <<>>
    <3> DEFINE t == Tail(q)
    <3>1. t \in Seq(AnyCall) /\ Len(t) = 0
      BY <1>2, <2>1
    <3> HIDE DEF t
    <3>2. t = <<>>
      BY <3>1
    <3> QED BY <3>2 DEF t
  <2>3. pages = Whole(listing[s])
    BY <1>3, <2>1, PagesAre
  <2>4. Len(listing[s]) > 1 /\ Entries(Whole(listing[s])) < Entries(listing[s])
    BY <1>3, <2>1, <2>3, SomethingIsLeft
  <2> QED BY <2>2, <2>3, <2>4
<1>12. ~(EmptiesBucket(Call(s)) /\ Len(todo[s]) > 1)
  <2>1. CASE S = {"saPolicy"}
    BY <1>1, <2>1 DEF EmptiesBucket, S
  <2>2. CASE S = {"bucket"}
    <3>1. Len(todo[s]) = 1
      BY <1>7, <2>2 DEF q
    <3>2. ~(Len(todo[s]) > 1)
      BY <3>1
    <3> QED BY <3>2
  <2> QED BY <1>6, <2>1, <2>2
<1>13. /\ refused'[s] \subseteq {"saPolicy", "bucket"}
       /\ "saPolicy" \in refused'[s] => "saPolicy" \in parts' /\ saVersions' > 1
       /\ parts' \subseteq scope
  BY <1>1, <1>3, <1>4, Zenon
<1>14. "bucket" \in refused'[s] =>
          /\ Tail(todo[s]) = <<>>
          /\ Len(listing[s]) > 1 /\ Entries(pages') < Entries(listing[s])
  BY <1>1, <1>3, <1>11 DEF q
<1> QED BY <1>1, <1>9, <1>10, <1>12, <1>13, <1>14, CalmTail

\* Emptying the bucket, or leaving out the rest of its deletion if it is gone.
LEMMA CalmTruncate ==
  ASSUME AccountInv, OrderInv, NEW s \in Sessions, Calm(s), TruncateBucket(s)
  PROVE  Orderly(s)'
<1> DEFINE q == todo[s]
<1>1. /\ todo[s] # <<>> /\ Call(s).do = "truncate"
      /\ UNCHANGED <<scope, refused, listing>>
  BY DEF TruncateBucket, Calls
<1>2. /\ q \in Seq(AnyCall) /\ Len(q) \in Nat \ {0} /\ q # <<>>
      /\ Len(q) \in 1..3 /\ Call(s) = LastCalls[Len(q)] /\ DeletesBucket(q)
  BY <1>1, CalmCall DEF EmptiesBucket
<1>3. /\ refused[s] \subseteq {"saPolicy", "bucket"} /\ "bucket" \notin refused[s]
      /\ "saPolicy" \in refused[s] => "saPolicy" \in parts /\ saVersions > 1
      /\ "bucket" \in scope /\ DeletesBucket(q) => pages = PagesBefore(Len(q), listing[s])
      /\ parts \subseteq scope
  BY <1>1, CalmCall DEF OrderInv, Orderly, AccountInv
<1>4. LastCalls[1] = Try({"bucket"}, 0) /\ LastCalls[2] = Truncate("marker", 1)
      /\ LastCalls[3] = Truncate("version", 2)
  BY DEF LastCalls
<1>5. \/ Len(q) = 2 /\ Call(s).kind = "marker" /\ Call(s).skips = 1
      \/ Len(q) = 3 /\ Call(s).kind = "version" /\ Call(s).skips = 2
  <2>1. Len(q) = 1 \/ Len(q) = 2 \/ Len(q) = 3
    BY <1>2
  <2>2. LastCalls[1].do # "truncate"
    BY <1>4 DEF Try
  <2>3. Len(q) # 1
    BY <1>1, <1>2, <2>2, Zenon
  <2>4. LastCalls[2].kind = "marker" /\ LastCalls[2].skips = 1
        /\ LastCalls[3].kind = "version" /\ LastCalls[3].skips = 2
    BY <1>4 DEF Truncate
  <2> QED BY <1>2, <2>1, <2>3, <2>4, Zenon
<1>6. \/ /\ "bucket" \in parts /\ GoesOn(s, Tail(todo[s]))
         /\ pages' = Emptied(pages, Call(s).kind)
         /\ \E gone \in SUBSET ({"dummyZip", "config"} \cap parts) : Delete1(gone)
      \/ GoesOn(s, Skip(q, Call(s).skips)) /\ UNCHANGED <<parts, saVersions, pages>>
  BY DEF TruncateBucket, Truncated, Emptied
<1> HIDE DEF q
<1>7. ASSUME "bucket" \in parts, GoesOn(s, Tail(todo[s])),
             pages' = Emptied(pages, Call(s).kind),
             NEW gone \in SUBSET ({"dummyZip", "config"} \cap parts), Delete1(gone)
      PROVE  Orderly(s)'
  <2>1. /\ parts' = parts \ gone /\ saVersions' = saVersions
    BY <1>7 DEF Delete1
  <2>2. /\ refused'[s] \subseteq {"saPolicy", "bucket"} /\ "bucket" \notin refused'[s]
        /\ "saPolicy" \in refused'[s] => "saPolicy" \in parts' /\ saVersions' > 1
        /\ parts' \subseteq scope
    BY <1>1, <1>3, <1>7, <2>1
  <2>3. pages = PagesBefore(Len(q), listing[s])
    BY <1>2, <1>3, <1>7
  <2>4. pages' = PagesBefore(Len(q) - 1, listing[s])
    <3>1. CASE Len(q) = 2 /\ Call(s).kind = "marker"
      <4>1. pages = Half(listing[s]) /\ pages' = Whole(listing[s])
        BY <1>7, <2>3, <3>1, PagesAre DEF Whole
      <4>2. Len(q) - 1 = 1
        BY <3>1
      <4> QED BY <4>1, <4>2, PagesAre, Zenon
    <3>2. CASE Len(q) = 3 /\ Call(s).kind = "version"
      <4>1. pages = listing[s]
        <5>1. 3 \in Nat /\ 3 > 2
          OBVIOUS
        <5> QED BY <2>3, <3>2, <5>1, PagesAre
      <4>2. pages' = Half(listing[s])
        BY <1>7, <3>2, <4>1 DEF Half
      <4>3. Len(q) - 1 = 2
        BY <3>2
      <4> QED BY <4>2, <4>3, PagesAre, Zenon
    <3> QED BY <1>5, <3>1, <3>2
  <2>5. Call(s).do # "try" /\ EmptiesBucket(Call(s)) /\ parts' \subseteq parts
    BY <1>1, <2>1 DEF EmptiesBucket
  <2>6. "bucket" \in scope /\ EmptiesBucket(Call(s)) /\ Len(todo[s]) > 1 =>
          pages' = PagesBefore(Len(todo[s]) - 1, listing[s])
    BY <2>4 DEF q
  <2>7. UNCHANGED <<scope, listing>> /\ todo[s] # <<>>
    BY <1>1
  <2>8. \A x \in parts' : Obstructs(x) =>
          x \in parts /\ (Call(s).do = "try" => x \notin GoesWith(Call(s).parts))
    BY <2>5
  <2> QED BY <1>7, <2>2, <2>5, <2>6, <2>7, <2>8, CalmTail
<1>8. CASE GoesOn(s, Skip(q, Call(s).skips)) /\ UNCHANGED <<parts, saVersions, pages>>
  <2>1. Skip(q, Call(s).skips) = <<>>
    <3>1. Skip(q, 1) = SubSeq(q, 3, Len(q)) /\ Skip(q, 2) = SubSeq(q, 4, Len(q))
      BY DEF Skip
    <3> QED BY <1>2, <1>5, <3>1
  <2> DEFINE calls == Skip(q, Call(s).skips)
  <2>2. calls = <<>> /\ GoesOn(s, calls)
    BY <1>8, <2>1
  <2> HIDE DEF calls
  <2>3. /\ calls \in Seq(AnyCall) /\ Tidy(calls) /\ WellOrdered(calls, parts')
        /\ ~DeletesBucket(calls)
    BY <2>2, EmptyIsTidy, NothingInOrder
  <2>4. /\ refused'[s] \subseteq {"saPolicy", "bucket"} /\ "bucket" \notin refused'[s]
        /\ "saPolicy" \in refused'[s] => "saPolicy" \in parts' /\ saVersions' > 1
        /\ parts' \subseteq scope
    BY <1>1, <1>3, <1>8
  <2> QED BY <1>1, <2>2, <2>3, <2>4, StillOrderly, Zenon
<1> QED BY <1>6, <1>7, <1>8

\* The listing stays one of pages.
LEMMA PagesKept ==
  ASSUME AccountInv, pages \in Seq(Pages), NEW s \in Sessions,
         MakePart(s) \/ TruncateBucket(s) \/ TruncateFails(s)
  PROVE  pages' \in Seq(Pages)
<1>1. CASE MakePart(s)
  <2>1. pages' = WithVersion(pages) \/ pages' = pages
    BY <1>1 DEF MakePart
  <2>2. {"version"} \in Pages
    BY DEF Pages
  <2>3. Append(pages, {"version"}) \in Seq(Pages)
    BY <2>2
  <2> QED BY <2>1, <2>3, Zenon DEF WithVersion
<1>2. CASE TruncateBucket(s) \/ TruncateFails(s)
  <2> DEFINE k == Call(s).kind
  <2>1. todo[s] # <<>> /\ Call(s).do = "truncate"
    BY <1>2 DEF TruncateBucket, TruncateFails, Calls
  <2>2. k \in {"version", "marker"}
    <3>1. Call(s) \in AnyCall
      BY <2>1, FirstCall DEF AccountInv
    <3> QED BY <2>1, <3>1 DEF AnyCall, Calls1, SimpleCalls, LooksFor
  <2>3. \/ \E n \in 0..Reach(pages, k) : pages' = Without(pages, k, n)
        \/ pages' = pages
    <3>1. Reach(pages, k) \in 0..Len(pages)
      BY ReachIs
    <3>2. Reach(pages, k) \in 0..Reach(pages, k)
      BY <3>1
    <3>3. CASE TruncateBucket(s)
      BY <3>2, <3>3 DEF TruncateBucket, Truncated
    <3>4. CASE TruncateFails(s)
      BY <3>4 DEF TruncateFails, Truncated
    <3> QED BY <1>2, <3>3, <3>4
  <2> HIDE DEF k
  <2>4. \A n \in 0..Reach(pages, k) : n \in 0..Len(pages)
    BY ReachIs
  <2> QED BY <2>2, <2>3, <2>4, TruncatedIs
<1> QED BY <1>1, <1>2

\* A session goes on.
LEMMA CallsKeepOrder ==
  ASSUME AccountInv, DeleteInv, OrderInv, NEW s \in Sessions,
         \/ LookUp(s) \/ MakePart(s) \/ UpdateSAPolicy(s)
         \/ RemovePart(s) \/ RemovalRefused(s) \/ RemovalFails(s)
         \/ TruncateBucket(s) \/ TruncateFails(s)
  PROVE  OrderInv'
<1>1. /\ todo[s] # <<>> /\ UNCHANGED <<scope, command, overlapped, listing>>
      /\ failed' = failed \/ failed' = [failed EXCEPT ![s] = TRUE]
  BY DEF LookUp, MakePart, UpdateSAPolicy, RemovePart, RemovalRefused, RemovalFails,
         TruncateBucket, TruncateFails, Calls
<1>2. s \in Running
  BY <1>1 DEF AccountInv, CallsOK, Running
<1>3. failed' \in [Sessions -> BOOLEAN]
  BY <1>1, Zenon DEF OrderInv
<1>4. pages' \in Seq(Pages)
  <2>1. LookUp(s) \/ UpdateSAPolicy(s) \/ RemovePart(s) \/ RemovalRefused(s)
        \/ RemovalFails(s) => UNCHANGED pages
    BY DEF LookUp, UpdateSAPolicy, RemovePart, RemovalRefused, RemovalFails
  <2>2. pages \in Seq(Pages)
    BY DEF OrderInv
  <2> QED BY <2>1, <2>2, PagesKept
<1>5. \/ refused' = refused
      \/ refused' = [refused EXCEPT ![s] = @ \cup RefusedParts(Call(s).parts)]
  BY DEF LookUp, MakePart, UpdateSAPolicy, RemovePart, RemovalRefused, RemovalFails,
         TruncateBucket, TruncateFails
<1>6. refused' \in [Sessions -> SUBSET scope]
  <2>1. RefusedParts(Call(s).parts) \subseteq scope
    BY DEF RefusedParts, AccountInv
  <2>2. refused \in [Sessions -> SUBSET scope]
    BY DEF OrderInv
  <2> QED BY <1>5, <2>1, <2>2
<1>7. ASSUME NEW t \in Sessions, command'[t] = "none" PROVE refused'[t] = {}
  <2>1. t # s /\ refused[t] = {}
    BY <1>1, <1>2, <1>7 DEF Running, OrderInv
  <2>2. refused'[t] = refused[t]
    <3>1. refused \in [Sessions -> SUBSET scope]
      BY DEF OrderInv
    <3> QED BY <1>5, <2>1, <3>1
  <2> QED BY <2>1, <2>2
<1>8. ASSUME NEW t \in Sessions, Calm(t)' PROVE t = s /\ Calm(s) /\ ~failed'[s]
  <2>1. t \in Running /\ overlapped[t] = {} /\ command[t] = "delete" /\ ~failed'[t]
    BY <1>1, <1>8 DEF Calm, Running
  <2>2. t = s
    BY <1>2, <2>1 DEF DeleteInv
  <2> QED BY <1>1, <2>1, <2>2 DEF Calm, OrderInv
<1>9. ASSUME Calm(s), ~failed'[s] PROVE Orderly(s)'
  <2>1. ~RemovalFails(s) /\ ~TruncateFails(s)
    BY <1>9 DEF RemovalFails, TruncateFails, OrderInv
  <2>2. ~UpdateSAPolicy(s)
    <3>1. Prepares(Call(s)) \/ Deletes(Call(s))
      BY <1>1, <1>9, CalmCall
    <3> QED BY <3>1 DEF UpdateSAPolicy, Calls, Prepares, Deletes
  <2> QED BY <1>9, <2>1, <2>2, CalmLook, CalmMake, CalmRemove, CalmRefused, CalmTruncate
<1>10. \A t \in Sessions : Calm(t)' => Orderly(t)'
  BY <1>8, <1>9
<1> QED BY <1>1, <1>3, <1>4, <1>6, <1>7, <1>10 DEF OrderInv

LEMMA EndKeepsOrder ==
  ASSUME AccountInv, DeleteInv, OrderInv, NEW s \in Sessions,
         End(s) \/ BreaksOff(s) \/ Collides(s) \/ UpdateCollides(s)
  PROVE  OrderInv'
<1>1. /\ Ends(s) /\ UNCHANGED <<scope, pages>> /\ s \in Running
  <2>1. todo[s] # <<>> => command[s] # "none"
    BY DEF AccountInv, CallsOK
  <2> QED BY <2>1 DEF End, BreaksOff, Collides, UpdateCollides, Calls, Running
<1>2. /\ command' = [command EXCEPT ![s] = "none"]
      /\ refused' = [refused EXCEPT ![s] = {}]
      /\ failed' = [failed EXCEPT ![s] = FALSE]
      /\ overlapped' = [overlapped EXCEPT ![s] = {}]
      /\ listing' = [listing EXCEPT ![s] = <<>>]
      /\ command \in [Sessions -> Commands \cup {"none"}]
  BY <1>1 DEF Ends, Forgotten, AccountInv
<1>3. ASSUME NEW t \in Sessions, Calm(t)' PROVE FALSE
  <2>1. t # s /\ t \in Running /\ overlapped[t] = {}
    BY <1>2, <1>3 DEF Calm, Running, DeleteInv
  <2>2. Running = {t}
    BY <2>1 DEF DeleteInv
  <2> QED BY <1>1, <2>1, <2>2
<1>4. /\ pages' \in Seq(Pages) /\ failed' \in [Sessions -> BOOLEAN]
      /\ refused' \in [Sessions -> SUBSET scope'] /\ scope' = scope
  BY <1>1, <1>2 DEF OrderInv
<1>5. listing' \in [Sessions -> Seq(Pages)]
  <2>1. <<>> \in Seq(Pages) /\ listing \in [Sessions -> Seq(Pages)]
    BY DEF OrderInv
  <2> QED BY <1>2, <2>1
<1>6. \A t \in Sessions : command'[t] = "none" => refused'[t] = {}
  BY <1>2 DEF OrderInv
<1> QED BY <1>3, <1>4, <1>5, <1>6 DEF OrderInv

\* The series of a delete that begins is in order.
LEMMA DeleteIsPlanned ==
  ASSUME NEW s, BeginDelete(s)
  PROVE  \E calls, taken :
           Series(calls) /\ Deleting(calls) /\ Planned(calls)
           /\ Begin(s, "delete", calls, taken)
<1>1. PICK found \in BOOLEAN, steps \in BOOLEAN, bucket \in BOOLEAN, account \in BOOLEAN :
        \/ Begin(s, "delete", Google!Delete(steps, bucket, account),
                 Google!Taken(steps, bucket, account))
        \/ Begin(s, "delete", Aws!Delete(found, steps, bucket, account),
                 Aws!Taken(steps, bucket, account))
  BY DeleteIs
<1>2. /\ Series(Google!Delete(steps, bucket, account))
      /\ Deleting(Google!Delete(steps, bucket, account))
      /\ Planned(Google!Delete(steps, bucket, account))
  BY GoogleDeletes, GoogleDoomed, GooglePlanned
<1>3. /\ Series(Aws!Delete(found, steps, bucket, account))
      /\ Deleting(Aws!Delete(found, steps, bucket, account))
      /\ Planned(Aws!Delete(found, steps, bucket, account))
  BY AwsDeletes, AwsDoomed, AwsPlanned
<1> QED BY <1>1, <1>2, <1>3

\* What is in order whatever exists is in order for what does.
LEMMA OrderForLess ==
  ASSUME NEW q, NEW X, NEW Y \in SUBSET X, InOrder(q, X)
  PROVE  InOrder(q, Y)
BY DEF InOrder

LEMMA DeleteBeginsInOrder ==
  ASSUME AccountInv, OrderInv, NEW s \in Sessions, BeginDelete(s)
  PROVE  Orderly(s)'
<1>1. PICK calls, taken :
        /\ Series(calls) /\ Deleting(calls) /\ Planned(calls)
        /\ Begin(s, "delete", calls, taken)
  BY DeleteIsPlanned
<1>2. /\ GoesOn(s, calls) /\ command[s] = "none"
      /\ listing' = [listing EXCEPT ![s] = pages]
      /\ UNCHANGED <<scope, parts, pages, saVersions, refused>>
  BY <1>1 DEF Begin
<1>3. calls \in Seq(AnyCall) /\ Tidy(calls) /\ Len(calls) \in Nat
  BY <1>1 DEF Series
<1>4. /\ scope \subseteq Part /\ parts \subseteq scope
      /\ listing'[s] = pages /\ refused'[s] = {}
  BY <1>2, InScopes DEF AccountInv, OrderInv
<1>5. WellOrdered(calls, parts)
  <2>1. InOrder(calls, parts)
    BY <1>1, <1>4, OrderForLess DEF Planned, Fit
  <2> QED BY <1>1, <2>1 DEF Planned, Fit, WellOrdered
<1> DEFINE r == todo'[s]
<1>6. /\ WellOrdered(r, parts)
      /\ "bucket" \in scope /\ DeletesBucket(r) =>
           /\ DeletesBucket(calls)
           /\ Len(r) = Len(calls) \/ (Len(r) > 2 /\ Len(calls) > 2)
  BY <1>2, <1>3, <1>4, <1>5, OrderGoesOn
<1>7. r \in Seq(AnyCall)
  BY <1>2, <1>3, GoesOnIs DEF AccountInv, Ready
<1> HIDE DEF r
<1>8. ASSUME "bucket" \in scope, DeletesBucket(r) PROVE pages = PagesBefore(Len(r), pages)
  <2>1. Len(r) \in Nat /\ Len(calls) \in Nat
    BY <1>3, <1>7
  <2>2. Len(r) = Len(calls) \/ Len(r) > 2
    BY <1>6, <1>8
  <2>3. Len(calls) > 2
    BY <1>1, <1>6, <1>8 DEF Planned
  <2>4. Len(r) > 2
    BY <2>2, <2>3
  <2> QED BY <2>1, <2>4, PagesAre
<1> QED BY <1>2, <1>4, <1>6, <1>8 DEF Orderly, r

LEMMA BeginKeepsOrder ==
  ASSUME AccountInv, DeleteInv, OrderInv, NEW s \in Sessions,
         BeginSetup(s) \/ BeginServiceAccount(s) \/ BeginDelete(s)
  PROVE  OrderInv'
<1>1. PICK c, calls, taken : Begin(s, c, calls, taken) /\ c \in Commands
  <2>1. BeginSetup(s) => \E c, calls, taken : Begin(s, c, calls, taken)
    BY DEF BeginSetup
  <2>2. BeginServiceAccount(s) => \E c, calls, taken : Begin(s, c, calls, taken)
    BY DEF BeginServiceAccount
  <2>3. BeginDelete(s) => \E c, calls, taken : Begin(s, c, calls, taken)
    BY DEF BeginDelete
  <2>4. \A c, calls, taken : Begin(s, c, calls, taken) => c \in Commands
    BY DEF Begin
  <2> QED BY <2>1, <2>2, <2>3, <2>4
<1>2. /\ command[s] = "none" /\ command' = [command EXCEPT ![s] = c]
      /\ listing' = [listing EXCEPT ![s] = IF c = "delete" THEN pages ELSE <<>>]
      /\ overlapped' = [t \in Sessions |->
           CASE t = s -> {Kind(command[u]) : u \in Running}
             [] t \in Running -> overlapped[t] \cup {Kind(c)}
             [] OTHER -> {}]
      /\ UNCHANGED <<scope, pages, refused, failed>>
      /\ command \in [Sessions -> Commands \cup {"none"}]
  BY <1>1 DEF Begin, AccountInv
<1>3. c # "none"
  BY <1>1, CommandsAssumption DEF AllCommands
<1>4. command'[s] = c /\ \A t \in Sessions \ {s} : command'[t] = command[t]
  BY <1>2
<1>5. ASSUME NEW t \in Sessions, Calm(t)' PROVE Orderly(t)'
  <2>1. command'[t] = "delete" /\ overlapped'[t] = {}
    BY <1>5 DEF Calm
  <2>2. t = s
    <3> SUFFICES ASSUME t # s PROVE FALSE
      OBVIOUS
    <3>1. t \in Running
      BY <1>4, <2>1 DEF Running
    <3>2. overlapped'[t] = overlapped[t] \cup {Kind(c)}
      BY <1>2, <3>1
    <3> QED BY <2>1, <3>2
  <2>3. BeginDelete(s)
    <3>1. command'[s] = "delete"
      BY <2>1, <2>2
    <3>2. ~BeginSetup(s) /\ ~BeginServiceAccount(s)
      BY <3>1, <1>2 DEF BeginSetup, BeginServiceAccount, Begin
    <3> QED BY <3>2
  <2> QED BY <2>2, <2>3, DeleteBeginsInOrder
<1>6. listing' \in [Sessions -> Seq(Pages)]
  <2>1. <<>> \in Seq(Pages) /\ pages \in Seq(Pages) /\ listing \in [Sessions -> Seq(Pages)]
    BY DEF OrderInv
  <2> QED BY <1>2, <2>1
<1>7. \A t \in Sessions : command'[t] = "none" => refused'[t] = {}
  BY <1>2, <1>3, <1>4 DEF OrderInv
<1>8. /\ pages' \in Seq(Pages) /\ failed' \in [Sessions -> BOOLEAN]
      /\ refused' \in [Sessions -> SUBSET scope']
  BY <1>2 DEF OrderInv
<1> QED BY <1>5, <1>6, <1>7, <1>8 DEF OrderInv

LEMMA OrderInit == Init => OrderInv
<1> SUFFICES ASSUME Init PROVE OrderInv
  OBVIOUS
<1>1. <<>> \in Seq(Pages)
  OBVIOUS
<1> QED BY <1>1 DEF Init, OrderInv, Calm

LEMMA OrderInductive ==
  ASSUME AccountInv, DeleteInv, OrderInv, [Next]_vars
  PROVE  OrderInv'
<1>1. CASE FilesChange
  <2>1. /\ Running = {} /\ pages' \in Layouts
        /\ UNCHANGED <<scope, command, refused, failed, overlapped, listing>>
    BY <1>1 DEF FilesChange
  <2>2. pages' \in Seq(Pages)
    BY <2>1, LayoutsAssumption
  <2>3. \A t \in Sessions : ~Calm(t)'
    BY <2>1 DEF Running, Calm
  <2> QED BY <2>1, <2>2, <2>3 DEF OrderInv
<1>2. ASSUME NEW s \in Sessions, SessionStep(s) PROVE OrderInv'
  BY <1>2, BeginKeepsOrder, CallsKeepOrder, EndKeepsOrder DEF SessionStep
<1>3. CASE UNCHANGED vars
  <2>1. UNCHANGED <<scope, parts, pages, saVersions, command, todo, refused, failed,
                    overlapped, listing>>
    BY <1>3 DEF vars
  <2> QED BY <2>1 DEF OrderInv, Calm, Orderly
<1> QED BY <1>1, <1>2, <1>3 DEF Next

(***************************************************************************)
(* A delete does not stand in its own way: while no call fails and nobody  *)
(* else is there, all that would make AWS refuse a deletion is deleted     *)
(* before it, but for versions of the policy and pages of the bucket that  *)
(* the emptying does not reach; of those it has then emptied some, since   *)
(* the first page it comes to has versions, or has delete markers only     *)
(* (deleteIAMRoles, deleteServiceAccount, truncateBucket).                 *)
(***************************************************************************)
THEOREM DeletesInOrder == Spec => []DeleteInOrder
<1>1. AccountInv /\ DeleteInv /\ OrderInv => DeleteInOrder
  BY DEF OrderInv, DeleteInOrder, Orderly, Calm
<1>2. Init => AccountInv /\ DeleteInv /\ OrderInv
  BY AccountInit, DeleteInit, OrderInit
<1>3. AccountInv /\ DeleteInv /\ OrderInv /\ [Next]_vars
         => AccountInv' /\ DeleteInv' /\ OrderInv'
  BY AccountInductive, DeleteInductive, OrderInductive
<1> QED BY <1>1, <1>2, <1>3, PTL DEF Spec

-----------------------------------------------------------------------------
(***************************************************************************)
(* The destroy command                                                     *)
(***************************************************************************)
(***************************************************************************)
(* The inductive invariant                                                 *)
(***************************************************************************)
RunCalls == {"make", "tools", "close", "intercept", "apply", "save"}
AwsCalls == {"open", "start", "wait"}
DestroyCalls == AwsCalls \cup {"planJob", "applyJob", "forget", "put"}

\* Where the session is, for which command, step and provider.
CallsInv ==
  /\ pc \in RunCalls => cmd = "run" /\ at \in Destroy!Steps
  /\ pc \in DestroyCalls => cmd = "destroy" /\ at \in selected
  /\ pc \in AwsCalls => provider = "AWS"
  /\ pc = "planJob" => provider = "GCLOUD"
  /\ pc = "idle" => cmd = "run" /\ ~unsaved
  /\ pc # "over" => result = "none"
  /\ pc = "idle" \/ cmd = "destroy" => pending = {}

\* What may destroy a step from here on was asked for.
AskedInv ==
  /\ \A s \in Destroy!Steps, e \in Destroy!Executions :
        place[s][e] \in {"approved", "ApplyDestroy"} => s \in asked
  /\ cmd = "destroy" => selected \subseteq asked

ToolsInv ==
  /\ Destroy!AppliedCanBeDestroyed
  /\ pc \in {"close", "intercept", "apply"} => ~Destroy!NoTools(at)

\* The destroy command has done with a step.
Done(s) == s \notin infra \/ Destroy!NoTools(s)
GoneInv ==
  cmd = "destroy" =>
    /\ \A s \in selected : s > at \/ (s = at /\ pc = "next") \/ result = "nil" => Done(s)
    /\ pc \in {"forget", "put"} => at \notin infra
    /\ pc = "wait" /\ place[at]["own"] = "done" => at \notin infra

\* The state as the command holds it, and the state file.
StateInv ==
  cmd = "destroy" =>
    /\ unread => known = {} /\ pc # "put"
    /\ ~unread => (listed \ known) \cap infra = {}
    /\ ~unread => \A s \in selected :
         s > at \/ (s = at /\ pc \in {"next", "put"}) \/ result = "nil" =>
           s \notin known \/ Destroy!NoTools(s)
    /\ ~unread /\ ~unsaved /\ result # "error" =>
         listed \ known \subseteq (IF pc = "put" THEN {at} ELSE {})

DestroyInv == Destroy!TypeOK /\ CallsInv /\ AskedInv /\ ToolsInv /\ GoneInv /\ StateInv

LEMMA DestroyInit == Destroy!Init => DestroyInv
<1> SUFFICES ASSUME Destroy!Init PROVE DestroyInv
  OBVIOUS
<1>1. Destroy!TypeOK
  <2>1. place \in [Destroy!Steps -> [Destroy!Executions ->
                    {"pending", "source", "Destroy", "Approve", "approved",
                     "ApplyDestroy", "over", "done"}]]
    BY DEF Destroy!Init
  <2>2. session \in Destroy!Sessions /\ at \in 0..NumSteps + 1
    BY SizesAssumption DEF Destroy!Init, Destroy!Sessions
  <2>3. closed \in [Destroy!Steps -> SUBSET {"Destroy", "Approve", "ApplyDestroy"}]
        /\ tools \in [Destroy!Steps -> 0..2]
    BY DEF Destroy!Init
  <2> QED BY <2>1, <2>2, <2>3, Zenon DEF Destroy!Init, Destroy!TypeOK
<1>2. CallsInv /\ ToolsInv /\ GoneInv /\ StateInv
  BY DEF Destroy!Init, CallsInv, ToolsInv, Destroy!AppliedCanBeDestroyed, GoneInv, StateInv,
         RunCalls, DestroyCalls, AwsCalls
<1>3. AskedInv
  BY DEF Destroy!Init, AskedInv
<1> QED BY <1>1, <1>2, <1>3 DEF DestroyInv

(***************************************************************************)
(* Types                                                                   *)
(***************************************************************************)
Places == {"pending", "source", "Destroy", "Approve", "approved", "ApplyDestroy", "over", "done"}
PlaceOK == place \in [Destroy!Steps -> [Destroy!Executions -> Places]]

LEMMA Moves ==
  ASSUME Destroy!TypeOK, NEW s \in Destroy!Steps, NEW e \in Destroy!Executions,
  NEW to \in Places, Destroy!Move(s, e, to)
  PROVE  /\ PlaceOK' /\ place'[s][e] = to
         /\ \A t \in Destroy!Steps, f \in Destroy!Executions :
              <<t, f>> # <<s, e>> => place'[t][f] = place[t][f]
BY DEF Destroy!TypeOK, PlaceOK, Places, Destroy!Move

LEMMA FollowingStages ==
  /\ DOMAIN Destroy!Following = {"source", "Destroy", "approved"}
  /\ Destroy!Following["source"] = "Destroy" /\ Destroy!Following["Destroy"] = "Approve"
  /\ Destroy!Following["approved"] = "ApplyDestroy"
BY DEF Destroy!Following

\* Executions move within their places.
LEMMA PlacesKept == ASSUME Destroy!TypeOK, CallsInv, Destroy!Next PROVE PlaceOK'
<1> USE DEF Destroy!TypeOK, PlaceOK
<1>1. CASE UNCHANGED place
  BY <1>1 DEF Destroy!Executions, Places
<1>2. ASSUME NEW s \in Destroy!Steps, NEW e \in Destroy!Executions, NEW to \in Places,
Destroy!Move(s, e, to)
      PROVE  PlaceOK'
  BY <1>2, Moves
<1>3. CASE Destroy!MakeTools
  BY <1>1, <1>2, <1>3 DEF Destroy!MakeTools, CallsInv, RunCalls, Destroy!Executions, Places
<1>4. CASE Destroy!Intercept
  BY <1>1, <1>2, <1>4 DEF Destroy!Intercept, CallsInv, RunCalls, Destroy!Executions, Places
<1>5. CASE Destroy!StartExecution
  <2>1. at \in Destroy!Steps /\ place[at]["own"] \in Places
    BY <1>5 DEF Destroy!StartExecution, CallsInv, DestroyCalls, AwsCalls,
                Destroy!Executions, Places
  <2>2. CASE Destroy!Move(at, "own", "source")
    BY <2>1, <2>2, <1>2 DEF Destroy!Executions, Places
  <2>3. CASE place' = [place EXCEPT ![at] = [own |-> "source", other |-> place[at]["own"]]]
    BY <2>1, <2>3 DEF Destroy!Executions, Places
  <2> QED BY <1>5, <2>2, <2>3 DEF Destroy!StartExecution
<1>6. CASE Destroy!Wait
  BY <1>1, <1>2, <1>6 DEF Destroy!Wait, CallsInv, DestroyCalls, AwsCalls,
                          Destroy!Executions, Places
<1>7. ASSUME NEW s \in Destroy!Steps, Destroy!Cloud(s) PROVE PlaceOK'
  <2>1. CASE Destroy!AutoStart(s) \/ Destroy!PersonStarts(s) \/ Destroy!PersonApplies(s)
    BY <2>1, <1>1, <1>2 DEF Destroy!AutoStart, Destroy!PersonStarts, Destroy!PersonApplies,
                            Destroy!Executions, Places
  <2>2. ASSUME NEW e \in Destroy!Executions,
               Destroy!EnterStage(s, e) \/ Destroy!Destroyed(s, e) \/
               Destroy!ExecutionFails(s, e) \/ Destroy!PersonApproves(s, e)
        PROVE  PlaceOK'
    BY <2>2, <1>2, FollowingStages
       DEF Destroy!EnterStage, Destroy!Destroyed, Destroy!ExecutionFails,
           Destroy!PersonApproves, Places
  <2> QED BY <1>7, <2>1, <2>2 DEF Destroy!Cloud
<1>8. CASE \/ Destroy!Begin \/ Destroy!NextToRun \/ Destroy!Make \/ Destroy!Close
           \/ Destroy!Apply \/ Destroy!Save \/ Destroy!NextToDestroy \/ Destroy!Open
           \/ Destroy!PlanJob \/ Destroy!ApplyJob \/ Destroy!Forget
           \/ Destroy!PutState \/ Destroy!Fails \/ Destroy!NextSession \/ Destroy!Finished
  <2>1. UNCHANGED place
    BY <1>8 DEF Destroy!Begin, Destroy!NextToRun, Destroy!Make, Destroy!Close,
                Destroy!Apply, Destroy!Save, Destroy!NextToDestroy, Destroy!Open,
                Destroy!PlanJob, Destroy!ApplyJob,
                Destroy!Forget, Destroy!PutState, Destroy!Fails, Destroy!NextSession,
                Destroy!Finished, Destroy!cloud, Destroy!vars
  <2> QED BY <2>1, <1>1
<1> QED BY <1>3, <1>4, <1>5, <1>6, <1>7, <1>8 DEF Destroy!Next, Destroy!Session

LEMMA TypesKept == ASSUME Destroy!TypeOK, CallsInv, Destroy!Next PROVE Destroy!TypeOK'
<1> DEFINE Rest == /\ infra' \subseteq Destroy!Steps /\ listed' \subseteq Destroy!Steps
                   /\ pending' \subseteq Destroy!Steps
                   /\ tools' \in [Destroy!Steps -> 0..2]
                   /\ closed' \in [Destroy!Steps -> SUBSET {"Destroy", "Approve", "ApplyDestroy"}]
                   /\ session' \in Destroy!Sessions /\ cmd' \in {"run", "destroy"}
                   /\ at' \in 0..NumSteps + 1
                   /\ pc' \in {"idle", "make", "tools", "close", "intercept", "apply", "save", "next",
                               "open", "start", "wait", "planJob", "applyJob", "forget",
                               "put", "over"}
                   /\ selected' \subseteq Destroy!Steps /\ known' \subseteq Destroy!Steps
                   /\ result' \in {"none", "nil", "error"}
                   /\ asked' \subseteq Destroy!Steps /\ early' \subseteq Destroy!Steps
                   /\ provider' \in Providers
<1>f. unread' \in BOOLEAN /\ unsaved' \in BOOLEAN
  <2>1. CASE Destroy!Begin
    BY <2>1, Zenon DEF Destroy!Begin, Destroy!TypeOK
  <2>2. CASE Destroy!PutState
    BY <2>2, Zenon DEF Destroy!PutState, Destroy!TypeOK
  <2>3. CASE Destroy!NextSession
    BY <2>3, Zenon DEF Destroy!NextSession
  <2>4. CASE UNCHANGED <<unread, unsaved>>
    BY <2>4, Zenon DEF Destroy!TypeOK
  <2>5. \/ Destroy!Begin \/ Destroy!PutState \/ Destroy!NextSession \/ UNCHANGED <<unread, unsaved>>
    BY DEF Destroy!Next, Destroy!Session, Destroy!NextToRun, Destroy!Make,
           Destroy!MakeTools, Destroy!Close, Destroy!Intercept, Destroy!Apply, Destroy!Save,
           Destroy!NextToDestroy, Destroy!Open, Destroy!StartExecution, Destroy!Wait,
           Destroy!PlanJob, Destroy!ApplyJob, Destroy!Forget, Destroy!Fails,
           Destroy!Finished,
           Destroy!Cloud, Destroy!AutoStart, Destroy!PersonStarts, Destroy!PersonApplies,
           Destroy!EnterStage, Destroy!Destroyed,
           Destroy!ExecutionFails, Destroy!PersonApproves, Destroy!vars, Destroy!memory
  <2> QED BY <2>1, <2>2, <2>3, <2>4, <2>5
<1> SUFFICES Rest
  BY <1>f, PlacesKept DEF Destroy!TypeOK, PlaceOK, Places
<1> USE SizesAssumption DEF Destroy!TypeOK, CallsInv, RunCalls, DestroyCalls, AwsCalls,
                            Destroy!Steps, Destroy!Sessions,
        Destroy!Goto, Destroy!Return, Destroy!Break, Destroy!Skip, Destroy!cloud, Destroy!memory
<1>1. CASE Destroy!Begin
  <2>1. /\ cmd' \in {"run", "destroy"} /\ selected' \subseteq Destroy!Steps
        /\ (at' = at \/ at' = NumSteps + 1) /\ (known' = known \/ known' = listed \/ known' = {})
        /\ (asked' = asked \/ asked' = asked \cup selected') /\ pc' = "next"
        /\ UNCHANGED <<provider, infra, pending, tools, closed, early, listed, session, result>>
    BY <1>1, Zenon DEF Destroy!Begin, Destroy!Goto
  <2>2. at' \in 0..NumSteps + 1
    BY <2>1
  <2>3. known' \subseteq Destroy!Steps /\ asked' \subseteq Destroy!Steps
    BY <2>1, Zenon
  <2> QED BY <2>1, <2>2, <2>3
<1>2. CASE Destroy!NextToRun
  BY <1>2 DEF Destroy!NextToRun
<1>3. CASE Destroy!Make
  BY <1>3 DEF Destroy!Make
<1>4. CASE Destroy!MakeTools
  BY <1>4 DEF Destroy!MakeTools
<1>5. CASE Destroy!Close
  BY <1>5 DEF Destroy!Close, Destroy!Closable
<1>6. CASE Destroy!Intercept
  BY <1>6 DEF Destroy!Intercept
<1>7. CASE Destroy!Apply
  BY <1>7 DEF Destroy!Apply
<1>8. CASE Destroy!Save
  BY <1>8 DEF Destroy!Save
<1>9. CASE Destroy!NextToDestroy
  BY <1>9 DEF Destroy!NextToDestroy
<1>10. CASE Destroy!Open
  BY <1>10 DEF Destroy!Open, Destroy!Closable
<1>11. CASE Destroy!StartExecution
  BY <1>11 DEF Destroy!StartExecution
<1>12. CASE Destroy!Wait
  BY <1>12 DEF Destroy!Wait
<1>13. CASE Destroy!PlanJob
  BY <1>13 DEF Destroy!PlanJob
<1>14. CASE Destroy!ApplyJob
  BY <1>14, Zenon DEF Destroy!ApplyJob
<1>15. CASE Destroy!Forget
  BY <1>15 DEF Destroy!Forget, Destroy!RemoveStep
<1>16. CASE Destroy!PutState
  BY <1>16, Zenon DEF Destroy!PutState
<1>17. CASE Destroy!Fails
  BY <1>17 DEF Destroy!Fails
<1>18. CASE Destroy!NextSession
  BY <1>18 DEF Destroy!NextSession
<1>19. CASE Destroy!Finished
  BY <1>19 DEF Destroy!Finished, Destroy!vars
<1>20. ASSUME NEW s \in Destroy!Steps, Destroy!Cloud(s) PROVE Rest
  BY <1>20, Zenon DEF Destroy!Cloud, Destroy!AutoStart, Destroy!PersonStarts,
               Destroy!PersonApplies, Destroy!EnterStage, Destroy!Destroyed,
              Destroy!ExecutionFails, Destroy!PersonApproves
<1> QED BY <1>1, <1>2, <1>3, <1>4, <1>5, <1>6, <1>7, <1>8, <1>9, <1>10, <1>11, <1>12,
       <1>13, <1>14, <1>15, <1>16, <1>17, <1>18, <1>19, <1>20, Zenon
    DEF Destroy!Next, Destroy!Session

(***************************************************************************)
(* Where the session is                                                    *)
(***************************************************************************)
LEMMA CallsKept == ASSUME DestroyInv, Destroy!Next PROVE CallsInv'
<1> USE DEF DestroyInv, Destroy!TypeOK, CallsInv, RunCalls, DestroyCalls, AwsCalls,
            Destroy!Goto, Destroy!Return, Destroy!Break, Destroy!Skip,
            Destroy!cloud, Destroy!memory
<1>1. CASE \/ Destroy!Begin \/ Destroy!NextToRun \/ Destroy!Make \/ Destroy!MakeTools
           \/ Destroy!Close \/ Destroy!Intercept \/ Destroy!Apply \/ Destroy!Save
  BY <1>1 DEF Destroy!Begin, Destroy!NextToRun, Destroy!Make, Destroy!MakeTools,
              Destroy!Close, Destroy!Intercept, Destroy!Apply, Destroy!Save
<1>2. CASE Destroy!NextToDestroy
  BY <1>2 DEF Destroy!NextToDestroy
<1>3. CASE \/ Destroy!Open \/ Destroy!StartExecution \/ Destroy!Wait \/ Destroy!PlanJob
           \/ Destroy!ApplyJob \/ Destroy!Forget \/ Destroy!PutState
  BY <1>3 DEF Destroy!Open, Destroy!StartExecution, Destroy!Wait, Destroy!PlanJob,
              Destroy!ApplyJob, Destroy!Forget, Destroy!RemoveStep, Destroy!PutState
<1>4. CASE Destroy!Fails \/ Destroy!NextSession \/ Destroy!Finished
  BY <1>4 DEF Destroy!Fails, Destroy!NextSession, Destroy!Finished, Destroy!vars
<1>5. ASSUME NEW s \in Destroy!Steps, Destroy!Cloud(s) PROVE CallsInv'
  BY <1>5 DEF Destroy!Cloud, Destroy!AutoStart, Destroy!PersonStarts,
              Destroy!PersonApplies, Destroy!EnterStage, Destroy!Destroyed,
              Destroy!ExecutionFails, Destroy!PersonApproves
<1> QED BY <1>1, <1>2, <1>3, <1>4, <1>5 DEF Destroy!Next, Destroy!Session

(***************************************************************************)
(* What is destroyed was asked for                                         *)
(***************************************************************************)
LEMMA AskedKept == ASSUME DestroyInv, Destroy!Next PROVE AskedInv'
<1> USE DEF DestroyInv, CallsInv, RunCalls, DestroyCalls, AwsCalls, AskedInv, Places,
            Destroy!Executions
<1>1. ASSUME NEW s \in Destroy!Steps, NEW e \in Destroy!Executions, NEW to \in Places,
Destroy!Move(s, e, to),
             s \in asked \/ to \notin {"approved", "ApplyDestroy"} \/ s \in asked',
             asked \subseteq asked', UNCHANGED <<cmd, selected>>
      PROVE  AskedInv'
  BY <1>1, Moves
<1>2. CASE asked \subseteq asked' /\ UNCHANGED <<place, cmd, selected>>
  BY <1>2
<1>3. CASE Destroy!Begin
  BY <1>3 DEF Destroy!Begin
<1>4. CASE Destroy!MakeTools \/ Destroy!Intercept
  BY <1>4, <1>1, <1>2 DEF Destroy!MakeTools, Destroy!Intercept, Destroy!memory
<1>5. CASE Destroy!StartExecution
  BY <1>5, <1>1 DEF Destroy!StartExecution, Destroy!memory, Destroy!TypeOK
<1>6. CASE Destroy!Wait
  BY <1>6, <1>1, <1>2 DEF Destroy!Wait, Destroy!memory, Destroy!TypeOK
<1>7. ASSUME NEW s \in Destroy!Steps, Destroy!Cloud(s) PROVE AskedInv'
  <2>1. CASE Destroy!AutoStart(s) \/ Destroy!PersonStarts(s) \/ Destroy!PersonApplies(s)
    BY <2>1, <1>1, <1>2 DEF Destroy!AutoStart, Destroy!PersonStarts, Destroy!PersonApplies,
                            Destroy!memory
  <2>2. ASSUME NEW e \in Destroy!Executions,
               Destroy!EnterStage(s, e) \/ Destroy!Destroyed(s, e) \/
               Destroy!ExecutionFails(s, e) \/ Destroy!PersonApproves(s, e)
        PROVE  AskedInv'
    BY <2>2, <1>1, FollowingStages
       DEF Destroy!EnterStage, Destroy!Destroyed, Destroy!ExecutionFails,
           Destroy!PersonApproves, Destroy!memory
  <2> QED BY <1>7, <2>1, <2>2 DEF Destroy!Cloud
<1>8. CASE Destroy!NextSession
  BY <1>8 DEF Destroy!NextSession
<1>9. CASE \/ Destroy!NextToRun \/ Destroy!Make \/ Destroy!Close \/ Destroy!Apply
           \/ Destroy!Save \/ Destroy!NextToDestroy \/ Destroy!Open
           \/ Destroy!PlanJob \/ Destroy!ApplyJob \/ Destroy!Forget
           \/ Destroy!PutState \/ Destroy!Fails \/ Destroy!Finished
  <2>1. UNCHANGED <<asked, place, cmd, selected>>
    BY <1>9 DEF Destroy!NextToRun, Destroy!Make, Destroy!Close, Destroy!Apply,
                Destroy!Save, Destroy!NextToDestroy, Destroy!Open, Destroy!PlanJob,
                Destroy!ApplyJob,
                Destroy!Forget, Destroy!PutState, Destroy!Fails, Destroy!Finished,
                Destroy!cloud, Destroy!memory, Destroy!vars
  <2> QED BY <2>1, <1>2
<1> QED BY <1>3, <1>4, <1>5, <1>6, <1>7, <1>8, <1>9 DEF Destroy!Next, Destroy!Session

(***************************************************************************)
(* What is applied can be destroyed                                        *)
(***************************************************************************)
LEMMA ToolsKept == ASSUME DestroyInv, Destroy!Next PROVE ToolsInv'
<1> USE DEF DestroyInv, Destroy!TypeOK, CallsInv, RunCalls, DestroyCalls, AwsCalls, ToolsInv,
            Destroy!AppliedCanBeDestroyed, Destroy!NoTools, Destroy!Goto, Destroy!Return,
            Destroy!Break, Destroy!Skip, Destroy!cloud, Destroy!memory
<1>1. CASE Destroy!Begin \/ Destroy!NextToRun \/ Destroy!Make \/ Destroy!Save
  BY <1>1 DEF Destroy!Begin, Destroy!NextToRun, Destroy!Make, Destroy!Save
<1>2. CASE Destroy!MakeTools
  BY <1>2 DEF Destroy!MakeTools
<1>3. CASE Destroy!Close \/ Destroy!Intercept \/ Destroy!Apply
  BY <1>3 DEF Destroy!Close, Destroy!Intercept, Destroy!Apply
<1>4. CASE Destroy!NextToDestroy \/ Destroy!Open \/ Destroy!StartExecution \/ Destroy!Wait
  BY <1>4 DEF Destroy!NextToDestroy, Destroy!Open, Destroy!StartExecution, Destroy!Wait
<1>5. CASE Destroy!PlanJob \/ Destroy!ApplyJob \/ Destroy!Forget \/ Destroy!PutState
  BY <1>5 DEF Destroy!PlanJob, Destroy!ApplyJob, Destroy!Forget, Destroy!RemoveStep,
              Destroy!PutState
<1>6. CASE Destroy!Fails \/ Destroy!NextSession \/ Destroy!Finished
  BY <1>6 DEF Destroy!Fails, Destroy!NextSession, Destroy!Finished, Destroy!vars
<1>7. ASSUME NEW s \in Destroy!Steps, Destroy!Cloud(s) PROVE ToolsInv'
  BY <1>7 DEF Destroy!Cloud, Destroy!AutoStart, Destroy!PersonStarts,
              Destroy!PersonApplies, Destroy!EnterStage, Destroy!Destroyed,
              Destroy!ExecutionFails, Destroy!PersonApproves
<1> QED BY <1>1, <1>2, <1>3, <1>4, <1>5, <1>6, <1>7 DEF Destroy!Next, Destroy!Session

(***************************************************************************)
(* The destroy command                                                     *)
(***************************************************************************)
LEMMA GoneKept == ASSUME DestroyInv, Destroy!Next PROVE GoneInv'
<1> USE DEF DestroyInv, Destroy!TypeOK, CallsInv, RunCalls, DestroyCalls, AwsCalls,
            GoneInv, Done, Destroy!NoTools, Destroy!Steps,
            Destroy!Goto, Destroy!Return, Destroy!Break, Destroy!Skip, Destroy!cloud,
            Destroy!memory
<1>1. CASE Destroy!Begin
  BY <1>1, SizesAssumption DEF Destroy!Begin
<1>2. CASE \/ Destroy!NextToRun \/ Destroy!Make \/ Destroy!MakeTools
           \/ Destroy!Close \/ Destroy!Intercept \/ Destroy!Apply \/ Destroy!Save
  BY <1>2 DEF Destroy!NextToRun, Destroy!Make, Destroy!MakeTools, Destroy!Close,
              Destroy!Intercept, Destroy!Apply, Destroy!Save
<1>3. CASE Destroy!NextToDestroy
  BY <1>3 DEF Destroy!NextToDestroy
<1>4. CASE Destroy!Open
  BY <1>4 DEF Destroy!Open
<1>5. CASE Destroy!StartExecution
  <2>1. place'[at]["own"] = "source"
    <3>1. CASE Destroy!Move(at, "own", "source")
      BY <1>5, <3>1, Moves DEF Destroy!StartExecution, Destroy!Executions, Places
    <3>2. CASE place' = [place EXCEPT ![at] = [own |-> "source", other |-> place[at]["own"]]]
      BY <1>5, <3>2 DEF Destroy!StartExecution
    <3> QED BY <1>5, <3>1, <3>2 DEF Destroy!StartExecution
  <2> QED BY <1>5, <2>1 DEF Destroy!StartExecution
<1>6. CASE Destroy!Wait
  <2>1. CASE place[at]["own"] = "Approve"
    <3>1. pc' = "wait" => place'[at]["own"] = "approved"
      BY <1>6, <2>1, Moves DEF Destroy!Wait, Destroy!Executions, Places
    <3> QED BY <1>6, <2>1, <3>1 DEF Destroy!Wait
  <2>2. CASE place[at]["own"] # "Approve"
    BY <1>6, <2>2 DEF Destroy!Wait
  <2> QED BY <2>1, <2>2
<1>7. CASE Destroy!PlanJob
  BY <1>7 DEF Destroy!PlanJob
<1>8. CASE Destroy!ApplyJob
  BY <1>8 DEF Destroy!ApplyJob
<1>9. CASE Destroy!Forget
  BY <1>9 DEF Destroy!Forget, Destroy!RemoveStep
<1>12. CASE Destroy!PutState
  BY <1>12 DEF Destroy!PutState
<1>10. CASE Destroy!Fails \/ Destroy!NextSession \/ Destroy!Finished
  BY <1>10, Zenon DEF Destroy!Fails, Destroy!NextSession, Destroy!Finished, Destroy!vars
<1>11. ASSUME NEW s \in Destroy!Steps, Destroy!Cloud(s) PROVE GoneInv'
  <2>1. CASE UNCHANGED <<infra, tools, provider, cmd, pc, at, selected, result>> /\ (pc = "wait" =>
               (place'[at]["own"] = "done" => place[at]["own"] = "done"))
    BY <2>1
  <2>2. CASE Destroy!AutoStart(s) \/ Destroy!PersonStarts(s)
    BY <2>2, <2>1, Moves DEF Destroy!AutoStart, Destroy!PersonStarts, Destroy!Executions, Places
  <2>3. CASE Destroy!PersonApplies(s)
    BY <2>3 DEF Destroy!PersonApplies
  <2>4. ASSUME NEW e \in Destroy!Executions,
               Destroy!EnterStage(s, e) \/ Destroy!ExecutionFails(s, e) \/ Destroy!PersonApproves(s, e)
        PROVE  GoneInv'
    BY <2>4, <2>1, Moves, FollowingStages
       DEF Destroy!EnterStage, Destroy!ExecutionFails, Destroy!PersonApproves,
           Destroy!Executions, Places
  <2>5. ASSUME NEW e \in Destroy!Executions, Destroy!Destroyed(s, e) PROVE GoneInv'
    <3>1. infra' = infra \ {s} /\ UNCHANGED <<tools, provider, cmd, pc, at, selected, result>>
      BY <2>5 DEF Destroy!Destroyed
    <3>2. pc = "wait" /\ place'[at]["own"] = "done" => place[at]["own"] = "done" \/ at = s
      BY <2>5, Moves DEF Destroy!Destroyed, Destroy!Executions, Places
    <3> QED BY <3>1, <3>2
  <2> QED BY <1>11, <2>2, <2>3, <2>4, <2>5 DEF Destroy!Cloud
<1> QED BY <1>1, <1>2, <1>3, <1>4, <1>5, <1>6, <1>7, <1>8, <1>9, <1>10, <1>11,
<1>12 DEF Destroy!Next, Destroy!Session

LEMMA StateKept == ASSUME DestroyInv, Destroy!Next PROVE StateInv'
<1> USE DEF DestroyInv, Destroy!TypeOK, CallsInv, RunCalls, DestroyCalls, AwsCalls,
            GoneInv, StateInv, Done, Destroy!NoTools,
            Destroy!Steps, Destroy!Goto, Destroy!Return, Destroy!Break, Destroy!Skip,
            Destroy!cloud, Destroy!memory
<1>1. CASE Destroy!Begin
  BY <1>1, SizesAssumption DEF Destroy!Begin
<1>2. CASE \/ Destroy!NextToRun \/ Destroy!Make \/ Destroy!MakeTools
           \/ Destroy!Close \/ Destroy!Intercept \/ Destroy!Apply \/ Destroy!Save
  BY <1>2 DEF Destroy!NextToRun, Destroy!Make, Destroy!MakeTools, Destroy!Close,
              Destroy!Intercept, Destroy!Apply, Destroy!Save
<1>3. CASE Destroy!NextToDestroy
  BY <1>3 DEF Destroy!NextToDestroy
<1>4. CASE Destroy!Open
  BY <1>4 DEF Destroy!Open
<1>11. CASE Destroy!StartExecution
  BY <1>11 DEF Destroy!StartExecution
<1>5. CASE Destroy!Wait
  BY <1>5 DEF Destroy!Wait
<1>6. CASE Destroy!PlanJob
  BY <1>6 DEF Destroy!PlanJob
<1>12. CASE Destroy!ApplyJob
  BY <1>12, Zenon DEF Destroy!ApplyJob
<1>7. CASE Destroy!Forget
  BY <1>7 DEF Destroy!Forget, Destroy!RemoveStep
<1>8. CASE Destroy!PutState
  BY <1>8, Zenon DEF Destroy!PutState
<1>9. CASE Destroy!Fails \/ Destroy!NextSession \/ Destroy!Finished
  BY <1>9, Zenon DEF Destroy!Fails, Destroy!NextSession, Destroy!Finished, Destroy!vars
<1>10. ASSUME NEW s \in Destroy!Steps, Destroy!Cloud(s) PROVE StateInv'
  BY <1>10, Zenon DEF Destroy!Cloud, Destroy!AutoStart, Destroy!PersonStarts,
               Destroy!PersonApplies, Destroy!EnterStage, Destroy!Destroyed,
               Destroy!ExecutionFails, Destroy!PersonApproves
<1> QED BY <1>1, <1>2, <1>3, <1>4, <1>5, <1>6, <1>7, <1>8, <1>9, <1>10, <1>11,
<1>12 DEF Destroy!Next, Destroy!Session

LEMMA DestroyInductive == ASSUME DestroyInv, [Destroy!Next]_Destroy!vars PROVE DestroyInv'
<1>1. CASE Destroy!Next
  BY <1>1, TypesKept, CallsKept, AskedKept, ToolsKept, GoneKept, StateKept DEF DestroyInv
<1>2. CASE UNCHANGED Destroy!vars
  BY <1>2 DEF Destroy!vars, Destroy!cloud, Destroy!memory, DestroyInv, Destroy!TypeOK,
              CallsInv, AskedInv, ToolsInv, Destroy!AppliedCanBeDestroyed,
              GoneInv, Done, StateInv, Destroy!NoTools
<1> QED BY <1>1, <1>2

(***************************************************************************)
(* Theorems                                                                *)
(***************************************************************************)
\* The types are right at all times, and what the session, the executions and
\* the state file have to do with each other (DestroyInv).
THEOREM DestroysConsistent == Destroy!Spec => []DestroyInv
BY DestroyInit, DestroyInductive, PTL DEF Destroy!Spec

\* What the agent has applied can be destroyed, wherever a session ended that
\* made the destroy pipeline or the destroy jobs (CreatePipeline, CreateProject).
THEOREM ToolsComplete == Destroy!Spec => []AppliedCanBeDestroyed
<1>1. DestroyInv => AppliedCanBeDestroyed
  BY DEF DestroyInv, ToolsInv, Destroy!AppliedCanBeDestroyed, AppliedCanBeDestroyed,
         Destroy!NoTools, NoTools
<1> QED BY <1>1, DestroysConsistent, PTL

\* The destroy command gets to a step when all later ones that can be destroyed
\* are gone, and succeeds when all are (Destroy).
THEOREM LastFirst == Destroy!Spec => []InReverse
<1>1. DestroyInv => InReverse
  BY DEF DestroyInv, GoneInv, Done, InReverse, Destroy!TypeOK, Destroy!NoTools, NoTools
<1> QED BY <1>1, DestroysConsistent, PTL

\* When the destroy command succeeds, the state file lists none of the steps it
\* destroyed, unless it could not be read or written (removeStepFromState).
THEOREM StateForgets == Destroy!Spec => []GoneAreForgotten
<1>1. DestroyInv => GoneAreForgotten
  <2> SUFFICES ASSUME DestroyInv, cmd = "destroy", result = "nil", ~unread, ~unsaved,
                      NEW s \in listed \cap selected
               PROVE  NoTools(s)
    BY DEF GoneAreForgotten
  <2>1. pc = "over"
    BY DEF DestroyInv, CallsInv
  <2>2. s \in known
    BY <2>1 DEF DestroyInv, StateInv
  <2> QED BY <2>2 DEF DestroyInv, StateInv, Destroy!TypeOK, Destroy!NoTools, NoTools
<1> QED BY <1>1, DestroysConsistent, PTL

\* Nothing is destroyed that neither the destroy command was given for nor a
\* person has approved (CreateDestroyPipeline, enableAllStageTransitions).
THEOREM OnlyWhenAsked == Destroy!Spec => DestroyedWhenAsked
<1>1. DestroyInv /\ [Destroy!Next]_Destroy!vars => [infra \ infra' \subseteq asked]_infra
  <2> SUFFICES ASSUME DestroyInv, Destroy!Next PROVE infra \ infra' \subseteq asked
    BY DEF Destroy!vars, Destroy!cloud
  <2>1. CASE Destroy!ApplyJob
    BY <2>1 DEF Destroy!ApplyJob, DestroyInv, CallsInv, AskedInv, DestroyCalls, AwsCalls
  <2>2. ASSUME NEW s \in Destroy!Steps, NEW e \in Destroy!Executions, Destroy!Destroyed(s, e)
        PROVE  infra \ infra' \subseteq asked
    BY <2>2 DEF Destroy!Destroyed, DestroyInv, AskedInv
  <2>3. ASSUME NEW s \in Destroy!Steps, Destroy!Cloud(s) PROVE infra \ infra' \subseteq asked
    BY <2>2, <2>3 DEF Destroy!Cloud, Destroy!AutoStart, Destroy!PersonStarts,
                      Destroy!PersonApplies, Destroy!EnterStage,
                      Destroy!ExecutionFails, Destroy!PersonApproves
  <2> QED BY <2>1, <2>3
     DEF Destroy!Next, Destroy!Session, Destroy!Begin, Destroy!NextToRun, Destroy!Make,
         Destroy!MakeTools, Destroy!Close, Destroy!Intercept, Destroy!Apply, Destroy!Save,
         Destroy!NextToDestroy, Destroy!Open, Destroy!StartExecution, Destroy!Wait,
         Destroy!PlanJob, Destroy!Forget, Destroy!PutState, Destroy!Fails,
         Destroy!NextSession,
         Destroy!Finished, Destroy!cloud, Destroy!vars
<1> QED BY <1>1, DestroysConsistent, PTL DEF Destroy!Spec, DestroyedWhenAsked

\* A step leaves the state file only when its infrastructure is gone, whichever
\* sessions came before and wherever they ended (removeStepFromState).
THEOREM GoneFirst == Destroy!Spec => ForgetsOnlyGone
<1>1. DestroyInv /\ [Destroy!Next]_Destroy!vars => [(listed \ listed') \cap infra = {}]_listed
  <2> SUFFICES ASSUME DestroyInv, Destroy!Next PROVE (listed \ listed') \cap infra = {}
    BY DEF Destroy!vars
  <2>1. CASE Destroy!Save
    BY <2>1 DEF Destroy!Save, DestroyInv, Destroy!TypeOK
  <2>2. CASE Destroy!PutState
    BY <2>2 DEF Destroy!PutState, DestroyInv, CallsInv, StateInv, DestroyCalls
  <2>3. CASE ~Destroy!Save /\ ~Destroy!PutState
    <3>1. listed' = listed
      BY <2>3
         DEF Destroy!Next, Destroy!Session, Destroy!Begin, Destroy!NextToRun, Destroy!Make,
             Destroy!MakeTools, Destroy!Close, Destroy!Intercept, Destroy!Apply,
             Destroy!NextToDestroy, Destroy!Open, Destroy!StartExecution, Destroy!Wait,
             Destroy!PlanJob, Destroy!ApplyJob, Destroy!Forget, Destroy!Fails,
             Destroy!NextSession,
             Destroy!Finished, Destroy!vars, Destroy!Cloud, Destroy!AutoStart,
             Destroy!PersonStarts, Destroy!PersonApplies, Destroy!EnterStage,
             Destroy!Destroyed,
             Destroy!ExecutionFails, Destroy!PersonApproves
    <3> QED BY <3>1
  <2> QED BY <2>1, <2>2, <2>3
<1> QED BY <1>1, DestroysConsistent, PTL DEF Destroy!Spec, ForgetsOnlyGone
=============================================================================
