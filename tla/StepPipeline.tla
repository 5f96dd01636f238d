---------------------------- MODULE StepPipeline ----------------------------
(***************************************************************************)
(* What running the pipeline of a step promises the updater, whichever     *)
(* provider runs it: model.Pipeline at AWS and Google Cloud, LocalPipeline *)
(* in the process of the agent. A run plans once; it is applied only with  *)
(* somebody's consent, which the agent gives where the documentation lets  *)
(* it; and a run that returns without an error has been applied, or its    *)
(* plan found nothing to apply. Whatever happens after a run has returned  *)
(* (a person consents at the provider, the application ends) is no part of *)
(* what it returns.                                                        *)
(***************************************************************************)
EXTENDS Approval

CONSTANTS
  Runs,   \* runs of the pipeline of a step
  NoPlan  \* before a plan has been made, none of PipelineChanges

Terms == [approve : ApproveTypes, manual : ManualApproveTypes, auto : BOOLEAN]

VARIABLES
  terms,    \* run -> the arguments that decide on its plan
  plan,     \* run -> what its plan found
  consent,  \* run -> who let it be applied
  applied,  \* run -> is it applied
  result    \* run -> what it returned

vars == <<terms, plan, consent, applied, result>>

Init ==
  /\ terms \in [Runs -> Terms]
  /\ plan = [r \in Runs |-> NoPlan]
  /\ consent = [r \in Runs |-> "nobody"]
  /\ applied = [r \in Runs |-> "no"]
  /\ result = [r \in Runs |-> "none"]

Begin(r) ==
  /\ plan[r] = NoPlan /\ result[r] = "none"
  /\ terms'[r] \in Terms /\ terms' = [terms EXCEPT ![r] = terms'[r]]
  /\ UNCHANGED <<plan, consent, applied, result>>

Plan(r) ==
  /\ plan[r] = NoPlan
  /\ plan'[r] \in PipelineChanges /\ plan' = [plan EXCEPT ![r] = plan'[r]]
  /\ UNCHANGED <<terms, consent, applied, result>>

MayConsent(r) ==
  /\ ~plan[r].noChanges
  /\ ~NeedsPerson(plan[r], terms[r].approve, terms[r].auto, terms[r].manual)

Consent(r, who) ==
  /\ plan[r] # NoPlan /\ consent[r] = "nobody"
  /\ who = "agent" => MayConsent(r) /\ result[r] = "none"
  /\ consent' = [consent EXCEPT ![r] = who]
  /\ UNCHANGED <<terms, plan, applied, result>>

Apply(r) ==
  /\ consent[r] # "nobody" /\ applied[r] = "no"
  /\ applied' = [applied EXCEPT ![r] = "begun"]
  /\ UNCHANGED <<terms, plan, consent, result>>

ApplyEnds(r) ==
  /\ applied[r] = "begun" /\ applied' = [applied EXCEPT ![r] = "done"]
  /\ UNCHANGED <<terms, plan, consent, result>>

Fulfilled(r) ==
  \/ applied[r] = "done"
  \/ plan[r] # NoPlan /\ plan[r].noChanges /\ ~RejectsPlans(terms[r].approve, terms[r].manual)

Return(r, value) ==
  /\ result[r] = "none" /\ (value = "nil" => Fulfilled(r))
  /\ result' = [result EXCEPT ![r] = value]
  /\ UNCHANGED <<terms, plan, consent, applied>>

Next ==
  \E r \in Runs :
    \/ Begin(r) \/ Plan(r) \/ Apply(r) \/ ApplyEnds(r)
    \/ \E who \in {"agent", "person"} : Consent(r, who)
    \/ \E value \in {"nil", "error"} : Return(r, value)

Spec == Init /\ [][Next]_vars
==============================================================================
