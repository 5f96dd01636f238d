---------------------------- MODULE DestroyState ----------------------------
(***************************************************************************)
(* What is kept of the steps that are to be destroyed, and what destroying *)
(* them promises (service/delete.go). Destroyer has the sessions.          *)
(***************************************************************************)
EXTENDS Naturals

CONSTANTS
  NumSteps,     \* the steps of the configuration, in its order
  MaxSessions,  \* so many sessions                               (bound)
  Providers     \* which providers, a subset of {"AWS", "GCLOUD", "LOCAL"}

ASSUME SizesAssumption == NumSteps \in Nat \ {0} /\ MaxSessions \in Nat \ {0}
ASSUME ProvidersAssumption == Providers \subseteq {"AWS", "GCLOUD", "LOCAL"}

Steps == 1..NumSteps

VARIABLES
  provider,
  infra,     \* the steps whose infrastructure is there
  listed,    \* the steps in the state file
  pending,   \* steps whose apply pipeline waits for an approval
  tools,     \* step -> destroy jobs made; 2 also for a destroy pipeline
  closed,    \* step -> stages of its destroy pipeline with a disabled inbound transition
  place,     \* step -> execution -> where it is
  session,   \* number of the session
  cmd,       \* "run" or "destroy"
  pc, at,    \* what the session does next, and for which step
  selected,  \* steps the session is for (the steps flag)
  known,     \* the state as the destroy command holds it
  unread,    \* the state file could not be read
  unsaved,   \* the state file could not be written the last time
  result,    \* what the session returned
  asked,     \* steps that somebody has asked to destroy (history)
  early      \* steps a person applied before their session was done (history)

------------------------------------------------------------------------------
(***************************************************************************)
(* Properties                                                              *)
(***************************************************************************)
\* Nothing is destroyed that neither the destroy command was given for nor a
\* person has approved, although a destroy pipeline starts on its own before
\* its transitions are disabled, and although the destroy command leaves them
\* enabled (CreateDestroyPipeline, enableAllStageTransitions).
DestroyedWhenAsked == [][infra \ infra' \subseteq asked]_infra

\* Nothing to destroy the step with.
NoTools(s) == provider # "LOCAL" /\ tools[s] < 2

\* What the agent has applied can be destroyed: however sessions end, its
\* destroy pipeline or jobs are complete; only who approves at the provider
\* while the session still makes them can be faster (CreatePipeline,
\* CreateProject).
AppliedCanBeDestroyed ==
  \A s \in infra \ early : ~NoTools(s)

\* The destroy command never gets to a step as long as a later one, which may
\* stand on it, is there, unless it has nothing to destroy that one with; so an
\* error leaves the earlier steps alone and success means that all steps are
\* gone (Destroy).
InReverse ==
  cmd = "destroy" /\ pc # "idle" =>
    /\ \A s \in selected : s > at => s \notin infra \/ NoTools(s)
    /\ result = "nil" => \A s \in selected \cap infra : NoTools(s)

\* A step leaves the state file only when its infrastructure is gone
\* (removeStepFromState).
ForgetsOnlyGone == [][(listed \ listed') \cap infra = {}]_listed

\* When the destroy command succeeds, the state file lists none of the steps it
\* destroyed, unless it could not be read or its last version not be written:
\* one that failed to be written earlier is made up for (removeStepFromState).
GoneAreForgotten ==
  cmd = "destroy" /\ result = "nil" /\ ~unread /\ ~unsaved =>
    \A s \in listed \cap selected : NoTools(s)
==============================================================================
