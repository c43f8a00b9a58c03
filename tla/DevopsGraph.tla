---------------------------- MODULE DevopsGraph ----------------------------
(***************************************************************************)
(* createDevopsGraph(): the verdicts of CI, registry, rollout and health   *)
(* stream on the selected commit, each a resource with a clock of its own, *)
(* and the decisions computed from them and from the manual approval.      *)
(*                                                                         *)
(* All of them keep their value while the next run is pending, so after a  *)
(* new selection the verdicts on the old commit are read beside the new.   *)
(* An action of the graph and the flush it schedules are steps of one task *)
(* (several actions may share the task, as in the tests); what the flush   *)
(* and a resolved promise cause comes before the next timer or action.     *)
(* The delays of the fixtures are left to chance.  The event log, which is *)
(* only shown, and targetEnvironment, which nothing sets, are left out.    *)
(***************************************************************************)
EXTENDS InputResource, Integers, Sequences

CONSTANTS Commits, FirstCommit,
          Fixture,    \* of a commit: its ci, artifact and deployment states, and its health events
          MaxActions  \* bound: actions of the graph

VARIABLES
  selected, approved, intent,    \* the signals
  ci, artifact, deployment,      \* the resources; ci and artifact have the commit as their value
  health,                        \* the stream: its commit, and how many events it has emitted
  scheduled,                     \* the resources whose effect waits for the flush
  approvedCommit,                \* history: the commit the last approval was given to
  actions

resources == <<ci, artifact, deployment, health>>
vars == <<selected, approved, intent, resources, scheduled, approvedCommit, actions>>

Keep == TRUE \* keepPreviousValueOnPending of all three

-----------------------------------------------------------------------------
(* What is computed *)

CanDeploy ==
  /\ ci.value # Nothing /\ Fixture[ci.value].ci = "success"
  /\ artifact.value # Nothing /\ Fixture[artifact.value].artifact = "ready"

DeploymentRequest == [commit |-> selected, intent |-> intent, canDeploy |-> CanDeploy]

HealthState == IF health.emitted = 0 THEN "unknown" ELSE Fixture[health.commit].health[health.emitted]

DeploymentIs(state) == deployment.value # Nothing /\ deployment.value.state = state

CanPromote == CanDeploy /\ DeploymentIs("success") /\ HealthState = "healthy" /\ approved

Blocked ==
  \/ ci.value # Nothing /\ Fixture[ci.value].ci = "failed"
  \/ artifact.value # Nothing /\ Fixture[artifact.value].artifact = "missing"
  \/ DeploymentIs("failed")
  \/ DeploymentIs("success") /\ (HealthState = "degraded" \/ ~approved)

Phase ==
  IF intent = "cancelled" \/ DeploymentIs("cancelled") THEN "cancelled"
  ELSE IF Blocked /\ ~CanDeploy THEN "checking"
  ELSE IF DeploymentIs("failed") \/ DeploymentIs("blocked") THEN "blocked"
  ELSE IF intent = "deploy" /\ ~DeploymentIs("success") THEN "deploying"
  ELSE IF ~CanDeploy THEN "checking"
  ELSE IF ~DeploymentIs("success") THEN "ready-to-deploy"
  ELSE IF HealthState = "unknown" THEN "awaiting-health"
  ELSE IF HealthState = "degraded" THEN "blocked"
  ELSE IF ~approved THEN "awaiting-approval"
  ELSE "ready-to-promote"

-----------------------------------------------------------------------------
\* The four effects run once, on nothing but the first commit.
Init ==
  /\ selected = FirstCommit /\ approved = FALSE /\ intent = "idle"
  /\ ci = Created(FirstCommit) /\ artifact = Created(FirstCommit)
  /\ deployment = Created([commit |-> FirstCommit, intent |-> "idle", canDeploy |-> FALSE])
  /\ health = [commit |-> FirstCommit, emitted |-> 0]
  /\ scheduled = {} /\ approvedCommit = Nothing /\ actions = 0

\* fakeDeploymentApi: only a rollout that may start takes time.
AtOnce(r) == r.intent # "deploy" \/ ~r.canDeploy

Outcome(r) ==
  CASE r.intent = "idle" -> "idle"
    [] r.intent = "cancelled" -> "cancelled"
    [] r.intent = "deploy" /\ ~r.canDeploy -> "blocked"
    [] r.intent = "deploy" /\ r.canDeploy -> Fixture[r.commit].deployment

Microtask == deployment.pending /\ AtOnce(deployment.input)
TaskOver == scheduled = {} /\ ~Microtask

-----------------------------------------------------------------------------
(* The actions of the graph *)

Action == ~Microtask /\ actions < MaxActions /\ actions' = actions + 1

\* Setting a signal to the value it has schedules nothing.
Schedules(newIntent, newCommit) ==
  scheduled' = scheduled
     \cup (IF newIntent # intent THEN {"deployment"} ELSE {})
     \cup (IF newCommit # selected THEN {"ci", "artifact", "deployment", "health"} ELSE {})

\* Mutant of SelectCommit: nothing but the commit changes.
SelectCommitOnly(c) ==
  /\ Action
  /\ selected' = c
  /\ Schedules(intent, c)
  /\ UNCHANGED <<approved, intent, resources, approvedCommit>>

SelectCommit(c) ==
  /\ Action
  /\ approved' = FALSE /\ intent' = "idle" /\ selected' = c
  /\ Schedules("idle", c)
  /\ UNCHANGED <<resources, approvedCommit>>

StartDeployment ==
  /\ Action
  /\ intent' = "deploy" /\ approved' = FALSE
  /\ Schedules("deploy", selected)
  /\ UNCHANGED <<selected, resources, approvedCommit>>

ApprovePromotion ==
  /\ Action
  /\ approved' = TRUE /\ approvedCommit' = selected
  /\ UNCHANGED <<selected, intent, resources, scheduled>>

\* Mutant of CancelDeployment: the intent stays.
CancelRolloutOnly ==
  /\ Action
  /\ deployment' = Cancelled(deployment)
  /\ UNCHANGED <<selected, approved, intent, ci, artifact, health, scheduled, approvedCommit>>

CancelDeployment ==
  /\ Action
  /\ deployment' = Cancelled(deployment)
  /\ intent' = "cancelled"
  /\ Schedules("cancelled", selected)
  /\ UNCHANGED <<selected, approved, ci, artifact, health, approvedCommit>>

-----------------------------------------------------------------------------
(* The flush and the answers *)

\* An effect that is scheduled runs, though its input may be what it was.
Flush ==
  /\ scheduled # {}
  /\ ci' = IF "ci" \in scheduled THEN RunAgain(ci, selected, Keep) ELSE ci
  /\ artifact' = IF "artifact" \in scheduled THEN RunAgain(artifact, selected, Keep) ELSE artifact
  /\ deployment' = IF "deployment" \in scheduled
                   THEN RunAgain(deployment, DeploymentRequest, Keep) ELSE deployment
  /\ health' = IF "health" \in scheduled THEN [commit |-> selected, emitted |-> 0] ELSE health
  /\ scheduled' = {}
  /\ UNCHANGED <<selected, approved, intent, approvedCommit, actions>>

\* A new value of a gate schedules the rollout, whatever canDeploy becomes.
CiAnswers ==
  /\ TaskOver /\ ci.pending
  /\ ci' = Answered(ci, ci.input)
  /\ scheduled' = {"deployment"}
  /\ UNCHANGED <<selected, approved, intent, artifact, deployment, health, approvedCommit, actions>>

ArtifactAnswers ==
  /\ TaskOver /\ artifact.pending
  /\ artifact' = Answered(artifact, artifact.input)
  /\ scheduled' = {"deployment"}
  /\ UNCHANGED <<selected, approved, intent, ci, deployment, health, approvedCommit, actions>>

DeploymentAnswers ==
  /\ scheduled = {} /\ deployment.pending
  /\ deployment' = Answered(deployment, [commit |-> deployment.input.commit,
                                         state |-> Outcome(deployment.input)])
  /\ UNCHANGED <<selected, approved, intent, ci, artifact, health, scheduled, approvedCommit, actions>>

HealthEmits ==
  /\ TaskOver /\ health.emitted < Len(Fixture[health.commit].health)
  /\ health' = [health EXCEPT !.emitted = @ + 1]
  /\ UNCHANGED <<selected, approved, intent, ci, artifact, deployment, scheduled, approvedCommit, actions>>

-----------------------------------------------------------------------------
Actions == \/ \E c \in Commits : SelectCommit(c)
           \/ StartDeployment \/ ApprovePromotion \/ CancelDeployment
Next == Actions \/ Flush \/ CiAnswers \/ ArtifactAnswers \/ DeploymentAnswers \/ HealthEmits

Spec == Init /\ [][Next]_vars

\* Microtasks run, and every timer fires that is not started again.
Fairness == WF_vars(Flush) /\ WF_vars(DeploymentAnswers) /\ WF_vars(CiAnswers) /\ WF_vars(ArtifactAnswers)

-----------------------------------------------------------------------------
(* Properties *)

\* Once nothing is pending, a commit is offered for promotion only on its own
\* verdicts: CI, artifact, rollout, health and approval are all of the commit
\* that is selected, in whatever order commits were selected, rollouts begun
\* and approvals given, and answers came.
PromotesOnOwnVerdicts ==
  CanPromote /\ TaskOver /\ ~ci.pending /\ ~artifact.pending /\ ~deployment.pending
    => {ci.value, artifact.value, deployment.value.commit, health.commit, approvedCommit} = {selected}

\* A rollout that the page shows as under way comes to an end, though every
\* gate that answers starts it again, and a cancel may come at any point.
RolloutEnds == Phase = "deploying" ~> Phase # "deploying"

\* "allows promotion only after CI, artifact, rollout, health, and approval pass".
PromotesOnlyAfterAllPass ==
  CanPromote /\ TaskOver
    => {ci.value, artifact.value, deployment.value.commit, health.commit, approvedCommit} = {selected}
=============================================================================
