-------------------------- MODULE StatefulSetReset --------------------------
(***************************************************************************)
(* Two helpers delete the data of a stateful set by scaling it to zero,    *)
(* deleting the volume claims of its pods one after the other and scaling  *)
(* it back: kubectl.delete_stateful_set_data (utils/kubectl.py), which     *)
(* reads the number of replicas from the spec, and K8s.delete_app_data     *)
(* (plugins/k8s.py), which counts the pods it finds.                       *)
(*                                                                         *)
(* The cluster is a second actor: its controllers create and delete pods,  *)
(* remove claims no pod uses any more, and publish the status of the set   *)
(* some time after the fact.  Every wait of the client has a timeout and   *)
(* raises when it expires; timeouts that are not certain come from a       *)
(* budget, MaxTimeouts.  The caller may call again after a call that       *)
(* raised, which nothing has undone.                                       *)
(*                                                                         *)
(* One claim per ordinal stands for those of all claim templates.          *)
(***************************************************************************)
EXTENDS Integers, FiniteSets

CONSTANTS
  Replicas,      \* the replicas the set has before the first call
  HasTemplates,  \* does its spec have volume_claim_templates?
  MaxTimeouts

ASSUME ResetAssumption ==
  /\ Replicas \in Nat \ {0}
  /\ HasTemplates \in BOOLEAN
  /\ MaxTimeouts \in Nat

Ordinals == 0 .. (Replicas - 1)

VARIABLES
  spec,       \* spec.replicas
  status,     \* what the controller has published last: replicas and ready
  pods,       \* ordinals of the pods there are
  ready,      \* ordinals of those that are ready
  claims,     \* the volume claim of an ordinal: "none", "bound" or "terminating"
  old,        \* history: claims left from before the current call
  pc,         \* where the client is in delete_stateful_set_data
  replicas,   \* its local of that name; the last call's, once it is over
  next,       \* the position of its loop over pvcs_to_delete
  listed,     \* delete_app_data: pods whose claims are still to be deleted
  outcome,    \* how the last call ended
  timeouts    \* timeouts still to come

clusterVars == <<status, pods, ready>>
vars == <<spec, status, pods, ready, claims, old, pc, replicas, next, listed, outcome, timeouts>>

Labels == {"idle", "scale_down", "wait_down", "delete", "wait_claim",
           "scale_up", "wait_up", "wait_ready",
           "app_claims", "app_down", "app_force", "app_wait", "app_delete", "app_gone",
           "app_ready"}

Init ==
  /\ spec = Replicas
  /\ status = [replicas |-> Replicas, ready |-> Replicas]
  /\ pods = Ordinals
  /\ ready = Ordinals
  /\ claims = [i \in Ordinals |-> IF HasTemplates THEN "bound" ELSE "none"]
  /\ old = {}
  /\ pc = "idle"
  /\ replicas = 0
  /\ next = 0
  /\ listed = {}
  /\ outcome = "none"
  /\ timeouts \in 0..MaxTimeouts

-----------------------------------------------------------------------------
(* delete_stateful_set_data.                                               *)

Return(how) ==
  /\ pc' = "idle"
  /\ next' = 0
  /\ outcome' = how
  /\ UNCHANGED replicas

Raise == Return("raised")

\* A wait_for_predicate gives up.
TimesOut(label, satisfied) ==
  /\ pc = label
  /\ ~satisfied
  /\ timeouts > 0
  /\ timeouts' = timeouts - 1
  /\ Raise
  /\ UNCHANGED <<clusterVars, spec, claims, old>>

\* It succeeds and the client goes on.
Passes(label, satisfied, then) ==
  /\ pc = label
  /\ satisfied
  /\ pc' = then
  /\ UNCHANGED <<clusterVars, spec, claims, old, replicas, outcome, timeouts>>

\* Mutant of ReadSpec: zero replicas count as one.
ReadSpecAtLeastOne ==
  /\ pc = "idle"
  /\ pc' = "scale_down"
  /\ replicas' = IF spec = 0 THEN 1 ELSE spec
  /\ outcome' = "none"
  /\ old' = {i \in Ordinals : claims[i] # "none"}
  /\ UNCHANGED <<clusterVars, spec, claims, next, timeouts>>

\* The spec is read: this is where the number to go back to comes from.
ReadSpec ==
  /\ pc = "idle"
  /\ pc' = "scale_down"
  /\ replicas' = spec
  /\ outcome' = "none"
  /\ old' = {i \in Ordinals : claims[i] # "none"}
  /\ UNCHANGED <<clusterVars, spec, claims, next, timeouts>>

\* scale_stateful_set patches the scale.
Scale(label, to, then) ==
  /\ pc = label
  /\ spec' = to
  /\ pc' = then
  /\ UNCHANGED <<clusterVars, claims, old, replicas, next, outcome, timeouts>>

ScaleDown == Scale("scale_down", 0, "wait_down")

\* ... and waits for the published status.
IsDown == status.replicas = 0

\* Mutant of WaitDown: the scale is patched and not waited for.
NoWaitDown == Passes("wait_down", TRUE, "delete") /\ UNCHANGED next

WaitDown == Passes("wait_down", IsDown, "delete") /\ UNCHANGED next
WaitDownTimeout == TimesOut("wait_down", IsDown)

\* Mutant of ToDelete: the last ordinal is left out.
ToDeleteButLast == IF HasTemplates THEN replicas - 1 ELSE 0

\* The number of claims in pvcs_to_delete.
ToDelete == IF HasTemplates THEN replicas ELSE 0

\* delete_pvc: a claim that does not exist is an ApiException.
DeleteClaim ==
  /\ pc = "delete"
  /\ next < ToDelete
  /\ IF claims[next] = "none"
     THEN Raise /\ UNCHANGED claims
     ELSE /\ claims' = [claims EXCEPT ![next] = "terminating"]
          /\ pc' = "wait_claim"
          /\ UNCHANGED <<replicas, next, outcome>>
  /\ UNCHANGED <<clusterVars, spec, old, timeouts>>

IsDeleted == claims[next] = "none"
WaitClaim == Passes("wait_claim", IsDeleted, "delete") /\ next' = next + 1
WaitClaimTimeout == TimesOut("wait_claim", IsDeleted)

AllDeleted == Passes("delete", next >= ToDelete, "scale_up") /\ UNCHANGED next

\* Mutant of ScaleUp: the set is not scaled back.
ScaleUpNot == Scale("scale_up", 0, "wait_up")

ScaleUp == Scale("scale_up", replicas, "wait_up")

IsUp == status.replicas = replicas
WaitUp == Passes("wait_up", IsUp, "wait_ready") /\ UNCHANGED next
WaitUpTimeout == TimesOut("wait_up", IsUp)

\* is_stateful_set_ready: status.ready_replicas is absent, not 0, while no pod
\* is ready, and an absent number equals none.
IsStatefulSetReady == status.ready # 0 /\ status.ready = status.replicas

WaitReady ==
  /\ pc = "wait_ready"
  /\ IsStatefulSetReady
  /\ Return("ok")
  /\ UNCHANGED <<clusterVars, spec, claims, old, timeouts>>

WaitReadyTimeout == TimesOut("wait_ready", IsStatefulSetReady)

\* A timeout is certain when nothing is to become ready, when somebody else has
\* changed the spec, or when the pod of a claim has come back.
InVain ==
  /\ \/ pc = "wait_ready" /\ spec = 0 /\ ~IsStatefulSetReady
     \/ pc = "wait_down" /\ spec # 0 /\ ~IsDown
     \/ pc = "wait_up" /\ spec # replicas /\ ~IsUp
     \/ pc = "wait_claim" /\ ~IsDeleted /\ next \in pods /\ next < spec
  /\ Raise
  /\ UNCHANGED <<clusterVars, spec, claims, old, timeouts>>

-----------------------------------------------------------------------------
(* delete_app_data.                                                        *)

\* The pods that are found give the number of replicas to go back to.
AppList ==
  /\ pc = "idle"
  /\ old' = {i \in Ordinals : claims[i] # "none"}
  /\ IF pods = {}
     THEN Return("raised") /\ listed' = {}
     ELSE /\ pc' = "app_claims"
          /\ listed' = pods
          /\ replicas' = Cardinality(pods)
          /\ outcome' = "none"
          /\ UNCHANGED next
  /\ UNCHANGED <<clusterVars, spec, claims, timeouts>>

\* Their claims and volumes are looked up; a pod that has gone is an error.
AppClaims ==
  /\ pc = "app_claims"
  /\ IF listed \subseteq pods
     THEN pc' = "app_down" /\ UNCHANGED <<replicas, next, outcome>>
     ELSE Raise
  /\ UNCHANGED <<clusterVars, spec, claims, old, listed, timeouts>>

AppDown == Scale("app_down", 0, "app_force") /\ UNCHANGED listed

\* delete pod --force --grace-period=0.
AppForce ==
  /\ pc = "app_force"
  /\ pods' = {}
  /\ ready' = {}
  /\ pc' = "app_wait"
  /\ UNCHANGED <<spec, status, claims, old, replicas, next, listed, outcome, timeouts>>

AppWait == Passes("app_wait", IsDown, "app_delete") /\ UNCHANGED <<next, listed>>
AppWaitTimeout == TimesOut("app_wait", IsDown) /\ UNCHANGED listed

\* kubectl delete pvc returns when the claim has gone.
AppDelete ==
  /\ pc = "app_delete" /\ listed # {}
  /\ \E i \in listed :
       IF claims[i] = "none"
       THEN Raise /\ UNCHANGED claims
       ELSE /\ claims' = [claims EXCEPT ![i] = "terminating"]
            /\ next' = i
            /\ pc' = "app_gone"
            /\ UNCHANGED <<replicas, outcome>>
  /\ UNCHANGED <<clusterVars, spec, old, listed, timeouts>>

AppGone ==
  /\ Passes("app_gone", IsDeleted, "app_delete")
  /\ listed' = listed \ {next}
  /\ UNCHANGED next

AppUp == listed = {} /\ Scale("app_delete", replicas, "app_ready") /\ UNCHANGED listed

\* The last wait does not raise.
AppReady ==
  /\ pc = "app_ready"
  /\ \/ status.ready = replicas /\ UNCHANGED timeouts
     \/ status.ready # replicas /\ timeouts > 0 /\ timeouts' = timeouts - 1
  /\ Return("ok")
  /\ UNCHANGED <<clusterVars, spec, claims, old, listed>>

-----------------------------------------------------------------------------
(* The cluster.                                                            *)

clientVars == <<spec, pc, replicas, next, listed, outcome, timeouts>>

\* The controller creates a pod, and its claim unless it has one; a claim that
\* is being deleted has to go first.
CreatePod(i) ==
  /\ i < spec
  /\ i \notin pods
  /\ claims[i] # "terminating"
  /\ pods' = pods \cup {i}
  /\ claims' = [claims EXCEPT ![i] = IF HasTemplates THEN "bound" ELSE "none"]
  /\ UNCHANGED <<clientVars, status, ready, old>>

PodReady(i) ==
  /\ i \in pods \ ready
  /\ ready' = ready \cup {i}
  /\ UNCHANGED <<clientVars, status, pods, claims, old>>

DeletePod(i) ==
  /\ i \in pods
  /\ i >= spec
  /\ pods' = pods \ {i}
  /\ ready' = ready \ {i}
  /\ UNCHANGED <<clientVars, status, claims, old>>

\* A deleted claim goes when no pod uses it.
RemoveClaim(i) ==
  /\ claims[i] = "terminating"
  /\ i \notin pods
  /\ claims' = [claims EXCEPT ![i] = "none"]
  /\ old' = old \ {i}
  /\ UNCHANGED <<clientVars, status, pods, ready>>

PublishStatus ==
  /\ status' = [replicas |-> Cardinality(pods), ready |-> Cardinality(ready)]
  /\ UNCHANGED <<clientVars, pods, ready, claims, old>>

-----------------------------------------------------------------------------
Client ==
  \/ /\ \/ ScaleDown \/ WaitDown \/ WaitDownTimeout
        \/ DeleteClaim \/ WaitClaim \/ WaitClaimTimeout \/ AllDeleted
        \/ ScaleUp \/ WaitUp \/ WaitUpTimeout
        \/ WaitReady \/ WaitReadyTimeout \/ InVain
     /\ UNCHANGED listed
  \/ AppClaims \/ AppDown \/ AppForce \/ AppWait \/ AppWaitTimeout
  \/ AppDelete \/ AppGone \/ AppUp \/ AppReady

Controllers(i) == CreatePod(i) \/ PodReady(i) \/ DeletePod(i) \/ RemoveClaim(i)

Next ==
  \/ ReadSpec /\ UNCHANGED listed
  \/ AppList
  \/ Client
  \/ \E i \in Ordinals : Controllers(i)
  \/ PublishStatus

Spec == Init /\ [][Next]_vars

-----------------------------------------------------------------------------
(* Properties.                                                             *)

\* A call that returns normally, and that read or counted as many replicas as the
\* set had at first, has deleted every claim left from before it and has scaled the
\* set back, also when it is a retry and although the status it waits for lags.
OkMeansReset ==
  outcome = "ok" /\ replicas = Replicas => old = {} /\ spec = Replicas

\* As long as no wait has timed out, delete_stateful_set_data deletes a claim only
\* when no pod is left, and returns normally only when every pod is there and ready.
\* A retry may find pods when it deletes claims, and may return before they are
\* ready: the status it waits for can still be one from before.
UndisturbedReset ==
  timeouts = MaxTimeouts =>
    /\ pc \in {"delete", "wait_claim", "app_delete", "app_gone"} => pods = {}
    /\ outcome = "ok" => ready = Ordinals
=============================================================================
