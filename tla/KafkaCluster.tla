----------------------------- MODULE KafkaCluster -----------------------------
(***************************************************************************)
(* The Kafka plugin of a cluster (k8s_plugins/kafka.py) on top of          *)
(* StatefulSetReset.  The brokers are the pods of a stateful set that a    *)
(* second controller, the strimzi operator, keeps in the form a custom     *)
(* resource describes.  clear_data() scales the operator to zero around a  *)
(* reset of the set; admin(), consumer() and producer() first add a        *)
(* listener to the resource and wait until the operator has replaced every *)
(* broker.  Without operator the set is one the plugins of Consul or mqtt  *)
(* reset directly.                                                         *)
(*                                                                         *)
(* A deployment that is scaled to zero has no replicas as soon as its pod  *)
(* is being deleted: the operator acts until its grace period is over.     *)
(***************************************************************************)
EXTENDS StatefulSetReset

VARIABLES
  operator,   \* its pod: "absent", "running", "ending" or "none"
  opSpec,     \* the replicas its deployment is scaled to
  wanted,     \* does the custom resource ask for the external listener?
  exposed,    \* is there a bootstrap service?
  listening,  \* brokers created with the listener
  fresh,      \* brokers created since the plugin has noted their start times
  noted,      \* the number of brokers it noted
  kpc,        \* where the plugin is
  kout        \* history: how its last call ended

kafkaVars == <<operator, opSpec, wanted, exposed, listening, fresh, noted, kpc, kout>>
callVars == <<noted, kpc, kout>>
operatorVars == <<operator, opSpec>>
resourceVars == <<wanted, exposed>>
allVars == <<vars, kafkaVars>>

KInit ==
  /\ Init
  /\ operator \in {"absent", "running"}
  /\ opSpec = IF operator = "absent" THEN 0 ELSE 1
  /\ wanted = FALSE /\ exposed = FALSE
  /\ listening = {} /\ fresh = {} /\ noted = 0
  /\ kpc = "idle" /\ kout = "none"

\* What happens to the set shows in its brokers: new ones are fresh, and listen if
\* the operator has put the listener into the set's template.
Brokers ==
  /\ fresh' = IF kpc \in {"patch", "restart"} THEN (fresh \cup (pods' \ pods)) \cap pods' ELSE {}
  /\ listening' = (listening \cup IF exposed THEN pods' \ pods ELSE {}) \cap pods'

\* A call begins: what the last one has left in the locals is forgotten.
Begins ==
  /\ kpc = "idle" /\ pc = "idle" /\ operator # "absent"
  /\ kout' = "none" /\ outcome' = "none" /\ replicas' = 0 /\ old' = {}
  /\ UNCHANGED <<clusterVars, spec, claims, pc, next, listed, timeouts>>

KGoto(label) == kpc' = label /\ UNCHANGED <<noted, kout>>
KReturn(how) == kpc' = "idle" /\ kout' = how /\ noted' = 0

\* A wait of the plugin succeeds, or gives up: always, when nobody can satisfy it.
KWait(label, satisfied, hopeless, next_) ==
  /\ kpc = label
  /\ \/ satisfied /\ next_ /\ UNCHANGED timeouts
     \/ ~satisfied /\ timeouts > 0 /\ timeouts' = timeouts - 1 /\ KReturn("raised")
     \/ ~satisfied /\ hopeless /\ KReturn("raised") /\ UNCHANGED timeouts
  /\ UNCHANGED <<clusterVars, spec, claims, old, pc, replicas, next, listed, outcome>>
  /\ fresh' = {}
  /\ UNCHANGED <<operatorVars, resourceVars, listening>>

-----------------------------------------------------------------------------
(* clear_data.                                                             *)

\* kubectl.scale_deployment patches the number of replicas and waits for the status.
OperatorStatus == IF operator = "running" THEN 1 ELSE 0

ClearData ==
  /\ Begins
  /\ kpc' = "op_down" /\ opSpec' = 0
  /\ UNCHANGED <<operator, resourceVars, listening, fresh, noted>>

OperatorDown == KWait("op_down", OperatorStatus = 0, FALSE, KGoto("reset"))

ResetBegins == kpc = "reset" /\ ReadSpec /\ KGoto("resetting") /\ UNCHANGED listed
            /\ UNCHANGED <<operatorVars, resourceVars, listening, fresh>>

\* Mutant of ResetEnds: an exception of the reset is not one of clear_data.
ResetEndsAnyhow ==
  /\ kpc = "resetting" /\ pc = "idle"
  /\ KGoto("op_up")
  /\ UNCHANGED <<vars, operatorVars, resourceVars, listening, fresh>>

\* What the reset raises leaves the operator where it is.
ResetEnds ==
  /\ kpc = "resetting" /\ pc = "idle"
  /\ IF outcome = "ok" THEN KGoto("op_up") ELSE KReturn("raised")
  /\ UNCHANGED <<vars, operatorVars, resourceVars, listening, fresh>>

OperatorUp ==
  /\ kpc = "op_up"
  /\ opSpec' = 1
  /\ KGoto("op_wait")
  /\ UNCHANGED <<vars, operator, resourceVars, listening, fresh>>

OperatorBack == KWait("op_wait", OperatorStatus = 1, FALSE, KReturn("cleared"))

-----------------------------------------------------------------------------
(* admin(), consumer() and producer().                                     *)

\* _expose returns early when the bootstrap service is there; otherwise it notes
\* the start times of the brokers ...
Expose ==
  /\ Begins
  /\ ~exposed
  /\ kpc' = "patch"
  /\ noted' = Cardinality(pods)
  /\ UNCHANGED <<operatorVars, resourceVars, listening, fresh>>

AlreadyExposed ==
  /\ kpc = "idle" /\ pc = "idle" /\ operator # "absent"
  /\ exposed
  /\ KReturn("client")
  /\ UNCHANGED <<vars, operatorVars, resourceVars, listening, fresh>>

\* ... patches the resource ...
Patch ==
  /\ kpc = "patch"
  /\ wanted' = TRUE
  /\ KGoto("restart")
  /\ UNCHANGED <<vars, operatorVars, exposed, listening, fresh>>

\* Mutant of BrokersRestarted: any broker that was replaced will do.
SomeBrokerRestarted == fresh # {}

\* ... and waits until there are as many brokers and none has kept its start time,
\* which only the operator can bring about, and until the set is ready.
BrokersRestarted == Cardinality(pods) = noted /\ fresh = pods

AwaitRestart == KWait("restart", BrokersRestarted, opSpec = 0, KGoto("running"))
AwaitRunning == KWait("running", IsStatefulSetReady, spec = 0, KReturn("client"))

-----------------------------------------------------------------------------
(* The operator.                                                           *)

Acts == operator \in {"running", "ending"}

\* The deployment's controller and the kubelet.
OperatorPod ==
  /\ \/ operator = "running" /\ opSpec = 0 /\ operator' = "ending"
     \/ operator = "ending" /\ operator' = "none"
     \/ operator = "none" /\ opSpec = 1 /\ operator' = "running"
  /\ UNCHANGED <<vars, opSpec, resourceVars, listening, fresh, callVars>>

\* The set is brought back to the number of replicas of the resource.  In the middle
\* of a reset this costs the reset one of its waits, and comes from the same budget.
OperatorScales ==
  /\ Acts /\ spec # Replicas
  /\ spec' = Replicas
  /\ IF kpc = "resetting"
     THEN timeouts > 0 /\ timeouts' = timeouts - 1
     ELSE UNCHANGED timeouts
  /\ UNCHANGED <<clusterVars, claims, old, pc, replicas, next, listed, outcome>>
  /\ UNCHANGED <<operatorVars, resourceVars, listening, fresh, noted, kpc, kout>>

\* The bootstrap service is created and the template of the set changed.
OperatorExposes ==
  /\ Acts /\ wanted /\ ~exposed
  /\ exposed' = TRUE
  /\ UNCHANGED <<vars, operatorVars, wanted, listening, fresh, callVars>>

\* The brokers are rolled one by one.
OperatorRolls(i) ==
  /\ Acts /\ exposed
  /\ i \in pods \ listening
  /\ ready = pods /\ pods = Ordinals
  /\ pods' = pods \ {i}
  /\ ready' = ready \ {i}
  /\ Brokers
  /\ UNCHANGED <<spec, status, claims, old, pc, replicas, next, listed, outcome, timeouts>>
  /\ UNCHANGED <<operatorVars, resourceVars, callVars>>

-----------------------------------------------------------------------------
\* A reset of a set that has no operator, or the rest of one of clear_data.
Reset ==
  /\ \/ operator = "absent" /\ ReadSpec /\ UNCHANGED listed
     \/ operator = "absent" /\ AppList
     \/ Client
  /\ Brokers
  /\ UNCHANGED <<operatorVars, resourceVars, callVars>>

Kubernetes(i) ==
  Controllers(i) /\ Brokers /\ UNCHANGED <<operatorVars, resourceVars, callVars>>

Publish == PublishStatus /\ UNCHANGED kafkaVars

PluginStep ==
  \/ OperatorDown \/ ResetBegins \/ ResetEnds \/ OperatorUp \/ OperatorBack
  \/ Patch \/ AwaitRestart \/ AwaitRunning

OperatorStep ==
  \/ OperatorScales \/ OperatorExposes
  \/ \E i \in Ordinals : OperatorRolls(i)

KNext ==
  \/ ClearData \/ Expose \/ AlreadyExposed
  \/ PluginStep
  \/ Reset
  \/ OperatorPod \/ OperatorStep
  \/ \E i \in Ordinals : Kubernetes(i)
  \/ Publish

KSpec == KInit /\ [][KNext]_allVars

\* A call goes on and the controllers do their work; nobody has to call.
FairSpec ==
  /\ KSpec
  /\ WF_allVars(PluginStep)
  /\ WF_allVars(Client /\ Brokers /\ UNCHANGED <<operatorVars, resourceVars, callVars>>)
  /\ \A i \in Ordinals : WF_allVars(Kubernetes(i))
  /\ WF_allVars(Publish)
  /\ WF_allVars(OperatorPod)
  /\ WF_allVars(OperatorStep)

-----------------------------------------------------------------------------
(* Properties.                                                             *)

\* clear_data() returns normally only with the operator scaled up again and the set
\* reset, provided it had not been left at zero: old claims are gone even when the
\* operator, which is told to stop but not awaited, has put the set back to work in
\* the middle of the reset.
ClearedMeansReset ==
  kout = "cleared" =>
    /\ opSpec = 1
    /\ outcome = "ok" /\ (replicas = Replicas => old = {})

\* A consumer is made only when every broker listens, unless a wait before it has
\* timed out: a retry finds the bootstrap service and does not wait for the brokers.
ClientsAreServed ==
  kout = "client" /\ timeouts = MaxTimeouts => pods \subseteq listening

\* A call that raises with the set at zero and the operator gone is final: no later
\* clear_data() brings back the brokers, or the operator that would.
BrokersLost ==
  [](/\ kpc = "idle" /\ pc = "idle" /\ spec = 0 /\ pods = {}
     /\ operator \in {"absent", "none"} /\ opSpec = 0
     => [](spec = 0 /\ opSpec = 0))

\* If no wait will time out and the operator keeps out of resets, every call returns
\* normally.
CallsSucceed ==
  timeouts = 0 =>
    /\ pc # "idle" ~> outcome = "ok"
    /\ kpc # "idle" ~> kout \in {"cleared", "client"}
=============================================================================
