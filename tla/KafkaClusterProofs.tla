-------------------------- MODULE KafkaClusterProofs --------------------------
(***************************************************************************)
(* Proofs about KafkaCluster and the resets of StatefulSetReset below it,  *)
(* for any number of replicas and of timeouts, with or without claim       *)
(* templates.                                                              *)
(***************************************************************************)
EXTENDS KafkaCluster, FiniteSetTheorems, TLAPS

PluginLabels ==
  {"idle", "op_down", "reset", "resetting", "op_up", "op_wait", "patch", "restart", "running"}

SetTypes ==
  /\ spec \in 0..Replicas
  /\ status \in [replicas : 0..Replicas, ready : 0..Replicas]
  /\ status.ready <= status.replicas
  /\ pods \in SUBSET Ordinals /\ ready \in SUBSET pods
  /\ claims \in [Ordinals -> {"none", "bound", "terminating"}]

ClientTypes ==
  /\ old \in SUBSET Ordinals /\ listed \in SUBSET Ordinals
  /\ pc \in Labels /\ replicas \in 0..Replicas /\ next \in 0..Replicas
  /\ outcome \in {"none", "ok", "raised"}
  /\ timeouts \in 0..MaxTimeouts

PluginTypes ==
  /\ operator \in {"absent", "running", "ending", "none"} /\ opSpec \in {0, 1}
  /\ wanted \in BOOLEAN /\ exposed \in BOOLEAN
  /\ noted \in 0..Replicas
  /\ kpc \in PluginLabels
  /\ kout \in {"none", "raised", "cleared", "client"}

BrokerTypes == listening \in SUBSET pods /\ fresh \in SUBSET pods

TypeOK == SetTypes /\ ClientTypes /\ PluginTypes /\ BrokerTypes

\* A reset runs inside clear_data() or, without operator, on its own, and what it has
\* come to stays until the next call begins.
AppLabels ==
  {"app_claims", "app_down", "app_force", "app_wait", "app_delete", "app_gone", "app_ready"}

CallsNest ==
  /\ pc # "idle" => outcome = "none" /\ (kpc = "resetting" \/ operator = "absent")
  /\ pc \in AppLabels => operator = "absent"
  /\ kpc = "resetting" /\ pc = "idle" => outcome # "none"
  /\ operator = "absent" => kpc = "idle" /\ kout = "none" /\ ~wanted /\ ~exposed /\ opSpec = 0
  /\ kpc # "idle" => kout = "none"
  /\ kpc \in {"op_up", "op_wait"} \/ kout = "cleared" => outcome = "ok"
  /\ kpc = "op_wait" \/ kout = "cleared" => opSpec = 1
  /\ kpc \notin {"patch", "restart"} => fresh = {}
  /\ kpc \in {"patch", "restart", "running"} => outcome = "none"

\* The claims from before a call that the client has not come to yet.
OldClaims ==
  /\ \A i \in old : claims[i] # "none"
  /\ ~HasTemplates => \A i \in Ordinals : claims[i] = "none"
  /\ pc \in {"idle", "scale_down", "wait_down"} => next = 0
  /\ pc = "delete" => next <= ToDelete
  /\ pc = "wait_claim" => next < ToDelete
  /\ pc = "app_gone" => next \in Ordinals
  /\ pc \in {"delete", "wait_claim"} => \A i \in old : i >= next
  /\ pc = "app_claims" => replicas = Cardinality(listed)
  /\ pc \in {"app_claims", "app_down", "app_force", "app_wait", "app_delete", "app_gone"} =>
       (replicas = Replicas => old \subseteq listed)
  /\ pc \in {"scale_up", "wait_up", "wait_ready", "app_ready"} \/ outcome = "ok" =>
       (replicas = Replicas => old = {})

\* Nobody scales the set to anything but what it had, once it is being scaled back to that.
ScaledBack ==
  pc \in {"wait_up", "wait_ready", "app_ready"} \/ outcome = "ok" =>
    (replicas = Replicas => spec = Replicas)

-----------------------------------------------------------------------------
\* As long as nothing has timed out.

\* delete_app_data() raises at the first pod of a set that has no claims, and has by then
\* scaled it to zero: there is nothing to scale back to any more.
Lost ==
  /\ ~HasTemplates /\ operator = "absent"
  /\ spec = 0 /\ pods = {} /\ status.replicas = 0
  /\ outcome # "ok"
  /\ pc \in {"idle", "scale_down", "wait_down", "delete", "scale_up", "wait_up", "wait_ready"}
  /\ pc # "idle" => replicas = 0

Bound(S) == HasTemplates => \A i \in S : claims[i] = "bound"

\* Before the set is scaled down it is whole, unless the operator is rolling its brokers,
\* and the published status is not one of an empty set.
Whole ==
  pc \in {"idle", "scale_down", "app_claims", "app_down"} =>
    /\ spec = Replicas
    /\ Bound(Ordinals)
    /\ kpc # "restart" => pods = Ordinals
    /\ kpc \notin {"restart", "running"} => status.replicas # 0
    /\ pc # "idle" => replicas = Replicas
    /\ pc \in {"app_claims", "app_down"} => listed = Ordinals

\* Until it is scaled back, an empty status is one of an empty set, which stays empty, and
\* the claims still to be deleted are there.
Down ==
  pc \in {"wait_down", "delete", "wait_claim", "scale_up",
          "app_force", "app_wait", "app_delete", "app_gone"} =>
    /\ spec = 0 /\ replicas = Replicas
    /\ status.replicas = 0 => pods = {}
    /\ pc \in {"wait_down", "app_force", "app_wait"} => Bound(Ordinals)
    /\ pc \in {"app_force", "app_wait"} => listed = Ordinals
    /\ pc \in {"delete", "wait_claim", "scale_up", "app_delete", "app_gone"} => status.replicas = 0
    /\ pc = "delete" => Bound(next .. Replicas - 1)
    /\ pc = "wait_claim" => Bound((next + 1) .. Replicas - 1)
    /\ pc = "app_delete" => Bound(listed)
    /\ pc = "app_gone" => Bound(listed \ {next})

\* From then on a status of a set with all its pods is one of the set as it is now.
Back ==
  pc \in {"wait_up", "wait_ready", "app_ready"} =>
    /\ spec = Replicas /\ replicas = Replicas
    /\ Bound(pods)
    /\ status.replicas = Replicas => pods = Ordinals
    /\ status.ready = Replicas => ready = Ordinals
    /\ pc = "wait_ready" => status.replicas = Replicas

\* The operator rolls brokers in the call that asks for the listener and at no other time.
Exposure ==
  /\ kpc \in {"patch", "restart", "running"} \/ (kpc = "idle" /\ operator # "absent") => opSpec = 1
  /\ wanted /\ ~exposed => kpc = "restart"
  /\ exposed /\ kpc # "restart" => pods \subseteq listening
  /\ kpc \in {"patch", "restart"} => noted = Replicas
  /\ kpc = "patch" => ~exposed /\ fresh = {}
  /\ kpc = "restart" => fresh \subseteq listening /\ (exposed \/ (fresh = {} /\ pods = Ordinals))
  /\ kpc = "running" \/ kout = "client" => exposed

Alive ==
  /\ outcome # "raised"
  /\ outcome = "ok" => ready = Ordinals
  /\ Whole /\ Down /\ Back /\ Exposure

Undisturbed == timeouts = MaxTimeouts => Lost \/ Alive

Inv == TypeOK /\ CallsNest /\ OldClaims /\ ScaledBack /\ Undisturbed

-----------------------------------------------------------------------------
\* Counting the pods of a set.
LEMMA OrdinalsCounted ==
  /\ Replicas \in Nat \ {0}
  /\ Ordinals = {i \in Int : 0 <= i /\ i < Replicas}
  /\ IsFiniteSet(Ordinals)
  /\ Cardinality(Ordinals) = Replicas
<1>1. Replicas \in Nat \ {0}
  BY ResetAssumption
<1>2. 0 \in Int /\ Replicas - 1 \in Int
  BY <1>1
<1>3. IsFiniteSet(0 .. (Replicas - 1)) /\ Cardinality(0 .. (Replicas - 1)) = Replicas
  BY <1>1, <1>2, FS_Interval
<1> QED
  BY <1>1, <1>3 DEF Ordinals

LEMMA PodsCounted ==
  ASSUME NEW S \in SUBSET Ordinals
  PROVE  /\ Cardinality(S) \in 0..Replicas
         /\ Cardinality(S) = Replicas <=> S = Ordinals
         /\ Cardinality(S) = 0 <=> S = {}
         /\ \A T \in SUBSET S : Cardinality(T) <= Cardinality(S)
<1>1. IsFiniteSet(S) /\ Cardinality(S) <= Replicas /\ (Cardinality(S) = Replicas => S = Ordinals)
  BY FS_Subset, OrdinalsCounted
<1>2. Cardinality(S) \in Nat
  BY <1>1, FS_CardinalityType
<1>3. Cardinality(S) = 0 <=> S = {}
  BY <1>1, FS_EmptySet
<1>4. \A T \in SUBSET S : Cardinality(T) <= Cardinality(S)
  BY <1>1, FS_Subset
<1> QED
  BY <1>1, <1>2, <1>3, <1>4, OrdinalsCounted

LEMMA InvInit == KInit => Inv
<1> SUFFICES ASSUME KInit PROVE Inv
  OBVIOUS
<1> USE OrdinalsCounted, ResetAssumption DEF KInit, Init
<1>1. TypeOK
  <2>1. SetTypes
    BY DEF SetTypes
  <2>2. ClientTypes
    BY DEF ClientTypes, Labels
  <2>3. PluginTypes
    <3>1. opSpec \in {0, 1}
      <4>1. CASE operator = "absent"
        BY <4>1
      <4>2. CASE operator # "absent"
        BY <4>2
      <4> QED BY <4>1, <4>2
    <3>2. noted \in 0..Replicas
      OBVIOUS
    <3>3. wanted \in BOOLEAN /\ exposed \in BOOLEAN
      OBVIOUS
    <3>4. operator \in {"absent", "running", "ending", "none"}
      OBVIOUS
    <3> QED BY <3>1, <3>2, <3>3, <3>4 DEF PluginTypes, PluginLabels
  <2>4. BrokerTypes
    BY DEF BrokerTypes
  <2> QED BY <2>1, <2>2, <2>3, <2>4 DEF TypeOK
<1>2. CallsNest /\ OldClaims /\ ScaledBack
  BY DEF CallsNest, AppLabels, OldClaims, ScaledBack
<1>3. Alive
  BY DEF Alive, Whole, Down, Back, Exposure, Bound
<1> QED
  BY <1>1, <1>2, <1>3 DEF Inv, Undisturbed

-----------------------------------------------------------------------------
\* The types.  A step of the client keeps them ...
LEMMA ClientKeepsTypes ==
  ASSUME TypeOK, OldClaims, (ReadSpec /\ UNCHANGED listed) \/ AppList \/ Client
  PROVE  SetTypes' /\ ClientTypes'
<1> USE DEF ReadSpec, AppList, Client, ScaleDown, WaitDown, WaitDownTimeout, DeleteClaim, WaitClaim,
            WaitClaimTimeout, AllDeleted, ScaleUp, WaitUp, WaitUpTimeout, WaitReady, WaitReadyTimeout,
            InVain, AppClaims, AppDown, AppForce, AppWait, AppWaitTimeout, AppDelete, AppGone, AppUp,
            AppReady, Scale, Passes, TimesOut, Return, Raise, clusterVars
<1>1. timeouts' \in 0..MaxTimeouts
  BY ResetAssumption DEF TypeOK, ClientTypes
<1>2. /\ UNCHANGED status
      /\ UNCHANGED <<pods, ready>> \/ (pods' = {} /\ ready' = {})
  OBVIOUS
<1>3. spec' \in {spec, 0, replicas}
  OBVIOUS
<1>4. claims' = claims \/ \E i \in Ordinals : claims' = [claims EXCEPT ![i] = "terminating"]
  <2>1. CASE DeleteClaim
    <3>1. next < ToDelete => next \in Ordinals
      BY OrdinalsCounted DEF TypeOK, ClientTypes, ToDelete
    <3> QED BY <2>1, <3>1
  <2>2. CASE AppDelete
    BY <2>2 DEF TypeOK, ClientTypes
  <2>3. CASE ~DeleteClaim /\ ~AppDelete
    BY <2>3
  <2> QED BY <2>1, <2>2, <2>3
<1>5. claims' \in [Ordinals -> {"none", "bound", "terminating"}]
  BY <1>4 DEF TypeOK, SetTypes
<1>6. SetTypes'
  <2> HIDE DEF Client, ReadSpec, AppList
  <2>1. spec' \in 0..Replicas
    BY <1>3, OrdinalsCounted DEF TypeOK, SetTypes, ClientTypes
  <2>2. pods' \in SUBSET Ordinals /\ ready' \in SUBSET pods'
    BY <1>2 DEF TypeOK, SetTypes
  <2> QED BY <1>2, <1>5, <2>1, <2>2 DEF TypeOK, SetTypes
<1>7. old' \in SUBSET Ordinals /\ listed' \in SUBSET Ordinals
  BY DEF TypeOK, SetTypes, ClientTypes
<1>8. pc' \in Labels /\ outcome' \in {"none", "ok", "raised"}
  BY DEF TypeOK, ClientTypes, Labels
<1>9. replicas' \in {replicas, spec, Cardinality(pods)}
  OBVIOUS
<1>10. Cardinality(pods) \in 0..Replicas
  BY PodsCounted DEF TypeOK, SetTypes
<1>11. next' \in 0..Replicas
  <2>1. CASE WaitClaim
    BY <2>1, OrdinalsCounted DEF TypeOK, ClientTypes, OldClaims, ToDelete
  <2>2. CASE AppDelete
    BY <2>2, OrdinalsCounted DEF TypeOK, ClientTypes
  <2>3. CASE ~WaitClaim /\ ~AppDelete
    BY <2>3, OrdinalsCounted DEF TypeOK, ClientTypes
  <2> QED BY <2>1, <2>2, <2>3
<1> QED
  BY <1>1, <1>6, <1>7, <1>8, <1>9, <1>10, <1>11 DEF TypeOK, SetTypes, ClientTypes

\* ... so does one of the set's controllers ...
LEMMA ControllersKeepTypes ==
  ASSUME TypeOK, NEW i \in Ordinals, Controllers(i)
  PROVE  SetTypes' /\ ClientTypes'
<1> USE DEF Controllers, CreatePod, PodReady, DeletePod, RemoveClaim, clientVars
<1>1. /\ UNCHANGED <<spec, status>>
      /\ pods' \in SUBSET Ordinals /\ ready' \in SUBSET pods'
      /\ claims' \in [Ordinals -> {"none", "bound", "terminating"}]
  BY DEF TypeOK, SetTypes
<1>2. UNCHANGED <<pc, replicas, next, listed, outcome, timeouts>> /\ old' \in {old, old \ {i}}
  OBVIOUS
<1> QED
  BY <1>1, <1>2 DEF TypeOK, SetTypes, ClientTypes

LEMMA PublishKeepsTypes ==
  ASSUME TypeOK, PublishStatus
  PROVE  SetTypes' /\ ClientTypes'
<1>1. /\ Cardinality(pods) \in 0..Replicas /\ Cardinality(ready) \in 0..Replicas
      /\ Cardinality(ready) <= Cardinality(pods)
  BY PodsCounted DEF TypeOK, SetTypes
<1> QED
  BY <1>1 DEF PublishStatus, clientVars, TypeOK, SetTypes, ClientTypes

\* ... and one of the plugin or the operator.
PluginMove ==
  \/ ClearData \/ Expose \/ AlreadyExposed
  \/ OperatorDown \/ ResetEnds \/ OperatorUp \/ OperatorBack
  \/ Patch \/ AwaitRestart \/ AwaitRunning

LEMMA PluginKeepsTypes ==
  ASSUME TypeOK, PluginMove
  PROVE  TypeOK'
<1> USE DEF PluginMove, ClearData, Expose, AlreadyExposed, OperatorDown, ResetEnds, OperatorUp,
            OperatorBack, Patch, AwaitRestart, AwaitRunning, Begins, KWait, KGoto, KReturn,
            vars, clusterVars, operatorVars, resourceVars, callVars
<1>1. UNCHANGED <<spec, status, pods, ready, claims, pc, next, listed>>
  OBVIOUS
<1>2. /\ timeouts' \in 0..MaxTimeouts
  BY ResetAssumption DEF TypeOK, ClientTypes
<1>3. old' \in {old, {}} /\ replicas' \in {replicas, 0} /\ outcome' \in {outcome, "none"}
  OBVIOUS
<1>4. Cardinality(pods) \in 0..Replicas
  BY PodsCounted DEF TypeOK, SetTypes
<1>5. noted' \in {noted, 0, Cardinality(pods)}
  OBVIOUS
<1>6. /\ UNCHANGED <<operator, exposed, listening>> /\ opSpec' \in {opSpec, 0, 1}
      /\ wanted' \in {wanted, TRUE} /\ fresh' \in {fresh, {}}
  OBVIOUS
<1>7. kpc' \in PluginLabels /\ kout' \in {"none", "raised", "cleared", "client"}
  BY DEF TypeOK, PluginTypes, PluginLabels
<1> HIDE DEF PluginMove
<1>8. SetTypes' /\ BrokerTypes'
  BY <1>1, <1>6 DEF TypeOK, SetTypes, BrokerTypes
<1>9. ClientTypes'
  BY <1>1, <1>2, <1>3, OrdinalsCounted DEF TypeOK, ClientTypes
<1>10. PluginTypes'
  <2>1. noted' \in 0..Replicas
    BY <1>4, <1>5, OrdinalsCounted DEF TypeOK, PluginTypes
  <2>2. opSpec' \in {0, 1} /\ wanted' \in BOOLEAN /\ exposed' \in BOOLEAN
    BY <1>6 DEF TypeOK, PluginTypes
  <2> HIDE DEF ClearData, Expose, AlreadyExposed, OperatorDown, ResetEnds, OperatorUp,
               OperatorBack, Patch, AwaitRestart, AwaitRunning
  <2> QED BY <1>6, <1>7, <2>1, <2>2 DEF TypeOK, PluginTypes
<1> QED
  BY <1>8, <1>9, <1>10 DEF TypeOK

LEMMA OperatorKeepsTypes ==
  ASSUME TypeOK, OperatorPod \/ OperatorStep
  PROVE  TypeOK'
<1> USE DEF OperatorPod, OperatorStep, OperatorScales, OperatorExposes, OperatorRolls,
            vars, clusterVars, operatorVars, resourceVars, callVars
<1>1. /\ UNCHANGED <<status, claims, old, pc, replicas, next, listed, outcome>>
      /\ UNCHANGED <<opSpec, wanted, noted, kpc, kout>>
  OBVIOUS
<1>2. spec' \in {spec, Replicas} /\ exposed' \in {exposed, TRUE}
      /\ operator' \in {operator, "running", "ending", "none"}
  OBVIOUS
<1>3. /\ pods' \in SUBSET pods /\ ready' \in SUBSET pods'
      /\ listening' \in SUBSET pods' /\ fresh' \in SUBSET pods'
  BY DEF TypeOK, SetTypes, BrokerTypes, Brokers
<1>4. timeouts' \in 0..MaxTimeouts
  BY ResetAssumption DEF TypeOK, ClientTypes
<1> HIDE DEF OperatorPod, OperatorStep
<1>5. SetTypes'
  BY <1>1, <1>2, <1>3, OrdinalsCounted DEF TypeOK, SetTypes
<1>6. ClientTypes' /\ PluginTypes'
  BY <1>1, <1>2, <1>4 DEF TypeOK, ClientTypes, PluginTypes
<1> QED
  BY <1>3, <1>5, <1>6 DEF TypeOK, BrokerTypes

LEMMA TypeStep ==
  ASSUME TypeOK, OldClaims, [KNext]_allVars
  PROVE  TypeOK'
<1> USE DEF operatorVars, resourceVars, callVars
<1>1. CASE UNCHANGED allVars
  BY <1>1 DEF allVars, vars, kafkaVars, TypeOK, SetTypes, ClientTypes, PluginTypes, BrokerTypes
<1>2. CASE PluginMove
  BY <1>2, PluginKeepsTypes
<1>3. CASE ResetBegins
  <2>1. SetTypes' /\ ClientTypes'
    BY <1>3, ClientKeepsTypes DEF ResetBegins
  <2>2. PluginTypes' /\ BrokerTypes'
    BY <1>3 DEF ResetBegins, ReadSpec, KGoto, clusterVars, TypeOK, PluginTypes, BrokerTypes, PluginLabels
  <2> QED BY <2>1, <2>2 DEF TypeOK
<1>4. CASE Reset
  <2>1. SetTypes' /\ ClientTypes'
    BY <1>4, ClientKeepsTypes DEF Reset
  <2>2. PluginTypes' /\ BrokerTypes'
    BY <1>4 DEF Reset, Brokers, TypeOK, PluginTypes, BrokerTypes
  <2> QED BY <2>1, <2>2 DEF TypeOK
<1>5. CASE OperatorPod \/ OperatorStep
  BY <1>5, OperatorKeepsTypes
<1>6. ASSUME NEW i \in Ordinals, Kubernetes(i) PROVE TypeOK'
  <2>1. SetTypes' /\ ClientTypes'
    BY <1>6, ControllersKeepTypes DEF Kubernetes
  <2>2. PluginTypes' /\ BrokerTypes'
    BY <1>6 DEF Kubernetes, Brokers, TypeOK, PluginTypes, BrokerTypes
  <2> QED BY <2>1, <2>2 DEF TypeOK
<1>7. CASE Publish
  <2>1. SetTypes' /\ ClientTypes'
    BY <1>7, PublishKeepsTypes DEF Publish
  <2>2. PluginTypes' /\ BrokerTypes'
    BY <1>7 DEF Publish, PublishStatus, kafkaVars, TypeOK, PluginTypes, BrokerTypes
  <2> QED BY <2>1, <2>2 DEF TypeOK
<1> QED
  BY <1>1, <1>2, <1>3, <1>4, <1>5, <1>6, <1>7 DEF KNext, PluginStep, PluginMove

-----------------------------------------------------------------------------
\* How calls nest.
LEMMA NestStep ==
  ASSUME TypeOK, CallsNest, [KNext]_allVars
  PROVE  CallsNest'
<1> USE DEF operatorVars, resourceVars, callVars, clusterVars, clientVars
<1>1. CASE UNCHANGED allVars
  BY <1>1 DEF allVars, vars, kafkaVars, CallsNest
<1>2. CASE PluginMove
  <2> USE DEF PluginMove, ClearData, Expose, AlreadyExposed, OperatorDown, ResetEnds, OperatorUp,
              OperatorBack, Patch, AwaitRestart, AwaitRunning, Begins, KWait, KGoto, KReturn, vars
  <2>1. /\ UNCHANGED <<pc, operator, exposed>>
        /\ operator = "absent" => UNCHANGED <<opSpec, wanted>> /\ kpc' = "idle" /\ kout' = "none"
    BY <1>2 DEF CallsNest
  <2>2. /\ pc' # "idle" => outcome' = "none" /\ (kpc' = "resetting" \/ operator = "absent")
        /\ kpc' # "idle" => kout' = "none"
        /\ kpc' # "resetting"
    BY <1>2 DEF CallsNest
  <2>3. /\ kpc' \in {"op_up", "op_wait"} \/ kout' = "cleared" => outcome' = "ok"
        /\ kpc' = "op_wait" \/ kout' = "cleared" => opSpec' = 1
    BY <1>2 DEF CallsNest
  <2>4. /\ kpc' \notin {"patch", "restart"} => fresh' = {}
        /\ kpc' \in {"patch", "restart", "running"} => outcome' = "none"
    BY <1>2 DEF CallsNest
  <2> HIDE DEF PluginMove
  <2> QED BY <2>1, <2>2, <2>3, <2>4 DEF CallsNest
<1>3. CASE ResetBegins
  BY <1>3 DEF ResetBegins, ReadSpec, KGoto, CallsNest, AppLabels
<1>4. CASE Reset
  <2>1. UNCHANGED <<operator, opSpec, wanted, exposed, kpc, kout>>
    BY <1>4 DEF Reset
  <2>2. operator = "absent" \/ (pc # "idle" /\ kpc = "resetting")
    BY <1>4 DEF Reset, CallsNest, Client, ScaleDown, WaitDown, WaitDownTimeout, DeleteClaim, WaitClaim,
            WaitClaimTimeout, AllDeleted, ScaleUp, WaitUp, WaitUpTimeout, WaitReady, WaitReadyTimeout,
            InVain, AppClaims, AppDown, AppForce, AppWait, AppWaitTimeout, AppDelete, AppGone, AppUp,
            AppReady, Scale, Passes, TimesOut
  <2>3. /\ pc' # "idle" => outcome' = "none"
        /\ pc' = "idle" => outcome' # "none"
        /\ pc' \in AppLabels => operator = "absent"
    BY <1>4 DEF AppLabels, Reset, CallsNest, ReadSpec, AppList, Client, ScaleDown, WaitDown, WaitDownTimeout,
            DeleteClaim, WaitClaim, WaitClaimTimeout, AllDeleted, ScaleUp, WaitUp, WaitUpTimeout,
            WaitReady, WaitReadyTimeout, InVain, AppClaims, AppDown, AppForce, AppWait, AppWaitTimeout,
            AppDelete, AppGone, AppUp, AppReady, Scale, Passes, TimesOut, Return, Raise
  <2>4. kpc \notin {"patch", "restart"} => fresh' = {}
    BY <1>4 DEF Reset, Brokers
  <2> QED BY <2>1, <2>2, <2>3, <2>4 DEF CallsNest
<1>5. CASE OperatorPod \/ OperatorStep \/ Publish \/ \E i \in Ordinals : Kubernetes(i)
  <2>1. UNCHANGED <<opSpec, wanted, kpc, kout, pc, outcome>>
    BY <1>5 DEF OperatorPod, OperatorStep, OperatorScales, OperatorExposes, OperatorRolls, Publish,
            PublishStatus, Kubernetes, Controllers, CreatePod, PodReady, DeletePod, RemoveClaim,
            vars, kafkaVars
  <2>2. /\ operator' = "absent" <=> operator = "absent"
        /\ exposed' = exposed \/ wanted
    BY <1>5 DEF OperatorPod, OperatorStep, OperatorScales, OperatorExposes, OperatorRolls, Publish,
            PublishStatus, Kubernetes, vars, kafkaVars
  <2>3. kpc \notin {"patch", "restart"} => fresh' = {}
    BY <1>5 DEF OperatorPod, OperatorStep, OperatorScales, OperatorExposes, OperatorRolls, Publish,
            PublishStatus, Kubernetes, Brokers, vars, kafkaVars, CallsNest
  <2> QED BY <2>1, <2>2, <2>3 DEF CallsNest
<1> QED
  BY <1>1, <1>2, <1>3, <1>4, <1>5 DEF KNext, PluginStep, PluginMove

\* Which claims are left from before a call.
LEMMA ClientKeepsOld ==
  ASSUME TypeOK, CallsNest, OldClaims, (ReadSpec /\ UNCHANGED listed) \/ AppList \/ Client
  PROVE  OldClaims'
<1> USE DEF clusterVars, Return, Raise, Scale, Passes, TimesOut
<1>1. /\ \/ UNCHANGED <<old, claims>>
         \/ UNCHANGED claims /\ old' = {i \in Ordinals : claims[i] # "none"}
         \/ /\ UNCHANGED old
            /\ \E i \in Ordinals : claims[i] # "none" /\ claims' = [claims EXCEPT ![i] = "terminating"]
  <2>1. CASE DeleteClaim
    <3>1. next < ToDelete => next \in Ordinals
      BY OrdinalsCounted DEF TypeOK, ClientTypes, ToDelete
    <3> QED BY <2>1, <3>1 DEF DeleteClaim
  <2>2. CASE AppDelete
    BY <2>2 DEF AppDelete, TypeOK, ClientTypes
  <2>3. CASE ~DeleteClaim /\ ~AppDelete
    BY <2>3 DEF ReadSpec, AppList, Client, ScaleDown, WaitDown, WaitDownTimeout, WaitClaim,
            WaitClaimTimeout, AllDeleted, ScaleUp, WaitUp, WaitUpTimeout, WaitReady, WaitReadyTimeout,
            InVain, AppClaims, AppDown, AppForce, AppWait, AppWaitTimeout, AppGone, AppUp, AppReady
  <2> QED BY <2>1, <2>2, <2>3
<1>2. /\ \A i \in old' : claims'[i] # "none"
      /\ ~HasTemplates => \A i \in Ordinals : claims'[i] = "none"
  BY <1>1 DEF TypeOK, SetTypes, ClientTypes, OldClaims
<1> DEFINE Deleting == {"delete", "wait_claim"}
           InApp == {"app_claims", "app_down", "app_force", "app_wait", "app_delete", "app_gone"}
           Returning == {"scale_up", "wait_up", "wait_ready", "app_ready"}
<1> SUFFICES /\ pc' \in {"idle", "scale_down", "wait_down"} => next' = 0
             /\ pc' = "delete" => next' <= ToDelete'
             /\ pc' = "wait_claim" => next' < ToDelete'
             /\ pc' = "app_gone" => next' \in Ordinals
             /\ pc' \in Deleting => \A i \in old' : i >= next'
             /\ pc' = "app_claims" => replicas' = Cardinality(listed')
             /\ pc' \in InApp => (replicas' = Replicas => old' \subseteq listed')
             /\ pc' \in Returning \/ outcome' = "ok" => (replicas' = Replicas => old' = {})
  BY <1>2 DEF OldClaims
<1>3. CASE ReadSpec \/ ScaleDown
  BY <1>3 DEF ReadSpec, ScaleDown, OldClaims, CallsNest
<1>4. CASE WaitDown
  BY <1>4, OrdinalsCounted DEF WaitDown, OldClaims, CallsNest, TypeOK, ClientTypes, ToDelete
<1>5. CASE DeleteClaim
  BY <1>5 DEF DeleteClaim, OldClaims, CallsNest, ToDelete
<1>6. CASE WaitClaim
  <2>1. next \notin old
    BY <1>6 DEF WaitClaim, IsDeleted, OldClaims
  <2> QED BY <1>6, <2>1, OrdinalsCounted
          DEF WaitClaim, OldClaims, CallsNest, TypeOK, ClientTypes, ToDelete
<1>7. CASE AllDeleted
  <2>1. replicas = Replicas => old = {}
    BY <1>7, OrdinalsCounted DEF AllDeleted, OldClaims, TypeOK, ClientTypes, ToDelete
  <2> QED BY <1>7, <2>1 DEF AllDeleted, CallsNest
<1>8. CASE ScaleUp \/ WaitUp \/ WaitReady
  BY <1>8 DEF ScaleUp, WaitUp, WaitReady, OldClaims, CallsNest
<1>9. CASE \/ WaitDownTimeout \/ WaitClaimTimeout \/ WaitUpTimeout \/ WaitReadyTimeout \/ InVain
           \/ AppWaitTimeout
  BY <1>9 DEF WaitDownTimeout, WaitClaimTimeout, WaitUpTimeout, WaitReadyTimeout, InVain, AppWaitTimeout
<1>10. CASE AppList
  <2>1. replicas' = Replicas /\ pc' = "app_claims" => old' \subseteq listed'
    BY <1>10, PodsCounted DEF AppList, TypeOK, SetTypes
  <2> QED BY <1>10, <2>1 DEF AppList
<1>11. CASE AppClaims \/ AppDown \/ AppForce \/ AppWait
  BY <1>11 DEF AppClaims, AppDown, AppForce, AppWait, OldClaims, CallsNest
<1>12. CASE AppDelete
  BY <1>12 DEF AppDelete, OldClaims, CallsNest, TypeOK, ClientTypes
<1>13. CASE AppGone
  <2>1. next \notin old
    BY <1>13 DEF AppGone, IsDeleted, OldClaims
  <2> QED BY <1>13, <2>1 DEF AppGone, OldClaims, CallsNest
<1>14. CASE AppUp \/ AppReady
  BY <1>14 DEF AppUp, AppReady, OldClaims, CallsNest
<1> QED
  BY <1>3, <1>4, <1>5, <1>6, <1>7, <1>8, <1>9, <1>10, <1>11, <1>12, <1>13, <1>14 DEF Client

LEMMA OldStep ==
  ASSUME TypeOK, CallsNest, OldClaims, [KNext]_allVars
  PROVE  OldClaims'
<1> USE DEF operatorVars, resourceVars, callVars, clusterVars, clientVars
<1>1. CASE UNCHANGED allVars
  BY <1>1 DEF allVars, vars, OldClaims, ToDelete
<1>2. CASE PluginMove
  <2>1. /\ UNCHANGED <<pc, claims, next, listed>>
        /\ UNCHANGED <<old, replicas, outcome>> \/ (old' = {} /\ pc = "idle")
    BY <1>2 DEF PluginMove, ClearData, Expose, AlreadyExposed, OperatorDown, ResetEnds, OperatorUp,
           OperatorBack, Patch, AwaitRestart, AwaitRunning, Begins, KWait, vars
  <2> QED BY <2>1 DEF OldClaims, ToDelete
<1>3. CASE OperatorPod \/ OperatorStep \/ Publish
  <2>1. UNCHANGED <<pc, claims, next, listed, old, replicas, outcome>>
    BY <1>3 DEF OperatorPod, OperatorStep, OperatorScales, OperatorExposes, OperatorRolls, Publish,
           PublishStatus, vars
  <2> QED BY <2>1 DEF OldClaims, ToDelete
<1>4. ASSUME NEW i \in Ordinals, Kubernetes(i) PROVE OldClaims'
  <2>1. UNCHANGED <<pc, next, listed, replicas, outcome>> /\ old' \in SUBSET old
    BY <1>4 DEF Kubernetes, Controllers, CreatePod, PodReady, DeletePod, RemoveClaim
  <2>2. (\A j \in old' : claims'[j] # "none") /\ (~HasTemplates => \A j \in Ordinals : claims'[j] = "none")
    BY <1>4 DEF Kubernetes, Controllers, CreatePod, PodReady, DeletePod, RemoveClaim, OldClaims,
           TypeOK, SetTypes, ClientTypes
  <2> QED BY <2>1, <2>2 DEF OldClaims, ToDelete
<1>5. CASE ResetBegins \/ Reset
  BY <1>5, ClientKeepsOld DEF ResetBegins, Reset
<1> QED
  BY <1>1, <1>2, <1>3, <1>4, <1>5 DEF KNext, PluginStep, PluginMove

\* Once the set is scaled back, its operator scales it to the same number.
LEMMA ScaledStep ==
  ASSUME TypeOK, CallsNest, ScaledBack, [KNext]_allVars
  PROVE  ScaledBack'
<1> USE DEF operatorVars, resourceVars, callVars, clusterVars, clientVars
<1>1. CASE UNCHANGED allVars
  BY <1>1 DEF allVars, vars, ScaledBack
<1>2. CASE PluginMove
  <2>1. /\ UNCHANGED <<pc, spec>>
        /\ UNCHANGED <<replicas, outcome>> \/ (pc = "idle" /\ outcome' = "none")
    BY <1>2 DEF PluginMove, ClearData, Expose, AlreadyExposed, OperatorDown, ResetEnds, OperatorUp,
           OperatorBack, Patch, AwaitRestart, AwaitRunning, Begins, KWait, vars
  <2> QED BY <2>1 DEF ScaledBack
<1>3. CASE OperatorPod \/ OperatorStep \/ Publish \/ \E i \in Ordinals : Kubernetes(i)
  <2>1. UNCHANGED <<pc, replicas, outcome>> /\ spec' \in {spec, Replicas}
    BY <1>3 DEF OperatorPod, OperatorStep, OperatorScales, OperatorExposes, OperatorRolls, Publish,
           PublishStatus, Kubernetes, Controllers, CreatePod, PodReady, DeletePod, RemoveClaim, vars
  <2> QED BY <2>1 DEF ScaledBack
<1>4. CASE ResetBegins \/ Reset
  <2>1. \/ ReadSpec \/ AppList \/ Client
    BY <1>4 DEF ResetBegins, Reset
  <2>2. CASE ReadSpec \/ AppList \/ WaitUp \/ WaitReady \/ AppReady
    BY <2>2 DEF ReadSpec, AppList, WaitUp, WaitReady, AppReady, Passes, Return, CallsNest, ScaledBack
  <2>3. CASE ScaleUp \/ AppUp
    BY <2>3 DEF ScaleUp, AppUp, Scale, CallsNest, ScaledBack
  <2>4. CASE Client /\ ~(WaitUp \/ WaitReady \/ AppReady \/ ScaleUp \/ AppUp)
    <3>1. pc' \notin {"wait_up", "wait_ready", "app_ready"} /\ outcome' \in {outcome, "raised"} /\ pc # "idle"
      BY <2>4 DEF Client, ScaleDown, WaitDown, WaitDownTimeout, DeleteClaim, WaitClaim,
            WaitClaimTimeout, AllDeleted, WaitUpTimeout, WaitReadyTimeout,
            InVain, AppClaims, AppDown, AppForce, AppWait, AppWaitTimeout, AppDelete, AppGone,
            Scale, Passes, TimesOut, Return, Raise
    <3> QED BY <3>1 DEF CallsNest, ScaledBack
  <2> QED BY <2>1, <2>2, <2>3, <2>4
<1> QED
  BY <1>1, <1>2, <1>3, <1>4 DEF KNext, PluginStep, PluginMove

-----------------------------------------------------------------------------
\* No timeout comes back.
LEMMA TimeoutsAreSpent ==
  ASSUME TypeOK, [KNext]_allVars, timeouts' = MaxTimeouts
  PROVE  timeouts = MaxTimeouts /\ UNCHANGED timeouts
<1>1. timeouts' \in {timeouts, timeouts - 1}
  <2>1. CASE UNCHANGED allVars
    BY <2>1 DEF allVars, vars
  <2>2. CASE PluginMove
    BY <2>2 DEF PluginMove, ClearData, Expose, AlreadyExposed, OperatorDown, ResetEnds, OperatorUp,
           OperatorBack, Patch, AwaitRestart, AwaitRunning, Begins, KWait, vars
  <2>3. CASE OperatorPod \/ OperatorStep \/ Publish \/ \E i \in Ordinals : Kubernetes(i)
    BY <2>3 DEF OperatorPod, OperatorStep, OperatorScales, OperatorExposes, OperatorRolls, Publish,
           PublishStatus, Kubernetes, Controllers, CreatePod, PodReady, DeletePod, RemoveClaim,
           vars, clientVars
  <2>4. CASE ReadSpec \/ AppList \/ Client
    BY <2>4 DEF ReadSpec, AppList, Client, ScaleDown, WaitDown, WaitDownTimeout, DeleteClaim, WaitClaim,
            WaitClaimTimeout, AllDeleted, ScaleUp, WaitUp, WaitUpTimeout, WaitReady, WaitReadyTimeout,
            InVain, AppClaims, AppDown, AppForce, AppWait, AppWaitTimeout, AppDelete, AppGone, AppUp,
            AppReady, Scale, Passes, TimesOut
  <2> QED BY <2>1, <2>2, <2>3, <2>4 DEF KNext, PluginStep, PluginMove, ResetBegins, Reset
<1> QED
  BY <1>1, ResetAssumption DEF TypeOK, ClientTypes

\* A set that is lost stays so: there are no pods, and none is asked for.
LEMMA LostStep ==
  ASSUME TypeOK, CallsNest, OldClaims, Lost, [KNext]_allVars, UNCHANGED timeouts
  PROVE  Lost'
<1>1. status.ready = 0 /\ ready = {}
  BY OrdinalsCounted DEF Lost, TypeOK, SetTypes
<1>2. CASE UNCHANGED allVars
  BY <1>2 DEF allVars, vars, kafkaVars, Lost
<1>3. ~PluginMove /\ ~ResetBegins /\ ~OperatorPod /\ ~OperatorStep
  BY DEF Lost, CallsNest, PluginMove, ClearData, Expose, AlreadyExposed, OperatorDown, ResetEnds,
         OperatorUp, OperatorBack, Patch, AwaitRestart, AwaitRunning, Begins, KWait, ResetBegins,
         OperatorPod, OperatorStep, OperatorScales, OperatorExposes, OperatorRolls, Acts
<1>4. CASE Reset
  <2>1. UNCHANGED <<operator, status>> /\ pods' = {}
    BY <1>4 DEF Reset, Lost, operatorVars, clusterVars, ReadSpec, AppList, Client, ScaleDown, WaitDown,
            WaitDownTimeout, DeleteClaim, WaitClaim, WaitClaimTimeout, AllDeleted, ScaleUp, WaitUp,
            WaitUpTimeout, WaitReady, WaitReadyTimeout, InVain, AppClaims, AppDown, AppForce, AppWait,
            AppWaitTimeout, AppDelete, AppGone, AppUp, AppReady, Scale, Passes, TimesOut
  <2>2. ToDelete = 0 /\ ~IsStatefulSetReady
    BY <1>1 DEF Lost, ToDelete, IsStatefulSetReady
  <2>3. \/ ReadSpec \/ AppList \/ ScaleDown \/ WaitDown \/ AllDeleted \/ ScaleUp \/ WaitUp \/ InVain
    BY <1>4, <2>2, OrdinalsCounted, ResetAssumption
       DEF Reset, Lost, Client, WaitDownTimeout, DeleteClaim, WaitClaim,
           WaitClaimTimeout, WaitUpTimeout, WaitReady, WaitReadyTimeout, AppClaims, AppDown, AppForce,
           AppWait, AppWaitTimeout, AppDelete, AppGone, AppUp, AppReady, Scale, Passes, TimesOut,
           TypeOK, ClientTypes
  <2>4. /\ spec' = 0 /\ outcome' # "ok"
        /\ pc' \in {"idle", "scale_down", "wait_down", "delete", "scale_up", "wait_up", "wait_ready"}
        /\ pc' # "idle" => replicas' = 0
    BY <2>3 DEF Lost, ReadSpec, AppList, ScaleDown, WaitDown, AllDeleted, ScaleUp, WaitUp, InVain,
                Scale, Passes, Return, Raise
  <2> QED BY <2>1, <2>4 DEF Lost
<1>5. ASSUME NEW i \in Ordinals, Kubernetes(i) PROVE Lost'
  <2>1. ~CreatePod(i) /\ ~PodReady(i) /\ ~DeletePod(i)
    BY OrdinalsCounted DEF CreatePod, PodReady, DeletePod, Lost
  <2>2. RemoveClaim(i)
    BY <1>5, <2>1 DEF Kubernetes, Controllers
  <2> QED BY <1>5, <2>2 DEF Kubernetes, RemoveClaim, Lost, clientVars, operatorVars
<1>6. CASE Publish
  <2>1. Cardinality(pods) = 0
    BY PodsCounted DEF Lost, TypeOK, SetTypes
  <2> QED BY <1>6, <2>1 DEF Publish, PublishStatus, clientVars, kafkaVars, Lost
<1> QED
  BY <1>2, <1>3, <1>4, <1>5, <1>6 DEF KNext, PluginStep, PluginMove

\* The plugin finds the set whole when it begins, and the operator scaled up.
LEMMA PluginKeepsAlive ==
  ASSUME TypeOK, CallsNest, Alive, PluginMove, UNCHANGED timeouts
  PROVE  Alive'
<1> USE OrdinalsCounted DEF Begins, KGoto, KReturn, vars, clusterVars, operatorVars, resourceVars, callVars
<1>1. /\ pc = "idle"
      /\ UNCHANGED <<spec, status, pods, ready, claims, pc, operator, exposed, listening>>
      /\ outcome' \in {outcome, "none"}
  BY DEF PluginMove, ClearData, Expose, AlreadyExposed, OperatorDown, ResetEnds, OperatorUp,
         OperatorBack, Patch, AwaitRestart, AwaitRunning, KWait, CallsNest
<1>2. Down' /\ Back' /\ outcome' # "raised" /\ (outcome' = "ok" => ready' = Ordinals)
  BY <1>1 DEF Down, Back, Alive
<1>3. /\ spec = Replicas /\ Bound(Ordinals) /\ Bound(Ordinals)'
      /\ kpc # "restart" => pods = Ordinals
      /\ kpc \notin {"restart", "running"} => status.replicas # 0
  BY <1>1 DEF Alive, Whole, Bound
<1>4. CASE ClearData \/ OperatorDown \/ OperatorUp \/ OperatorBack \/ Patch \/ AlreadyExposed
  <2> USE DEF ClearData, OperatorDown, OperatorUp, OperatorBack, Patch, AlreadyExposed, KWait
  <2>1. Whole'
    BY <1>1, <1>3, <1>4 DEF Whole
  <2>2. Exposure'
    <3>1. CASE Patch
      <4>1. kpc = "patch" /\ kpc' = "restart" /\ UNCHANGED <<opSpec, kout, noted, fresh>>
        BY <3>1
      <4> QED BY <1>1, <1>3, <4>1 DEF Alive, Exposure, CallsNest
    <3>2. CASE ~Patch
      <4>1. /\ kpc' \in {"op_down", "reset", "op_wait", "idle"} /\ UNCHANGED wanted
            /\ kpc \notin {"patch", "restart", "running"}
        BY <1>4, <3>2 DEF TypeOK, ClientTypes
      <4>2. kpc' = "idle" => opSpec' = 1 \/ operator = "absent"
        BY <1>4, <3>2 DEF Alive, Exposure, CallsNest, TypeOK, ClientTypes
      <4>3. kout' = "client" => exposed
        BY <1>4, <3>2 DEF Alive, Exposure, CallsNest, TypeOK, ClientTypes
      <4> QED BY <1>1, <4>1, <4>2, <4>3 DEF Alive, Exposure
    <3> QED BY <3>1, <3>2
  <2> QED BY <1>2, <2>1, <2>2 DEF Alive
<1>5. CASE Expose
  <2>1. Cardinality(pods) = Replicas
    BY <1>3, <1>5 DEF Expose
  <2>2. Whole'
    BY <1>1, <1>3, <1>5 DEF Expose, Whole
  <2>3. Exposure'
    BY <1>1, <1>5, <2>1 DEF Expose, Alive, Exposure, CallsNest
  <2> QED BY <1>2, <2>2, <2>3 DEF Alive
<1>6. CASE ResetEnds
  <2>1. outcome = "ok"
    BY <1>1, <1>6 DEF ResetEnds, CallsNest, Alive, TypeOK, ClientTypes
  <2>2. Whole'
    BY <1>1, <1>3, <1>6, <2>1 DEF ResetEnds, Whole
  <2>3. Exposure'
    BY <1>1, <1>6, <2>1 DEF ResetEnds, Alive, Exposure
  <2> QED BY <1>2, <2>2, <2>3 DEF Alive
<1>7. CASE AwaitRestart
  <2>1. /\ opSpec = 1 /\ noted = Replicas /\ fresh \subseteq listening
        /\ exposed \/ fresh = {}
    BY <1>7 DEF AwaitRestart, KWait, Alive, Exposure
  <2>2. /\ BrokersRestarted
        /\ kpc' = "running" /\ UNCHANGED <<kout, opSpec, wanted>>
    BY <1>7, <2>1 DEF AwaitRestart, KWait, TypeOK, ClientTypes, ResetAssumption
  <2>3. pods = Ordinals /\ fresh = pods
    BY <2>1, <2>2, PodsCounted DEF BrokersRestarted, TypeOK, SetTypes
  <2>4. exposed
    BY <2>1, <2>3
  <2>5. Whole'
    BY <1>1, <1>3, <2>2, <2>3 DEF Whole
  <2>6. Exposure'
    BY <1>1, <2>1, <2>2, <2>3, <2>4 DEF Exposure
  <2> QED BY <1>2, <2>5, <2>6 DEF Alive
<1>8. CASE AwaitRunning
  <2>1. /\ IsStatefulSetReady
        /\ kpc = "running" /\ kpc' = "idle" /\ kout' = "client" /\ UNCHANGED <<opSpec, wanted>>
    BY <1>3, <1>8 DEF AwaitRunning, KWait, TypeOK, ClientTypes
  <2>2. Whole'
    BY <1>1, <1>3, <2>1 DEF Whole, IsStatefulSetReady
  <2>3. Exposure'
    BY <1>1, <2>1 DEF Alive, Exposure
  <2> QED BY <1>2, <2>2, <2>3 DEF Alive
<1> QED
  BY <1>4, <1>5, <1>6, <1>7, <1>8 DEF PluginMove

\* The operator has nothing to scale, and brokers to roll only when they are waited for.
LEMMA OperatorKeepsAlive ==
  ASSUME TypeOK, CallsNest, Alive, OperatorPod \/ OperatorStep, UNCHANGED timeouts
  PROVE  Alive'
<1> USE DEF vars, clusterVars, operatorVars, resourceVars, callVars
<1>1. CASE OperatorPod
  <2>1. operator' = "absent" <=> operator = "absent"
    BY <1>1 DEF OperatorPod
  <2> QED BY <1>1, <2>1 DEF OperatorPod, Alive, Whole, Down, Back, Exposure, Bound
<1>2. ~OperatorScales
  <2> SUFFICES ASSUME OperatorScales PROVE FALSE
    OBVIOUS
  <2>1. kpc # "resetting"
    BY DEF OperatorScales, TypeOK, ClientTypes
  <2>2. pc = "idle"
    BY <2>1 DEF OperatorScales, Acts, CallsNest
  <2> QED BY <2>2 DEF OperatorScales, Alive, Whole
<1>3. CASE OperatorExposes
  <2>1. kpc = "restart"
    BY <1>3 DEF OperatorExposes, Alive, Exposure
  <2> QED BY <1>3, <2>1 DEF OperatorExposes, Alive, Whole, Down, Back, Exposure, Bound
<1>4. ASSUME NEW i \in Ordinals, OperatorRolls(i) PROVE Alive'
  <2>1. kpc = "restart" /\ exposed /\ fresh \subseteq listening
    BY <1>4 DEF OperatorRolls, Alive, Exposure
  <2>2. pc = "idle" /\ outcome = "none"
    BY <2>1 DEF CallsNest
  <2>3. fresh' = fresh \cap pods' /\ listening' = listening \cap pods'
    BY <1>4, <2>1 DEF OperatorRolls, Brokers
  <2>4. UNCHANGED <<spec, status, claims, pc, outcome, operator, opSpec, wanted, exposed, noted, kpc, kout>>
    BY <1>4 DEF OperatorRolls
  <2>5. Exposure'
    BY <2>1, <2>3, <2>4 DEF Alive, Exposure
  <2>6. Whole' /\ Down' /\ Back'
    BY <2>1, <2>2, <2>4 DEF Alive, Whole, Down, Back, Bound
  <2> QED BY <2>2, <2>4, <2>5, <2>6 DEF Alive
<1> QED
  BY <1>1, <1>2, <1>3, <1>4 DEF OperatorStep

\* The controllers of the set, which lag behind but do nothing else than what is asked.
LEMMA KubernetesKeepsAlive ==
  ASSUME TypeOK, CallsNest, OldClaims, Alive, NEW i \in Ordinals, Kubernetes(i)
  PROVE  Alive'
<1> USE OrdinalsCounted DEF operatorVars, resourceVars, callVars, clientVars
<1>1. /\ UNCHANGED <<spec, status, pc, replicas, next, listed, outcome>>
      /\ UNCHANGED <<operator, opSpec, wanted, exposed, noted, kpc, kout>>
  BY DEF Kubernetes, Controllers, CreatePod, PodReady, DeletePod, RemoveClaim
<1>2. kpc \notin {"patch", "restart"} => fresh = {}
  BY DEF CallsNest
<1>3. pc # "idle" => kpc # "restart" /\ outcome = "none"
  BY DEF CallsNest
<1>4. outcome = "ok" => kpc \notin {"patch", "restart", "running"}
  BY DEF CallsNest
<1>5. CASE CreatePod(i)
  <2>1. i \notin pods /\ pods' = pods \cup {i} /\ UNCHANGED ready /\ i < spec
    BY <1>5 DEF CreatePod
  <2>2. claims' = [claims EXCEPT ![i] = IF HasTemplates THEN "bound" ELSE "none"]
    BY <1>5 DEF CreatePod
  <2>3. \/ pc = "idle" /\ kpc = "restart" /\ exposed
        \/ pc \in {"wait_up", "wait_ready", "app_ready"}
    BY <2>1, <1>3 DEF TypeOK, ClientTypes, Labels, Alive, Whole, Down, Exposure
  <2>4. /\ fresh' = IF kpc = "restart" THEN fresh \cup {i} ELSE {}
        /\ listening' = listening \cup (IF exposed THEN {i} ELSE {})
    BY <1>5, <2>1, <2>3, <1>3 DEF Kubernetes, Brokers, TypeOK, BrokerTypes, CallsNest
  <2>5. Whole' /\ Down'
    BY <1>1, <2>2, <2>3 DEF Alive, Whole, Down, Bound, TypeOK, SetTypes
  <2>6. Back'
    BY <1>1, <2>1, <2>2, <2>3 DEF Alive, Back, Bound, TypeOK, SetTypes
  <2>7. Exposure'
    BY <1>1, <1>3, <2>1, <2>3, <2>4 DEF Alive, Exposure
  <2> QED BY <1>1, <2>1, <2>5, <2>6, <2>7 DEF Alive
<1>6. CASE PodReady(i)
  <2>1. UNCHANGED <<pods, claims>> /\ ready' = ready \cup {i}
    BY <1>6 DEF PodReady
  <2>2. UNCHANGED <<fresh, listening>>
    BY <1>2, <1>6, <2>1 DEF Kubernetes, Brokers, TypeOK, BrokerTypes
  <2>3. Whole' /\ Down'
    BY <1>1, <2>1 DEF Alive, Whole, Down, Bound
  <2>4. Back' /\ (outcome' = "ok" => ready' = Ordinals)
    BY <1>1, <2>1 DEF Alive, Back, Bound
  <2>5. Exposure'
    BY <1>1, <2>1, <2>2 DEF Alive, Exposure
  <2> QED BY <1>1, <2>3, <2>4, <2>5 DEF Alive
<1>7. CASE DeletePod(i)
  <2>1. /\ i \in pods /\ i >= spec /\ UNCHANGED claims
        /\ pods' = pods \ {i} /\ ready' = ready \ {i}
    BY <1>7 DEF DeletePod
  <2>2. pc \notin {"idle", "scale_down", "app_claims", "app_down", "wait_up", "wait_ready", "app_ready"}
    BY <2>1 DEF Alive, Whole, Back
  <2>3. fresh' = {} /\ listening' = listening \cap pods'
    BY <1>3, <1>7, <2>1, <2>2 DEF Kubernetes, Brokers, CallsNest
  <2>4. Whole' /\ Down' /\ Back'
    BY <1>1, <2>1, <2>2 DEF Alive, Whole, Down, Back, Bound
  <2>5. Exposure'
    BY <1>1, <1>3, <2>1, <2>2, <2>3 DEF Alive, Exposure, CallsNest
  <2> QED BY <1>1, <1>3, <2>2, <2>4, <2>5 DEF Alive
<1>8. CASE RemoveClaim(i)
  <2>1. /\ claims[i] = "terminating" /\ i \notin pods /\ UNCHANGED <<pods, ready>>
        /\ claims' = [claims EXCEPT ![i] = "none"]
    BY <1>8 DEF RemoveClaim
  <2>2. HasTemplates
    BY <2>1 DEF OldClaims
  <2>3. \A j \in Ordinals : claims[j] = "bound" => claims'[j] = "bound"
    BY <2>1 DEF TypeOK, SetTypes
  <2>4. UNCHANGED <<fresh, listening>>
    BY <1>2, <1>8, <2>1 DEF Kubernetes, Brokers, TypeOK, BrokerTypes
  <2>5. /\ Bound(Ordinals) => Bound(Ordinals)'
        /\ Bound(pods) => Bound(pods)'
        /\ Bound(listed) => Bound(listed)'
        /\ Bound(listed \ {next}) => Bound(listed \ {next})'
    BY <1>1, <2>1, <2>3 DEF Bound, TypeOK, SetTypes, ClientTypes
  <2>6. /\ Bound(next .. Replicas - 1) => Bound(next .. Replicas - 1)'
        /\ Bound((next + 1) .. Replicas - 1) => Bound((next + 1) .. Replicas - 1)'
    BY <1>1, <2>3 DEF Bound, TypeOK, ClientTypes
  <2>7. Whole' /\ Back'
    BY <1>1, <2>1, <2>5 DEF Alive, Whole, Back
  <2>8. Down'
    BY <1>1, <2>1, <2>5, <2>6 DEF Alive, Down
  <2>9. Exposure'
    BY <1>1, <2>1, <2>4 DEF Alive, Exposure
  <2> QED BY <1>1, <2>1, <2>7, <2>8, <2>9 DEF Alive
<1> QED
  BY <1>5, <1>6, <1>7, <1>8 DEF Kubernetes, Controllers

LEMMA PublishKeepsAlive ==
  ASSUME TypeOK, CallsNest, Alive, Publish
  PROVE  Alive'
<1>1. /\ Cardinality(pods) = Replicas <=> pods = Ordinals
      /\ Cardinality(pods) = 0 <=> pods = {}
      /\ Cardinality(ready) = Replicas <=> ready = Ordinals
  BY PodsCounted DEF TypeOK, SetTypes
<1>2. /\ status'.replicas = Cardinality(pods) /\ status'.ready = Cardinality(ready)
      /\ UNCHANGED <<spec, pods, ready, claims, pc, replicas, next, listed, outcome>>
      /\ UNCHANGED <<operator, opSpec, wanted, exposed, listening, fresh, noted, kpc, kout>>
  BY DEF Publish, PublishStatus, clientVars, kafkaVars
<1>3. Whole'
  BY <1>1, <1>2, OrdinalsCounted DEF Alive, Whole, Bound
<1>4. Down'
  BY <1>1, <1>2 DEF Alive, Down, Bound
<1>5. Back'
  BY <1>1, <1>2 DEF Alive, Back, Bound
<1>6. Exposure'
  BY <1>2 DEF Alive, Exposure
<1> QED
  BY <1>2, <1>3, <1>4, <1>5, <1>6 DEF Alive

\* What is common to the steps of a client: they only end pods, and no plugin is at work
\* on the listener meanwhile.
LEMMA ClientExposure ==
  ASSUME TypeOK, CallsNest, Alive, ResetBegins \/ Reset
  PROVE  /\ Exposure'
         /\ UNCHANGED <<status, operator>>
         /\ {kpc, kpc'} \subseteq {"idle", "reset", "resetting"}
<1> USE DEF operatorVars, resourceVars, callVars, clusterVars
<1>1. CASE ResetBegins
  BY <1>1 DEF ResetBegins, ReadSpec, KGoto, Alive, Exposure
<1>2. CASE Reset
  <2>1. UNCHANGED <<operator, opSpec, wanted, exposed, noted, kpc, kout>>
    BY <1>2 DEF Reset
  <2>2. kpc \in {"idle", "resetting"}
    BY <1>2 DEF Reset, CallsNest, Client, ScaleDown, WaitDown, WaitDownTimeout, DeleteClaim, WaitClaim,
            WaitClaimTimeout, AllDeleted, ScaleUp, WaitUp, WaitUpTimeout, WaitReady, WaitReadyTimeout,
            InVain, AppClaims, AppDown, AppForce, AppWait, AppWaitTimeout, AppDelete, AppGone, AppUp,
            AppReady, Scale, Passes, TimesOut
  <2>3. UNCHANGED status /\ pods' \in {pods, {}}
    BY <1>2 DEF Reset, ReadSpec, AppList, Client, ScaleDown, WaitDown, WaitDownTimeout, DeleteClaim,
            WaitClaim, WaitClaimTimeout, AllDeleted, ScaleUp, WaitUp, WaitUpTimeout, WaitReady,
            WaitReadyTimeout, InVain, AppClaims, AppDown, AppForce, AppWait, AppWaitTimeout, AppDelete,
            AppGone, AppUp, AppReady, Scale, Passes, TimesOut
  <2>4. exposed /\ pods \subseteq listening => pods' \subseteq listening'
    BY <1>2, <2>3 DEF Reset, Brokers
  <2> QED BY <2>1, <2>2, <2>3, <2>4 DEF Alive, Exposure
<1> QED
  BY <1>1, <1>2

\* delete_stateful_set_data() on a set that nothing has disturbed.
LEMMA ResetKeepsAlive ==
  ASSUME TypeOK, CallsNest, OldClaims, Alive, UNCHANGED <<timeouts, status>>,
         {kpc, kpc'} \subseteq {"idle", "reset", "resetting"},
         \/ ReadSpec
         \/ ScaleDown \/ WaitDown \/ WaitDownTimeout
         \/ DeleteClaim \/ WaitClaim \/ WaitClaimTimeout \/ AllDeleted
         \/ ScaleUp \/ WaitUp \/ WaitUpTimeout
         \/ WaitReady \/ WaitReadyTimeout \/ InVain
  PROVE  /\ outcome' # "raised" /\ (outcome' = "ok" => ready' = Ordinals)
         /\ Whole' /\ Down' /\ Back'
<1> USE OrdinalsCounted DEF clusterVars, Scale, Passes, Return
<1>1. CASE ReadSpec
  BY <1>1 DEF ReadSpec, Alive, Whole, Down, Back, Bound
<1>2. CASE ScaleDown
  BY <1>2 DEF ScaleDown, Alive, Whole, Down, Back, Bound, CallsNest
<1>3. CASE WaitDown
  <2>1. next = 0 /\ Bound(Ordinals) /\ spec = 0 /\ replicas = Replicas /\ status.replicas = 0 /\ pods = {}
    BY <1>3 DEF WaitDown, IsDown, OldClaims, Alive, Down
  <2>2. Bound(0 .. Replicas - 1)'
    BY <1>3, <2>1 DEF WaitDown, Bound
  <2> QED BY <1>3, <2>1, <2>2 DEF WaitDown, Whole, Down, Back, CallsNest
<1>4. CASE DeleteClaim
  <2>1. /\ pc = "delete" /\ next < ToDelete
        /\ spec = 0 /\ replicas = Replicas /\ status.replicas = 0 /\ pods = {}
        /\ Bound(next .. Replicas - 1)
    BY <1>4 DEF DeleteClaim, Alive, Down
  <2>2. HasTemplates /\ next \in next .. Replicas - 1 /\ next \in Ordinals
    BY <2>1 DEF ToDelete, TypeOK, ClientTypes
  <2>3. claims[next] # "none"
    BY <2>1, <2>2 DEF Bound
  <2>4. /\ pc' = "wait_claim" /\ claims' = [claims EXCEPT ![next] = "terminating"]
        /\ UNCHANGED <<spec, pods, ready, replicas, next, outcome>>
    BY <1>4, <2>3 DEF DeleteClaim
  <2>5. Bound((next + 1) .. Replicas - 1)'
    BY <2>1, <2>4 DEF Bound, TypeOK, SetTypes, ClientTypes
  <2> QED BY <2>1, <2>4, <2>5 DEF Alive, Whole, Down, Back, CallsNest
<1>5. CASE WaitClaim
  <2>1. Bound(next .. Replicas - 1)'
    BY <1>5 DEF WaitClaim, Alive, Down, Bound
  <2> QED BY <1>5, <2>1 DEF WaitClaim, Alive, Whole, Down, Back, CallsNest
<1>6. CASE AllDeleted
  BY <1>6 DEF AllDeleted, Alive, Whole, Down, Back, CallsNest
<1>7. CASE ScaleUp
  <2>1. /\ replicas = Replicas /\ status.replicas = 0 /\ pods = {}
        /\ pc' = "wait_up" /\ spec' = replicas
        /\ UNCHANGED <<replicas, outcome, pods, ready>> /\ outcome = "none"
    BY <1>7 DEF ScaleUp, Alive, Down, CallsNest
  <2>2. status.ready # Replicas
    BY <2>1 DEF TypeOK, SetTypes
  <2>3. Back'
    BY <2>1, <2>2 DEF Back, Bound
  <2> QED BY <2>1, <2>3 DEF Whole, Down
<1>8. CASE WaitUp
  BY <1>8 DEF WaitUp, IsUp, Alive, Whole, Down, Back, Bound, CallsNest
<1>9. CASE WaitReady
  <2>1. /\ spec = Replicas /\ Bound(pods) /\ status.replicas = Replicas
        /\ pods = Ordinals /\ ready = Ordinals
    BY <1>9 DEF WaitReady, IsStatefulSetReady, Alive, Back
  <2>2. pc' = "idle" /\ outcome' = "ok" /\ UNCHANGED <<spec, pods, ready, claims>>
    BY <1>9 DEF WaitReady
  <2>3. Bound(Ordinals)'
    BY <2>1, <2>2 DEF Bound
  <2> QED BY <2>1, <2>2, <2>3 DEF Whole, Down, Back
<1>10. ~WaitDownTimeout /\ ~WaitClaimTimeout /\ ~WaitUpTimeout /\ ~WaitReadyTimeout
  BY DEF WaitDownTimeout, WaitClaimTimeout, WaitUpTimeout, WaitReadyTimeout, TimesOut,
         TypeOK, ClientTypes
<1>11. ~InVain
  BY DEF InVain, IsDown, Alive, Down, Back
<1> QED
  BY <1>1, <1>2, <1>3, <1>4, <1>5, <1>6, <1>7, <1>8, <1>9, <1>10, <1>11

\* delete_app_data() on such a set, which is lost if it has no claims to delete.
LEMMA AppResetKeepsAlive ==
  ASSUME TypeOK, CallsNest, OldClaims, Alive, UNCHANGED <<timeouts, status, operator>>,
         {kpc, kpc'} \subseteq {"idle", "reset", "resetting"},
         \/ AppList \/ AppClaims \/ AppDown \/ AppForce \/ AppWait \/ AppWaitTimeout
         \/ AppDelete \/ AppGone \/ AppUp \/ AppReady
  PROVE  \/ Lost'
         \/ /\ outcome' # "raised" /\ (outcome' = "ok" => ready' = Ordinals)
            /\ Whole' /\ Down' /\ Back'
<1> USE OrdinalsCounted DEF clusterVars, Scale, Passes, Return, Raise
<1>1. CASE AppList
  <2>1. pods = Ordinals /\ spec = Replicas /\ Bound(Ordinals) /\ status.replicas # 0
    BY <1>1 DEF AppList, Alive, Whole
  <2>2. Cardinality(pods) = Replicas /\ pods # {}
    BY <2>1
  <2> QED BY <1>1, <2>1, <2>2 DEF AppList, Whole, Down, Back, Bound
<1>2. CASE AppClaims
  BY <1>2 DEF AppClaims, Alive, Whole, Down, Back, Bound, TypeOK, ClientTypes, CallsNest
<1>3. CASE AppDown
  BY <1>3 DEF AppDown, Alive, Whole, Down, Back, Bound, CallsNest
<1>4. CASE AppForce
  BY <1>4 DEF AppForce, Alive, Whole, Down, Back, Bound, CallsNest
<1>5. CASE AppWait
  <2>1. Bound(listed)'
    BY <1>5 DEF AppWait, Alive, Down, Bound
  <2> QED BY <1>5, <2>1 DEF AppWait, IsDown, Alive, Whole, Down, Back, CallsNest
<1>6. ~AppWaitTimeout
  BY DEF AppWaitTimeout, TimesOut, TypeOK, ClientTypes
<1>7. CASE AppDelete
  <2>1. /\ pc = "app_delete" /\ spec = 0 /\ replicas = Replicas /\ status.replicas = 0 /\ pods = {}
        /\ Bound(listed) /\ operator = "absent"
    BY <1>7 DEF AppDelete, Alive, Down, CallsNest, AppLabels
  <2>2. CASE HasTemplates
    <3>1. PICK i \in listed :
            /\ claims' = [claims EXCEPT ![i] = "terminating"]
            /\ pc' = "app_gone" /\ next' = i
            /\ UNCHANGED <<spec, pods, ready, replicas, outcome, listed>>
      BY <1>7, <2>1, <2>2 DEF AppDelete, Bound
    <3>2. Bound(listed \ {next})'
      BY <2>1, <3>1 DEF Bound, TypeOK, SetTypes, ClientTypes
    <3> QED BY <2>1, <3>1, <3>2 DEF Alive, Whole, Down, Back, CallsNest
  <2>3. CASE ~HasTemplates
    <3>1. \A i \in listed : claims[i] = "none"
      BY <2>3 DEF OldClaims, TypeOK, ClientTypes
    <3>2. pc' = "idle" /\ outcome' = "raised" /\ UNCHANGED <<spec, pods>>
      BY <1>7, <3>1 DEF AppDelete
    <3> QED BY <2>1, <2>3, <3>2 DEF Lost
  <2> QED BY <2>2, <2>3
<1>8. CASE AppGone
  <2>1. Bound(listed)'
    BY <1>8 DEF AppGone, Alive, Down, Bound
  <2> QED BY <1>8, <2>1 DEF AppGone, Alive, Whole, Down, Back, CallsNest
<1>9. CASE AppUp
  <2>1. /\ replicas = Replicas /\ status.replicas = 0 /\ pods = {}
        /\ pc' = "app_ready" /\ spec' = replicas
        /\ UNCHANGED <<replicas, outcome, pods, ready>> /\ outcome = "none"
    BY <1>9 DEF AppUp, Alive, Down, CallsNest
  <2>2. status.ready # Replicas
    BY <2>1 DEF TypeOK, SetTypes
  <2>3. Back'
    BY <2>1, <2>2 DEF Back, Bound
  <2> QED BY <2>1, <2>3 DEF Whole, Down
<1>10. CASE AppReady
  <2>1. /\ spec = Replicas /\ Bound(pods) /\ status.ready = Replicas
    BY <1>10 DEF AppReady, Alive, Back, TypeOK, ClientTypes
  <2>2. ready = Ordinals /\ pods = Ordinals /\ status.replicas # 0
    BY <1>10, <2>1 DEF AppReady, Alive, Back, TypeOK, SetTypes
  <2>3. pc' = "idle" /\ outcome' = "ok" /\ UNCHANGED <<spec, pods, ready, claims>>
    BY <1>10 DEF AppReady
  <2>4. Bound(Ordinals)'
    BY <2>1, <2>2, <2>3 DEF Bound
  <2> QED BY <2>1, <2>2, <2>3, <2>4 DEF Whole, Down, Back
<1> QED
  BY <1>1, <1>2, <1>3, <1>4, <1>5, <1>6, <1>7, <1>8, <1>9, <1>10

LEMMA UndisturbedStep ==
  ASSUME TypeOK, CallsNest, OldClaims, Undisturbed, [KNext]_allVars
  PROVE  Undisturbed'
<1> SUFFICES ASSUME timeouts' = MaxTimeouts
             PROVE  (Lost \/ Alive)'
  BY DEF Undisturbed
<1>1. UNCHANGED timeouts /\ (Lost \/ Alive)
  BY TimeoutsAreSpent DEF Undisturbed
<1>2. CASE Lost
  BY <1>1, <1>2, LostStep
<1>3. CASE Alive
  <2>1. CASE UNCHANGED allVars
    BY <1>3, <2>1 DEF allVars, vars, kafkaVars, Alive, Whole, Down, Back, Exposure, Bound
  <2>2. CASE PluginMove
    BY <1>1, <1>3, <2>2, PluginKeepsAlive
  <2>3. CASE OperatorPod \/ OperatorStep
    BY <1>1, <1>3, <2>3, OperatorKeepsAlive
  <2>4. CASE \E i \in Ordinals : Kubernetes(i)
    BY <1>3, <2>4, KubernetesKeepsAlive
  <2>5. CASE Publish
    BY <1>3, <2>5, PublishKeepsAlive
  <2>6. CASE ResetBegins \/ Reset
    <3>1. /\ Exposure' /\ UNCHANGED <<status, operator>>
          /\ {kpc, kpc'} \subseteq {"idle", "reset", "resetting"}
      BY <1>3, <2>6, ClientExposure
    <3>2. ReadSpec \/ AppList \/ Client
      BY <2>6 DEF ResetBegins, Reset
    <3>3. CASE AppList \/ AppClaims \/ AppDown \/ AppForce \/ AppWait \/ AppWaitTimeout
               \/ AppDelete \/ AppGone \/ AppUp \/ AppReady
      BY <1>1, <1>3, <3>1, <3>3, AppResetKeepsAlive DEF Alive
    <3>4. CASE \/ ReadSpec
               \/ ScaleDown \/ WaitDown \/ WaitDownTimeout
               \/ DeleteClaim \/ WaitClaim \/ WaitClaimTimeout \/ AllDeleted
               \/ ScaleUp \/ WaitUp \/ WaitUpTimeout
               \/ WaitReady \/ WaitReadyTimeout \/ InVain
      BY <1>1, <1>3, <3>1, <3>4, ResetKeepsAlive DEF Alive
    <3> QED BY <3>2, <3>3, <3>4 DEF Client
  <2> QED BY <2>1, <2>2, <2>3, <2>4, <2>5, <2>6 DEF KNext, PluginStep, PluginMove
<1> QED
  BY <1>1, <1>2, <1>3

LEMMA InvStep == Inv /\ [KNext]_allVars => Inv'
  BY TypeStep, NestStep, OldStep, ScaledStep, UndisturbedStep DEF Inv

LEMMA Invariance == KSpec => []Inv
  BY InvInit, InvStep, PTL DEF KSpec

-----------------------------------------------------------------------------
\* However many replicas there are and whatever timed out before: a reset that returns normally
\* leaves no claim from before it, and the set with as many replicas as it had.
THEOREM ResetsDeleteAllClaims == KSpec => []OkMeansReset
<1>1. Inv => OkMeansReset
  BY DEF Inv, OldClaims, ScaledBack, OkMeansReset
<1> QED
  BY <1>1, Invariance, PTL

\* Without a timeout no claim is deleted under a running pod, and all are ready again in the end,
\* although every wait reads a status that may lag.
THEOREM ResetsWaitForPods == KSpec => []UndisturbedReset
<1>1. Inv => UndisturbedReset
  BY DEF Inv, Undisturbed, Lost, Alive, Down, UndisturbedReset
<1> QED
  BY <1>1, Invariance, PTL

\* clear_data() returns normally only after a reset that did, with the operator scaled up again.
THEOREM ClearsAreResets == KSpec => []ClearedMeansReset
<1>1. Inv => ClearedMeansReset
  BY DEF Inv, CallsNest, OldClaims, ClearedMeansReset
<1> QED
  BY <1>1, Invariance, PTL

\* Without a timeout a consumer is made only of brokers that all listen.
THEOREM ClientsFindListeners == KSpec => []ClientsAreServed
<1>1. Inv => ClientsAreServed
  BY DEF Inv, CallsNest, Undisturbed, Lost, Alive, Exposure, ClientsAreServed
<1> QED
  BY <1>1, Invariance, PTL
-----------------------------------------------------------------------------
(* A set and an operator that have been left at zero.                      *)

\* There is no pod and none is asked for; a reset that is under way has read 0 as the number of
\* replicas, and has waited until the status says so before it waits for them to be ready.
LeftAtZero ==
  /\ spec = 0 /\ pods = {}
  /\ operator \in {"absent", "none"} /\ opSpec = 0
  /\ kpc \notin {"op_up", "op_wait"}
  /\ kpc = "resetting" => outcome # "ok"
  /\ pc \in {"idle", "scale_down", "wait_down", "delete", "scale_up", "wait_up", "wait_ready"}
  /\ pc # "idle" => replicas = 0
  /\ pc \in {"delete", "scale_up", "wait_up", "wait_ready"} => status.replicas = 0

\* A reset of such a set ends in its last wait.
LEMMA ResetStaysAtZero ==
  ASSUME TypeOK, CallsNest, OldClaims, LeftAtZero,
         (ReadSpec /\ UNCHANGED listed) \/ AppList \/ Client
  PROVE  /\ spec' = 0 /\ pods' = {} /\ UNCHANGED status
         /\ (ReadSpec \/ AppList \/ pc # "idle") /\ (outcome' # "ok")
         /\ pc' \in {"idle", "scale_down", "wait_down", "delete", "scale_up", "wait_up", "wait_ready"}
         /\ pc' # "idle" => replicas' = 0
         /\ pc' \in {"delete", "scale_up", "wait_up", "wait_ready"} => status'.replicas = 0
<1>1. pc = "delete" => next = 0 /\ ToDelete = 0
  BY OrdinalsCounted DEF LeftAtZero, OldClaims, ToDelete, TypeOK, ClientTypes
<1>2. pc = "wait_ready" => ~IsStatefulSetReady
  BY OrdinalsCounted DEF LeftAtZero, IsStatefulSetReady, TypeOK, SetTypes
<1>3. \/ ReadSpec \/ AppList \/ ScaleDown \/ WaitDown \/ WaitDownTimeout \/ AllDeleted
      \/ ScaleUp \/ WaitUp \/ WaitUpTimeout \/ WaitReadyTimeout \/ InVain
  BY <1>1, <1>2 DEF Client, LeftAtZero, DeleteClaim, WaitClaim, WaitClaimTimeout, WaitReady,
     AppClaims, AppDown, AppForce, AppWait, AppWaitTimeout, AppDelete, AppGone, AppUp, AppReady,
     Scale, Passes, TimesOut
<1>4. pc # "idle" => outcome # "ok"
  BY DEF CallsNest
<1> QED
  BY <1>3, <1>4 DEF LeftAtZero, ReadSpec, AppList, ScaleDown, WaitDown, WaitDownTimeout, AllDeleted,
     ScaleUp, WaitUp, WaitUpTimeout, WaitReadyTimeout, InVain, Scale, Passes, TimesOut, Return, Raise,
     clusterVars, IsDown

LEMMA LeftAtZeroStep ==
  ASSUME Inv, LeftAtZero, [KNext]_allVars
  PROVE  LeftAtZero'
<1>1. TypeOK /\ CallsNest /\ OldClaims
  BY DEF Inv
<1>2. CASE UNCHANGED allVars
  BY <1>2 DEF allVars, vars, kafkaVars, LeftAtZero
<1>3. CASE PluginMove
  <2> USE DEF PluginMove, ClearData, Expose, AlreadyExposed, OperatorDown, ResetEnds, OperatorUp,
              OperatorBack, Patch, AwaitRestart, AwaitRunning, Begins, KWait, KGoto, KReturn,
              vars, clusterVars, operatorVars, resourceVars, callVars
  <2>1. UNCHANGED <<spec, status, pods, operator>>
    BY <1>3
  <2>2. UNCHANGED pc /\ (replicas' = replicas \/ pc = "idle")
    BY <1>3
  <2>3. opSpec' = 0 /\ kpc' \notin {"op_up", "op_wait", "resetting"}
    BY <1>3 DEF LeftAtZero
  <2> QED BY <2>1, <2>2, <2>3 DEF LeftAtZero
<1>4. CASE ResetBegins
  <2>1. /\ UNCHANGED <<operator, opSpec>> /\ kpc' = "resetting"
    BY <1>4 DEF ResetBegins, operatorVars, KGoto
  <2>2. ReadSpec /\ UNCHANGED listed
    BY <1>4 DEF ResetBegins
  <2> QED BY <1>1, <2>1, <2>2, ResetStaysAtZero DEF LeftAtZero
<1>5. CASE Reset
  <2>1. UNCHANGED <<operator, opSpec, kpc>>
    BY <1>5 DEF Reset, operatorVars, callVars
  <2>2. (ReadSpec /\ UNCHANGED listed) \/ AppList \/ Client
    BY <1>5 DEF Reset
  <2> QED BY <1>1, <2>1, <2>2, ResetStaysAtZero DEF LeftAtZero
<1>6. CASE OperatorPod \/ OperatorStep
  BY <1>6 DEF OperatorPod, OperatorStep, OperatorScales, OperatorExposes, OperatorRolls, Acts, LeftAtZero
<1>7. ASSUME NEW i \in Ordinals, Kubernetes(i) PROVE LeftAtZero'
  <2>1. ~CreatePod(i) /\ ~DeletePod(i)
    BY OrdinalsCounted DEF CreatePod, DeletePod, LeftAtZero
  <2>2. PodReady(i) \/ RemoveClaim(i)
    BY <1>7, <2>1 DEF Kubernetes, Controllers
  <2> QED BY <1>7, <2>2 DEF Kubernetes, PodReady, RemoveClaim, LeftAtZero, clientVars, operatorVars, callVars
<1>8. CASE Publish
  <2>1. Cardinality(pods) = 0
    BY <1>1, PodsCounted DEF LeftAtZero, TypeOK, SetTypes
  <2> QED BY <1>8, <2>1 DEF Publish, PublishStatus, clientVars, kafkaVars, LeftAtZero
<1> QED
  BY <1>2, <1>3, <1>4, <1>5, <1>6, <1>7, <1>8 DEF KNext, PluginStep, PluginMove

\* A call that has left the set and its operator at zero is final for every number of replicas:
\* whatever is called later, nobody asks for a broker or for the operator again.
THEOREM LostBrokersStayLost == KSpec => BrokersLost
<1>1. /\ kpc = "idle" /\ pc = "idle" /\ spec = 0 /\ pods = {}
      /\ operator \in {"absent", "none"} /\ opSpec = 0
      => LeftAtZero
  BY DEF LeftAtZero
<1>2. LeftAtZero => spec = 0 /\ opSpec = 0
  BY DEF LeftAtZero
<1>3. Inv /\ LeftAtZero /\ [KNext]_allVars => LeftAtZero'
  BY LeftAtZeroStep
<1> QED
  BY <1>1, <1>2, <1>3, Invariance, PTL DEF KSpec, BrokersLost
=============================================================================
