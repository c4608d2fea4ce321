------------------------------- MODULE K8sHost -------------------------------
(***************************************************************************)
(* A service on kubernetes as plugins/k8s.py drives it with kubectl over   *)
(* SSH: its configmap and its deployment with the pods.  A call is a       *)
(* sequence of commands, with the controllers of kubernetes and the        *)
(* commands of other callers in between: insert_kv_into_configmap reads    *)
(* the map, writes it with its key to a file, puts that on the host, has   *)
(* it replace the map and restarts the pods.  The file is named after the  *)
(* service, here and on the host, so all callers write the same one.  What *)
(* is waited for is the status, which the controllers write when they get  *)
(* to it.                                                                  *)
(*                                                                         *)
(* A call of one command is one step, and has no effect when it fails.     *)
(* Each caller inserts a key of its own, named like it.  MaxFaults bounds  *)
(* the commands that fail.                                                 *)
(***************************************************************************)
EXTENDS Naturals, FiniteSets

CONSTANTS
  Callers,
  Slots,     \* of pods
  MaxFaults

MaxReplicas == Cardinality(Slots)
NoPod == [phase |-> "none", config |-> {}]
Pods == {NoPod} \cup [phase : {"starting", "ready"}, config : SUBSET Callers]

VARIABLES
  map,         \* the keys of the configmap
  deployment,  \* [exists, replicas, ready: status.readyReplicas]
  pod,         \* slot -> its pod, with the configmap as it was when the pod started
  call,        \* caller -> [op, at, read: the map it got, or {the count}, ...]
  faults,
  local,       \* the keys in /tmp/updated-configmap-<service> where the tests run
  host         \* and on the host; Refused if it is torn or its version not the current one

files == <<local, host>>
vars == <<map, deployment, pod, call, faults, files>>

Refused == {}

Calls == [op : {"none", "insert_kv", "restart_pod", "all_running"},
          at : {"ok", "raised", "get", "open", "dump", "put", "putting", "replace",
                "delete pods", "one ready", "count ready", "count pods"},
          read : SUBSET (Callers \cup (0..MaxReplicas)),
          fresh : BOOLEAN,    \* what it has read is still so
          excused : BOOLEAN,  \* history: the pods could not be deleted,
          overwritten : BOOLEAN]  \* and another has written the file before its use

Idle == [op |-> "none", at |-> "ok", read |-> {}, fresh |-> FALSE, excused |-> FALSE,
         overwritten |-> FALSE]

Init ==
  /\ map = {}
  /\ \E live \in (SUBSET Slots) \ {{}} :
       /\ deployment = [exists |-> TRUE, replicas |-> Cardinality(live), ready |-> Cardinality(live)]
       /\ pod = [s \in Slots |-> IF s \in live THEN [phase |-> "ready", config |-> {}] ELSE NoPod]
  /\ call = [c \in Callers |-> Idle]
  /\ faults = MaxFaults
  /\ local = Refused /\ host = Refused

At(c, label) == call[c].at = label
Goto(c, label) == call' = [call EXCEPT ![c].at = label, ![c].read = {}]
Raise(c) == call' = [call EXCEPT ![c] = [Idle EXCEPT !.at = "raised"]]
Returned(c) == At(c, "ok") \/ At(c, "raised")
Fault == faults > 0 /\ faults' = faults - 1
Live == {s \in Slots : pod[s].phase # "none"}
Ready == {s \in Slots : pod[s].phase = "ready"}

\* The callers that are asking for changes of the pods have been overtaken by one.
Overtaken(op, now) ==
  [d \in Callers |-> [now[d] EXCEPT !.fresh = @ /\ now[d].op # op]]

\* The others that are at one of the labels have to do with what c has written.
Overwrites(c, labels, now) ==
  [d \in Callers |-> [now[d] EXCEPT !.overwritten = @ \/ (d # c /\ now[d].at \in labels)]]

-----------------------------------------------------------------------------
(* The controllers.                                                        *)

StartPod(s) ==
  /\ deployment.exists /\ Cardinality(Live) < deployment.replicas /\ s \notin Live
  /\ pod' = [pod EXCEPT ![s] = [phase |-> "starting", config |-> map]]
  /\ call' = Overtaken("all_running", call)
  /\ UNCHANGED <<map, deployment, faults, files>>

PodReady(s) ==
  /\ pod[s].phase = "starting"
  /\ pod' = [pod EXCEPT ![s].phase = "ready"]
  /\ call' = Overtaken("all_running", call)
  /\ UNCHANGED <<map, deployment, faults, files>>

RemovePod(s) ==
  /\ s \in Live /\ (deployment.exists => Cardinality(Live) > deployment.replicas)
  /\ pod' = [pod EXCEPT ![s] = NoPod]
  /\ call' = Overtaken("all_running", call)
  /\ UNCHANGED <<map, deployment, faults, files>>

WriteStatus ==
  /\ deployment.exists /\ deployment.ready # Cardinality(Ready)
  /\ deployment' = [deployment EXCEPT !.ready = Cardinality(Ready)]
  /\ UNCHANGED <<map, pod, call, faults, files>>

-----------------------------------------------------------------------------
(* The commands.                                                           *)

\* A command that fails: with an error that says so, and then it has changed nothing.
CommandFails(c) ==
  /\ ~Returned(c) /\ ~At(c, "delete pods")
  /\ Fault
  /\ Raise(c)
  /\ UNCHANGED <<map, deployment, pod, files>>

configmap_json(c) ==
  /\ At(c, "get")
  /\ call' = [call EXCEPT ![c].at = "open", ![c].read = map, ![c].fresh = TRUE]
  /\ UNCHANGED <<map, deployment, pod, faults, files>>

\* Opened to be written, the file is empty until it is closed again.
open_file(c) ==
  /\ At(c, "open")
  /\ local' = Refused
  /\ call' = [Overwrites(c, {"dump", "put", "putting"}, call) EXCEPT ![c].at = "dump"]
  /\ UNCHANGED <<map, deployment, pod, faults, host>>

\* Of two who write it at the same time one may leave the end of what the other wrote.
write_configmap_json(c) ==
  /\ At(c, "dump")
  /\ \/ local' = IF call[c].fresh THEN call[c].read \cup {c} ELSE Refused
     \/ call[c].overwritten /\ local' = Refused
  /\ call' = [Overwrites(c, {"dump", "put", "putting"}, call) EXCEPT
                ![c].at = "put", ![c].read = {}, ![c].fresh = FALSE]
  /\ UNCHANGED <<map, deployment, pod, faults, host>>

put(c) ==
  /\ At(c, "put")
  /\ host' = Refused
  /\ call' = [Overwrites(c, {"putting", "replace"}, call) EXCEPT ![c].at = "putting"]
  /\ UNCHANGED <<map, deployment, pod, faults, local>>

\* What the file holds now, or some of what it held before if that has changed.
PutEnds(c) ==
  /\ At(c, "putting")
  /\ host' = local \/ (call[c].overwritten /\ host' = Refused)
  /\ call' = [Overwrites(c, {"putting", "replace"}, call) EXCEPT ![c].at = "replace"]
  /\ UNCHANGED <<map, deployment, pod, faults, local>>

\* Mutant of ReplaceMap: what has been read carries no version.
ReplaceAnyVersion(c, then) ==
  /\ map' = host
  /\ call' = [call EXCEPT ![c].at = then]
  /\ UNCHANGED files

\* The map as it is in the file, and after it no version that was read is the current one.
ReplaceMap(c, then) ==
  /\ map' = host
  /\ local' = Refused /\ host' = Refused
  /\ call' = [Overtaken("insert_kv", call) EXCEPT ![c].at = then]

\* Mutant of replace_config_map: the pods are not restarted.
ReplaceOnly(c) ==
  /\ At(c, "replace") /\ host # Refused
  /\ ReplaceMap(c, "one ready")
  /\ UNCHANGED <<deployment, pod, faults>>

\* Kubernetes refuses a version that is not the current one, and kubectl a file that is torn.
replace_config_map(c) ==
  /\ At(c, "replace")
  /\ \/ host # Refused /\ ReplaceMap(c, "delete pods")
     \/ host = Refused /\ Raise(c) /\ UNCHANGED <<map, files>>
  /\ UNCHANGED <<deployment, pod, faults>>

\* kubectl waits until they are gone.  delete() logs what fails and raises nothing.
delete_pod_by_service_name(c) ==
  /\ At(c, "delete pods")
  /\ \/ /\ pod' = [s \in Slots |-> NoPod]
        /\ call' = [Overtaken("all_running", call) EXCEPT ![c].at = "one ready"]
        /\ UNCHANGED faults
     \/ /\ Fault
        /\ call' = [call EXCEPT ![c].at = "one ready", ![c].excused = TRUE]
        /\ UNCHANGED pod
  /\ UNCHANGED <<map, deployment, files>>

\* wait_for_predicate until the status says one: of the new pods, or still of the old.
AwaitOneReady(c) ==
  /\ At(c, "one ready")
  /\ IF deployment.exists /\ deployment.ready = 1 THEN Goto(c, "ok") ELSE Raise(c)
  /\ UNCHANGED <<map, deployment, pod, faults, files>>

number_ready_pods_in_deployment(c) ==
  /\ At(c, "count ready") /\ deployment.exists
  /\ call' = [call EXCEPT ![c].at = "count pods", ![c].read = {deployment.ready}]
  /\ UNCHANGED <<map, deployment, pod, faults, files>>

\* As many as were ready a moment ago, or it asks again until its time is up.
get_pods_using_selector_labels(c) ==
  /\ At(c, "count pods")
  /\ IF call[c].read = {Cardinality(Live)} THEN Goto(c, "ok") ELSE Raise(c)
  /\ UNCHANGED <<map, deployment, pod, faults, files>>

scale_deployment(c) ==
  /\ Returned(c)
  /\ deployment.exists
  /\ \E n \in 0..MaxReplicas : deployment' = [deployment EXCEPT !.replicas = n]
  /\ UNCHANGED <<map, pod, call, faults, files>>

\* create() and delete() return normally whatever becomes of their command.
create_deployment(c) ==
  /\ Returned(c)
  /\ ~deployment.exists
  /\ deployment' = [exists |-> TRUE, replicas |-> 1, ready |-> 0]
  /\ UNCHANGED <<map, pod, call, faults, files>>

delete_deployment(c) ==
  /\ Returned(c)
  /\ deployment' = [exists |-> FALSE, replicas |-> 0, ready |-> 0]
  /\ UNCHANGED <<map, pod, call, faults, files>>

-----------------------------------------------------------------------------
(* The calls.                                                              *)

\* What others have returned is forgotten now: the properties are about a call until the
\* next one begins.
Begin(c, op, label) ==
  /\ Returned(c)
  /\ call' = [d \in Callers |->
       IF d = c THEN [op |-> op, at |-> label, read |-> {}, excused |-> FALSE,
                      overwritten |-> FALSE,
                      fresh |-> op = "all_running" /\ deployment.ready = Cardinality(Ready)]
       ELSE IF Returned(d) THEN Idle ELSE call[d]]
  /\ UNCHANGED <<map, deployment, pod, faults, files>>

insert_kv_into_configmap(c) == Begin(c, "insert_kv", "get")
restart_pod_by_service_name(c) == Begin(c, "restart_pod", "delete pods")
all_deployments_pods_running(c) == Begin(c, "all_running", "count ready")

Next ==
  \/ \E s \in Slots : StartPod(s) \/ PodReady(s) \/ RemovePod(s)
  \/ WriteStatus
  \/ \E c \in Callers :
       \/ insert_kv_into_configmap(c) \/ restart_pod_by_service_name(c)
       \/ all_deployments_pods_running(c)
       \/ configmap_json(c) \/ open_file(c) \/ write_configmap_json(c) \/ put(c) \/ PutEnds(c)
       \/ replace_config_map(c) \/ delete_pod_by_service_name(c)
       \/ AwaitOneReady(c) \/ number_ready_pods_in_deployment(c) \/ get_pods_using_selector_labels(c)
       \/ scale_deployment(c) \/ create_deployment(c) \/ delete_deployment(c)
       \/ CommandFails(c)

Spec == Init /\ [][Next]_vars

-----------------------------------------------------------------------------
\* Every variable has the type its declaration says.
TypeOK ==
  /\ map \subseteq Callers
  /\ deployment \in [exists : BOOLEAN, replicas : 0..MaxReplicas, ready : 0..MaxReplicas]
  /\ pod \in [Slots -> Pods]
  /\ call \in [Callers -> Calls]
  /\ faults \in 0..MaxFaults
  /\ local \subseteq Callers /\ host \subseteq Callers

\* A key that insert_kv_into_configmap has set stays set whatever other callers insert
\* meanwhile, and when it returns no pod runs with the map as it was before, unless the
\* pods could not be deleted, which delete() hides.  It is not set, although the call
\* returns, if another has written its file between the opening and the replacement.
InsertedKeysAreKept ==
  \A c \in Callers :
    call[c].op = "insert_kv" /\ ~call[c].overwritten =>
      /\ call[c].at \in {"delete pods", "one ready", "ok"} => c \in map
      /\ At(c, "ok") /\ ~call[c].excused => \A s \in Live : c \in pod[s].config

\* The pods that all_deployments_pods_running counts are ready if neither they nor a status
\* that was true changed meanwhile.
CountsReadyPods ==
  \A c \in Callers :
    call[c].op = "all_running" /\ At(c, "ok") /\ call[c].fresh => Live = Ready

-----------------------------------------------------------------------------
(* Why they hold.                                                          *)

\* The labels each call goes through.
LabelsOf(c) ==
  /\ call[c].at \in {"get", "open", "dump", "put", "putting", "replace"} => call[c].op = "insert_kv"
  /\ At(c, "count ready") \/ At(c, "count pods") => call[c].op = "all_running"
  /\ call[c].op = "all_running" => call[c].at \in {"count ready", "count pods", "ok"}

\* A file that is not refused has every key of the map.
FilesKeepKeys ==
  /\ local # Refused => map \subseteq local
  /\ host # Refused => map \subseteq host

\* So the map only grows; and once the pods have been deleted, those that start have the key.
KeyIsKept(c) ==
  call[c].op = "insert_kv" =>
    /\ call[c].at \in {"open", "dump"} /\ call[c].fresh => call[c].read = map
    /\ ~call[c].overwritten =>
         /\ call[c].at \in {"put", "putting"} => local = Refused \/ c \in local
         /\ At(c, "replace") => host = Refused \/ c \in host
         /\ call[c].at \in {"delete pods", "one ready", "ok"} => c \in map
         /\ call[c].at \in {"one ready", "ok"} /\ ~call[c].excused => \A s \in Live : c \in pod[s].config

\* A status of none, of a deployment that has been created anew, is compared with pods
\* that are all gone then.
CountIsTrue(c) ==
  call[c].op = "all_running" /\ call[c].fresh =>
    /\ At(c, "count ready") => deployment.ready \in {0, Cardinality(Ready)}
    /\ At(c, "count pods") => call[c].read = {0} \/ call[c].read = {Cardinality(Ready)}
    /\ At(c, "ok") => Live = Ready

Inv ==
  /\ TypeOK
  /\ FilesKeepKeys
  /\ \A c \in Callers : LabelsOf(c) /\ KeyIsKept(c) /\ CountIsTrue(c)
==============================================================================
