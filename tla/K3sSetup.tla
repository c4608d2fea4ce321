------------------------------ MODULE K3sSetup ------------------------------
(***************************************************************************)
(* The session hook of installers/k3s.py: it restores the first master     *)
(* from a snapshot, starts k3s, joins the other hosts concurrently, waits  *)
(* until as many nodes as hosts are listed and all that are listed are     *)
(* ready, labels and taints them, and logs in to Rancher, after a restart  *)
(* of its pods when their certificate had expired (k8s_plugins/rancher.py).*)
(*                                                                         *)
(* The snapshot may hold a node of the cluster it was taken from, listed   *)
(* as ready until Kubernetes finds that nobody hears of it, and then as    *)
(* not ready until it is forgotten.  The cluster renews the certificate    *)
(* by itself, whenever it gets to it.  MaxFaults bounds commands that      *)
(* fail, waits that time out, nodes that become not ready and pods that    *)
(* are evicted.                                                            *)
(***************************************************************************)
EXTENDS Naturals, FiniteSets

CONSTANTS
  Hosts,
  Slots,      \* of Rancher's pods
  MaxFaults

VARIABLES
  masters,   \* the hosts whose role is master, first of all the main one
  node,      \* host -> its node: "none", "registered" or "ready"
  snapshot,  \* the node of the snapshot: "none" is listed, "ready" or "not ready"
  job,       \* host -> its job: "none", "join", "active", "done", "failed"
  at,        \* where the hook is
  marked,    \* hosts that have a k8s_name and their labels and taints
  expired,   \* Rancher's certificate has expired
  pod,       \* slot -> "none", or the certificate its pod has loaded: "old", "new"
  listed,    \* slot -> of its pod that is to be deleted: "no", "there", "gone" meanwhile
  faults,
  seen       \* history: what the hook saw of nodes and certificate

cluster == <<node, snapshot>>
rancher == <<expired, pod, listed>>
vars == <<masters, node, snapshot, job, at, marked, expired, pod, listed, faults, seen>>

Main == CHOOSE h \in Hosts : masters # {} => h \in masters
Nodes == {h \in Hosts : node[h] # "none"}

TypeOK ==
  /\ masters \subseteq Hosts
  /\ node \in [Hosts -> {"none", "registered", "ready"}]
  /\ snapshot \in {"none", "ready", "not ready"}
  /\ job \in [Hosts -> {"none", "join", "active", "done", "failed"}]
  /\ at \in {"masters", "restore", "start", "nodes", "join", "count", "ready", "label", "cert",
             "renew", "list", "delete", "deployed", "login", "ok", "raised"}
  /\ marked \subseteq Hosts
  /\ expired \in BOOLEAN
  /\ pod \in [Slots -> {"none", "old", "new"}]
  /\ listed \in [Slots -> {"no", "there", "gone"}]
  /\ faults \in 0..MaxFaults
  /\ seen \in [counted : BOOLEAN,       \* the node of the snapshot as one of the cluster,
               ready : SUBSET Hosts,    \* the nodes that were ready when the cluster was,
               expired : BOOLEAN]       \* the certificate expired

Init ==
  /\ masters \in SUBSET Hosts
  /\ node = [h \in Hosts |-> "none"]
  /\ snapshot = "none"
  /\ job = [h \in Hosts |-> "none"]
  /\ at = "masters"
  /\ marked = {}
  /\ expired \in BOOLEAN
  /\ pod = [s \in Slots |-> "none"]
  /\ listed = [s \in Slots |-> "no"]
  /\ faults = MaxFaults
  /\ seen = [counted |-> FALSE, ready |-> {}, expired |-> FALSE]

Fault == faults > 0 /\ faults' = faults - 1
Goes(label, then) == at = label /\ at' = then /\ UNCHANGED <<masters, job, faults>>

-----------------------------------------------------------------------------
(* k3s and Rancher.                                                        *)

NodeReady(h) ==
  /\ node[h] = "registered"
  /\ node' = [node EXCEPT ![h] = "ready"]
  /\ UNCHANGED <<masters, snapshot, job, at, marked, rancher, faults>>

NodeNotReady(h) ==
  /\ node[h] = "ready"
  /\ node' = [node EXCEPT ![h] = "registered"]
  /\ Fault
  /\ UNCHANGED <<masters, snapshot, job, at, marked, rancher>>

\* Kubernetes finds that the node is not there any more, and removes it, late if ever.
LoseSnapshotNode ==
  /\ snapshot = "ready"
  /\ snapshot' = "not ready"
  /\ UNCHANGED <<masters, node, job, at, marked, rancher, faults>>

ForgetSnapshotNode ==
  /\ snapshot = "not ready"
  /\ snapshot' = "none"
  /\ UNCHANGED <<masters, node, job, at, marked, rancher, faults>>

RenewCertificate ==
  /\ expired /\ Nodes # {}
  /\ expired' = FALSE
  /\ UNCHANGED <<masters, cluster, job, at, marked, pod, listed, faults>>

StartRancherPod(s) ==
  /\ pod[s] = "none" /\ Nodes # {}
  /\ pod' = [pod EXCEPT ![s] = IF expired THEN "old" ELSE "new"]
  /\ UNCHANGED <<masters, cluster, job, at, marked, expired, listed, faults>>

EvictRancherPod(s) ==
  /\ pod[s] # "none"
  /\ pod' = [pod EXCEPT ![s] = "none"]
  /\ listed' = [listed EXCEPT ![s] = IF @ = "there" THEN "gone" ELSE @]
  /\ Fault
  /\ UNCHANGED <<masters, cluster, job, at, marked, expired>>

-----------------------------------------------------------------------------
(* setup_cluster.                                                          *)

\* A command fails that is not followed by "|| true", or a wait times out.
HookFails ==
  /\ at \notin {"masters", "join", "ok", "raised"}
  /\ at' = "raised"
  /\ Fault
  /\ UNCHANGED <<masters, cluster, job, marked, rancher>>

PickMain ==
  /\ at = "masters"
  /\ at' = IF masters = {} THEN "raised" ELSE "restore"
  /\ UNCHANGED <<masters, cluster, job, marked, rancher, faults>>

\* The command that restores is followed by "|| true"; the wait for the line "restart
\* without" in the journal is what can fail.
RestoreSnapshot ==
  /\ Goes("restore", "start")
  /\ snapshot' \in {"none", "ready", "not ready"}
  /\ UNCHANGED <<node, marked, rancher>>

StartServer ==
  /\ Goes("start", "nodes")
  /\ node' = [node EXCEPT ![Main] = "registered"]
  /\ UNCHANGED <<snapshot, marked, rancher>>

\* kubectl get nodes answers: a job for every other host.
AwaitServer ==
  /\ at = "nodes"
  /\ at' = "join"
  /\ job' = [h \in Hosts |-> IF h = Main THEN "done" ELSE "join"]
  /\ UNCHANGED <<masters, cluster, marked, rancher, faults>>

\* The installation starts the service, which registers its node before or after it is
\* waited for.
Join(h) ==
  /\ at = "join" /\ job[h] = "join" /\ h \notin masters
  /\ \/ job' = [job EXCEPT ![h] = "active"] /\ UNCHANGED faults
     \/ job' = [job EXCEPT ![h] = "failed"] /\ Fault
  /\ UNCHANGED <<masters, cluster, at, marked, rancher>>

\* The same for a master, whose earlier data is removed first.  An installation that fails
\* is passed over, and the wait for "kubectl get nodes" finds it.
JoinMaster(h) ==
  /\ at = "join" /\ job[h] = "join" /\ h \in masters
  /\ \/ job' = [job EXCEPT ![h] = "active"] /\ UNCHANGED faults
     \/ job' = [job EXCEPT ![h] = "failed"] /\ Fault
  /\ UNCHANGED <<masters, cluster, at, marked, rancher>>

JobDone(h) ==
  /\ at = "join" /\ job[h] = "active"
  /\ \/ job' = [job EXCEPT ![h] = "done"] /\ UNCHANGED faults
     \/ job' = [job EXCEPT ![h] = "failed"] /\ Fault
  /\ UNCHANGED <<masters, cluster, at, marked, rancher>>

Register(h) ==
  /\ job[h] \in {"active", "done"} /\ node[h] = "none"
  /\ node' = [node EXCEPT ![h] = "registered"]
  /\ UNCHANGED <<masters, snapshot, job, at, marked, rancher, faults>>

\* concurrently.run raises when a job has.
JobsEnd ==
  /\ at = "join" /\ \A h \in Hosts : job[h] \in {"done", "failed"}
  /\ at' = IF \E h \in Hosts : job[h] = "failed" THEN "raised" ELSE "count"
  /\ UNCHANGED <<masters, cluster, job, marked, rancher, faults>>

\* As many nodes as hosts: the node of the snapshot is counted for one that is missing.
NodesCounted ==
  /\ Cardinality(Nodes) + (IF snapshot = "none" THEN 0 ELSE 1) = Cardinality(Hosts)
  /\ seen' = [seen EXCEPT !.counted = snapshot # "none"]
  /\ Goes("count", "ready")
  /\ UNCHANGED <<cluster, marked, rancher>>

\* Mutant of is_cluster_ready: as many ready nodes as there are hosts but one.
ReadyButOne == Cardinality({h \in Nodes : node[h] = "ready"}) + 1 >= Cardinality(Nodes)

is_cluster_ready == snapshot # "not ready" /\ \A h \in Nodes : node[h] = "ready"

ClusterReady ==
  /\ is_cluster_ready
  /\ seen' = [seen EXCEPT !.ready = {h \in Hosts : node[h] = "ready"}]
  /\ Goes("ready", "label")
  /\ UNCHANGED <<cluster, marked, rancher>>

\* The node of a host is the one with its address; the main master is known by name.
LabelAndTaint(h) ==
  /\ at = "label" /\ h \notin marked
  /\ IF h = Main \/ h \in Nodes
     THEN marked' = marked \cup {h} /\ UNCHANGED at
     ELSE at' = "raised" /\ UNCHANGED marked
  /\ UNCHANGED <<masters, cluster, job, rancher, faults>>

AllMarked == marked = Hosts /\ Goes("label", "cert") /\ UNCHANGED <<cluster, marked, rancher>>

\* Mutant of CheckCertificate: the pods are restarted at once.
CheckWithoutWait ==
  /\ Goes("cert", IF expired THEN "list" ELSE "login")
  /\ seen' = [seen EXCEPT !.expired = expired]
  /\ UNCHANGED <<cluster, marked, rancher>>

CheckCertificate ==
  /\ Goes("cert", IF expired THEN "renew" ELSE "login")
  /\ seen' = [seen EXCEPT !.expired = expired]
  /\ UNCHANGED <<cluster, marked, rancher>>

AwaitRenewal == ~expired /\ Goes("renew", "list") /\ UNCHANGED <<cluster, marked, rancher>>

ListPods ==
  /\ Goes("list", "delete")
  /\ listed' = [s \in Slots |-> IF pod[s] = "none" THEN "no" ELSE "there"]
  /\ UNCHANGED <<cluster, marked, expired, pod>>

\* One after the other; a pod that is gone already is an ApiException, and the rest stay.
\* (A pod that took its place has another name.)
DeletePod(s) ==
  /\ at = "delete"
  /\ \/ /\ listed[s] = "there"
        /\ pod' = [pod EXCEPT ![s] = "none"]
        /\ UNCHANGED at
     \/ /\ listed[s] = "gone"
        /\ at' = "raised"
        /\ UNCHANGED pod
  /\ listed' = [listed EXCEPT ![s] = "no"]
  /\ UNCHANGED <<masters, cluster, job, marked, expired, faults>>

PodsDeleted ==
  /\ \A s \in Slots : listed[s] = "no"
  /\ Goes("delete", "deployed")
  /\ UNCHANGED <<cluster, marked, rancher>>

\* is_deployment_ready, by the status as it was before or is now.
AwaitDeployment == Goes("deployed", "login") /\ UNCHANGED <<cluster, marked, rancher>>

cli_login ==
  /\ \E s \in Slots : pod[s] # "none"
  /\ Goes("login", "ok")
  /\ UNCHANGED <<cluster, marked, rancher>>

Next ==
  \/ NodesCounted \/ ClusterReady \/ CheckCertificate
  \/ /\ \/ \E h \in Hosts :
             \/ NodeReady(h) \/ NodeNotReady(h) \/ Join(h) \/ JoinMaster(h) \/ JobDone(h)
             \/ Register(h) \/ LabelAndTaint(h)
        \/ \E s \in Slots : StartRancherPod(s) \/ EvictRancherPod(s) \/ DeletePod(s)
        \/ LoseSnapshotNode \/ ForgetSnapshotNode \/ RenewCertificate \/ HookFails
        \/ PickMain \/ RestoreSnapshot \/ StartServer \/ AwaitServer \/ JobsEnd
        \/ AllMarked \/ AwaitRenewal \/ ListPods \/ PodsDeleted
        \/ AwaitDeployment \/ cli_login
     /\ UNCHANGED seen

Spec == Init /\ [][Next]_vars

-----------------------------------------------------------------------------
\* When the hook returns, the node of every host has joined and is labelled and tainted.
\* All of them were ready when the hook waited for that, unless the node of the snapshot was
\* counted for one that had not joined.
SetupOkMeansJoined ==
  at = "ok" =>
    /\ Nodes = Hosts /\ marked = Hosts
    /\ seen.counted \/ seen.ready = Hosts

\* The certificate has not expired, and no pod of Rancher serves with one that had expired
\* when the hook looked.  (When it is renewed before the hook looks, pods that have loaded
\* the old one stay.)
SetupOkMeansRenewed ==
  at = "ok" => ~expired /\ (seen.expired => \A s \in Slots : pod[s] # "old")
-----------------------------------------------------------------------------
(* Why they hold.                                                          *)

Labelled == at \in {"cert", "renew", "list", "delete", "deployed", "login", "ok"}

\* The main master is registered before any other host is joined, and a host is marked
\* only if its node is there: that of the snapshot cannot stand in for it.
MarkedHaveJoined ==
  /\ at \notin {"masters", "raised"} => masters # {}
  /\ at \notin {"masters", "restore", "start", "raised"} => Main \in Nodes
  /\ marked \subseteq Nodes
  /\ Labelled => marked = Hosts

\* Nodes do not leave: all that were counted were to be ready.
CountedAreReady ==
  /\ at = "ready" \/ at = "label" \/ Labelled => seen.counted \/ Nodes = Hosts
  /\ at = "label" \/ Labelled => seen.counted \/ seen.ready = Hosts

\* A pod that starts after the renewal has the new certificate: if the hook has seen it
\* expired, the old ones are among those that are listed, until they are deleted.
OldPodsAreListed ==
  /\ at = "renew" => seen.expired
  /\ at \in {"list", "delete", "deployed", "login", "ok"} => ~expired
  /\ at = "delete" => \A s \in Slots : pod[s] = "old" => listed[s] = "there"
  /\ at \in {"deployed", "login", "ok"} /\ seen.expired => \A s \in Slots : pod[s] # "old"

Inv == TypeOK /\ MarkedHaveJoined /\ CountedAreReady /\ OldPodsAreListed
==============================================================================
