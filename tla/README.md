# Specifications of devops-automation-infra

TLA+ models of the parts of this repository in which state, time and concurrency
make the code hard to test: the caches and containers the test infrastructure
keeps on remote hosts, the hooks that reset them between tests, the helpers that
reset services in a Kubernetes cluster, and the calls by which tests drive the
services on a host. TLC checks every module on a small
instance; TLAPS proves most of the invariants for every value of the
constants.

## Inventory of the system

The program is a set of plugins that hang on a `host` (or `cluster`) object, and
of hooks by which a test framework calls them. Plugins are created on first use,
share the host, call each other through it, and keep their state as long as the
framework keeps the host's plugin objects.

| part | state it keeps | operations | what is hard | what makes it correct |
|---|---|---|---|---|
| TunnelManager (`plugins/tunnel_manager.py`) | dictionary service → SSH tunnel | `get_or_create`, `stop`, `clear` | no lock, test threads share it; `stop()` of a tunnel may raise; the dictionary is iterated | no dead tunnel is cached or handed out, no open tunnel is lost, calls return |
| ProxyContainer (`plugins/proxy_container.py`) | none; the container `automation_proxy` at the daemon | `run`, `restart`, `kill`, `clear` | asynchronous `--rm`, stale network endpoints, lost commands | the name is free when it is needed, a normal return tells the truth, runs recover |
| SSH (`plugins/ssh.py`) | `_connection` | `connect` | replaced while tunnels still run over the old one | connected to the running proxy |
| Session hooks (`devops_proxy_container`, `devops_docker_installer`, `installers/docker.py`) | none of their own | deploy, install, setup, test, teardown | hooks fail on one host of several; plugins cache across hooks | a test runs with every host connected and uses nothing stale |
| kubectl helpers (`utils/kubectl.py`) | none; stateful sets, claims, deployments in the cluster | scale, delete data, recycle claims, edit deployments | controllers act later, status lags, every wait may time out, callers retry | the old data is gone, the replicas are back |
| Docker (`plugins/docker.py`) | `_logged_in`; the containers at the daemon | start, stop, restart, run, remove, wait for containers | names match several containers, ports linger, errors are hidden by diagnostics | a normal return means that what was asked for runs, none is lost |
| DockerCompose (`plugins/docker_compose.py`, `compose_util`) | the containers of a service, their restart policy and environment | pull, up, down, recreate, run with an environment, adjust | several commands a call, each may fail | no service or policy is lost unseen |
| DockerRegistry (`plugins/docker_registry.py`, `utils/docker.py`) | the registry container, tags on both sides | deploy, start, stop | threads share the tags and the name; a killed registry is removed later | an image that was deployed is not an earlier build |
| Kafka on a docker host (`plugins/kafka.py`, `utils/kafka*.py`, `utils/rpyc_kafka_server.py`) | the flag `_rpyc`, the server process, topics and their retention | clients, ping, verify, clear topics | server start races, topics deleted later, a retention kept by the call only | one server, calls fail for a cause, topics keep their retention |
| Kafka in a cluster (`k8s_plugins/kafka.py`) | the operator's replicas, the patched resource | clear data, admin, consumer, producer | the operator acts while it ends, brokers are replaced one by one | the operator is back, clients meet brokers that listen |
| Memsql (`plugins/memsql.py`, `utils/memsql.py`) | connection; pipelines and tables | ping, truncate, reset pipelines | statements without a transaction, others in between | everything is read again after a reset |
| Rabbitmq (`plugins/rabbitmq.py`) | a kept connection; queues | verify, reset, look at a queue | one queue shared by all checks, a channel the broker closes | checks fail for a cause, queues that exist are found |
| Consul (`plugins/consul.py`, `utils/consul.py`) | key-value store, backup on the host, local `keys.tmp` | put, get, transactions in chunks, clear, backup and restore | crash between the steps of a backup, calls of several requests | what was written stays, the default keys are never lost |
| Seaweed, S3 (`plugins/seaweed.py`, `utils/s3.py`) | buckets and keys of a store | upload in parts, upload files, clear, verify | buckets listed, then deleted, by tests that share them | what was uploaded is there, checks do not fail by what earlier ones left |
| ResourceManager (`plugins/resource_manager.py`) | a bucket everybody shares, files on the host | list, upload, fetch, deploy, verify | its check lists before it uploads and deletes | checks fail for a cause, and fetch what is there |
| K8S (`plugins/k8s.py`) | configmaps, jobs, deployments, pods | insert keys, restart, re-run a job, count pods | read, change, write a file, put it, replace; callers share the file; errors swallowed; status lags | no key is lost unseen, waits are for the new pods and job |
| deployments (`utils/kubectl.py`) | environment, probe, claim of a deployment | edit, delete data, recycle a claim | replacements that conflict, claims that go away later | no edit is lost, the data is gone |
| cluster access (`k8s_master.py`, `k8s_plugins/kubectl.py`, `proxy_daemonset.py`, `devops_proxy_pod`) | service account, tunnels to the API, daemon set | run, kill, clear | errors are swallowed, early returns skip steps, master picked twice | the session's proxies are up, tunnels are cleared |
| K3s installer (`installers/k3s.py`) | nodes of the cluster, Rancher's pods | restore, join, label, taint, renew, log in | concurrent joins, a node of the snapshot in the count, a certificate renewed at any time | every host has joined and is labelled, no pod keeps a certificate that was seen expired |
| Rancher (`k8s_plugins/rancher.py`) | apps and catalogs | install, upgrade, delete, wait | asks first, then acts; others in between | the app is what the call made it |
| Prometheus parser (`utils/prometheus_parser.py`) | none | file samples, percentiles over buckets | boundaries, samples in any order | every sample is kept where it belongs, percentiles equal their definition |
| Gravity, node daemon, power, Helm, Prometheus plugin | none | one command or request a call | none | - |
| Postgresql, Redis, Mongodb | cached connections | queries | stale connections | see the session |

How they interact: the hooks call ProxyContainer, SSH and TunnelManager of each
host; every service plugin asks TunnelManager for a tunnel, which takes its
transport from SSH, which is connected to the container ProxyContainer runs.
The Kubernetes plugins call the kubectl helpers, which talk to the API server
through a tunnel of their own; the cluster's controllers act on what the helpers
patch, some time later. The services of a docker host do not call each other: what
they share is the host and the tests, several of which may use one service.

## Modules

### TunnelManager

Source: `plugins/tunnel_manager.py`. One host's manager, any number of threads.
`tunnels` is the dictionary, `pc`, `arg`, `opened`, `size`, `todo` and `jobs` are
the locals of a thread inside the manager: the membership test, the opening of a
tunnel, its store and the final lookup of `get_or_create` are separate steps,
because there is no lock; so are the iteration of `clear()`, its jobs and the
final emptying. A new key makes an iteration raise, as in Python. `opener`,
`failed` and `overwritten` are history. `Tunnels` are identities that are opened
once, and bound a behaviour.

`Isolated` is the assumption under which the repository calls the manager: the
hooks call `clear()` on the main thread with no test running, and tests that use
threads join them. Properties that need it say `Isolated =>`; the others are also
checked, and proved, without it.

**TunnelPool** is what the callers may rely on under isolation: a service is connected
by an open tunnel or it is not; a `get_or_create` that returns leaves it connected, one
that raises has done nothing, and only one that found it unconnected connects it, by a
tunnel of its own; a connection is taken away by `stop()` and `clear()` only, and never
comes back. TunnelManager implements it (`ImplementsTunnelPool`). The refinement takes
for a connection what is cached and open, so that the jobs of a `clear()` drop
connections one at a time and the final emptying drops the rest; the label of a thread
tells which call it is in.

### ProxyContainer

Source: `plugins/proxy_container.py` and `Docker.login`. One action per docker
command or wait of `run()` and `kill()`; the daemon is a second actor with
`AutoRemove` (`--rm`) and `Crash`. Commands fail before or after they took effect
and waits time out, from a budget `MaxFaults`.

**ProxyService** is what callers may rely on: `run()` takes the proxy there is away
and then starts at most one of its own, `kill()` only takes away, and a call that
returns tells the truth. ProxyContainer implements it (`ImplementsProxyService`);
the refinement maps the container to a proxy, the call under way to `busy`, and
what docker run has done in this call to `own`. That a refined step may be a
`TakeAway`, a `StartOwn`, a decay or a stutter, and never a start beside an old
proxy, is the content.

### ProxySession

Source: the two lifecycles of a session. Calls of ProxyContainer and
TunnelManager are single steps here, with the outcomes the two modules above give
them: `OutcomeTellsState` is why `ProxyRun` ends with a proxy, `NoTunnelLost` and
`StaleOnlyDuringClear` why `ClearTunnels` ends with none cached. Connections,
tunnels and cached clients are `none`, `live` or `stale`.

### StatefulSetReset

Source: `delete_stateful_set_data` with `scale_stateful_set`, `delete_pvc` and
`is_stateful_set_ready` of `utils/kubectl.py`, and `delete_app_data` of
`plugins/k8s.py`, which does the same by commands over SSH and takes the pods it
finds for the number of replicas. `spec`, `status`, `pods`, `ready`
and `claims` are the cluster's; `pc`, `replicas` and `next` are the locals of the
call. The controllers of the cluster are external: they create and delete pods and
claims and publish the status in their own time, so that every wait of the client
may be satisfied by a status from before its patch. A wait gives up from a budget
of timeouts; the caller may call again. One claim per ordinal stands for those of
all claim templates.

### KafkaCluster

Source: `k8s_plugins/kafka.py`. It EXTENDS StatefulSetReset, whose stateful set is
that of the brokers: `clear_data()` scales the operator's deployment to zero, resets
the set, and scales the operator up; `admin()`, `consumer()`, `producer()` and
`ping()` add the external listener to the custom resource if there is no bootstrap
service (`Expose`, `Patch`), and wait until every broker has been replaced and runs.
`operator` is the operator's pod. A deployment that is scaled to zero has no replicas
as soon as its pod is being deleted, so that the operator acts until its grace period
is over: it scales the set to the replicas the resource names and replaces brokers
one at a time. The operator and the controllers are external. Without operator the
set is one that the other plugins reset.

### ClusterSession

Source: `k8s_plugins/proxy_daemonset.py`, `k8s_plugins/kubectl.py`,
`k8s_plugins/k8s_master.py`, and the hooks of `devops_proxy_pod` ("pytest") and
`installers/k8s.py` ("gossip"). `run()` and `kill()` of the daemon set are one
action per call of the API or wait, each through the tunnel `kubectl` that a
master's TunnelManager caches (`kube`). `pod` and `oldPod` are the pods of the
daemon set and of the one deleted before: `daemonset.yaml` gives them the network
of their host and no readiness probe, so a pod counts as ready when its container
runs, binds the SSH port when the old sshd has let go of it, and starts again
until then. That the delete of a daemon set returns before its pods are gone is
Kubernetes' default (background deletion), and external, as are the steps of the
kubelet. A link is `own` (to a pod of the daemon set there is), `old` (to a pod
that is about to end) or `dead`. `session` holds what a behaviour does not change:
the lifecycle, whether the framework drops plugin objects between tests, which
hosts are masters, and the budget of faults.

### DockerService

Source: `plugins/docker.py`. The containers that match the name of a service, in
the order of `docker ps`, and six calls: `restart_container_by_service_name`,
`kill_container_by_service` and `run_container_by_service` act on all of them,
`stop_container`, `start_container` and
`overwrite_and_run_container_by_service_with_env` on the newest. `todo` is the
set of what xargs still has to hand to docker, which goes through it newest first
(`IsNext`), `errors` what the command has printed. The
failure path is modelled step by step: the diagnostics of
`try_executing_and_verbosely_log_error`, which may raise an error of their own, and
`_handle_docker_start_failure`. The daemon is external: ports linger, containers
crash and are revived. What its calls promise is checked in the run `services`
(`ContainersAreKept`), that restarts go on succeeding in a run of its own.

### ConsulBackup

Source: `backup_consul_keys` of `utils/consul.py`, one action per command, request
or file operation. Several hosts may be backed up at once and share the local file
`keys.tmp`. A backup is absent, whole or `torn`. The process dies anywhere;
what has been uploaded and written by then stays.

### Percentiles

Source: `percentiles_on_sample` of `utils/prometheus_parser.py`, the loop as a state
machine: `pos` is the bucket of the `for`, `index` the percentile of the `while`.
Percentiles are in thousandths, in which the ones the parser asks for (0.5, 0.9,
0.99) are whole; the rounding of floats, which the code does not treat, is left out.
Like the services below it is checked in the run `services`.

### The services of a host

Each of these modules has a `call` (or `pc` and `op`) per caller: the method and the
next command it will send. A command is one step, with those of other callers and
of the server in between; it may fail, before or after it took effect, from a budget
`MaxFaults`. Fields marked as history (`touched`, `since`, `excused`, ...) record what
others did to the call, so that a property can say what a return or an error means
*unless* that happened; everything not excused is claimed.

| module | source | state | what is particular |
|---|---|---|---|
| MemsqlPipelines | `plugins/memsql.py`, `utils/memsql.py` | node, pipeline with its positions, tables | the server alters stopped pipelines only; statements break with the connection |
| KafkaRpyc | `plugins/kafka.py`, `utils/kafka_client.py`, `utils/rpyc_kafka_server.py` | lock, flag, server process, broker, topic and its log | the start is under `_init_lock`, the connection is not; the broker deletes later |
| KafkaTopics | `utils/kafka.py` | retentions, topics with messages, the consumer | the retention to go back to is in the call only; a wait without partitions ends at once |
| RabbitmqQueues | `plugins/rabbitmq.py` | queues, messages in order, the kept connection | a passive declare of a missing queue closes the channel |
| ComposeService | `plugins/docker_compose.py`, `compose_util/compose_manager.py` | containers with policy and environment | the policy is read, the container removed, a new one run, the policy set: four commands |
| DockerRegistry | `plugins/docker_registry.py`, `utils/docker.py` | the builds behind each tag on both sides | the `finally` removes the tag of whoever uses it |
| S3Store | `plugins/seaweed.py`, `utils/s3.py`, and what Seaweed inherits of `plugins/resource_manager.py` | buckets, keys, multipart uploads | listings are read before what they list is deleted |
| ResourceManager | `plugins/resource_manager.py` | keys of the test resources' bucket, what is deployed on the host | the listing is from before the upload: files[0:2] may be a file the check deletes before it fetches it |
| ConsulStore | `plugins/consul.py`, `utils/consul.py` | server, keys, requests to make | layered reads, deletes before puts, chunks; an empty value comes back as None; files removed under a running server |
| K8sHost | `plugins/k8s.py` | configmap, deployment, pods with the map they started with | the map goes through a file on either side that all callers of a service write: opened, written, put, sent, with the version that was read; `delete()` hides errors; status lags |
| K8sJob | `plugins/k8s.py` | a job | replaced by force: deleted, then created |
| DeploymentEdits | `utils/kubectl.py` | environment in order, probe | conflicts, which nobody retries; `change_env` by position |
| DeploymentData | `utils/kubectl.py` | replicas, status, pod, claim, cleaner pods | a claim goes when no pod holds it; nothing creates it again |
| K3sSetup | `installers/k3s.py`, `k8s_plugins/rancher.py` | roles, nodes, jobs, certificate, Rancher's pods | a node of the snapshot counts, and is ready for as long as nobody has found it gone; the certificate is renewed whenever the cluster gets to it |
| RancherApps | `k8s_plugins/rancher.py` | one app, one catalog | what was asked may have changed before the command |
| MetricsParser | `utils/prometheus_parser.py` | families, what has been filed where | the order of families and samples is free; with or without TYPE line; a metric of another type may be named like buckets |

**MCHostServices** checks all of them, with DockerService and Percentiles: `focus` names
the module a behaviour is of, and `v1` to `v12` stand for its variables. Since the
services do not interact, the sum of their state spaces is the whole of it.
`HostSpec` is the part of it that the run `services` checks, and `ClusterSpec` the part about
clusters of kubernetes (K8sHost, K8sJob, DeploymentEdits, DeploymentData, K3sSetup,
RancherApps), which has the run `cluster_services`; the theorems are about `Spec`, which is
both. Each property of these runs is the conjunction of the properties that the modules of
one area state; those of the cluster include the types of their modules.

## Runs

| run | bounds | what it shows |
|---|---|---|
| `tunnel_isolated` | 3 threads, 2 services, 4 tunnels, symmetric in tunnels; all threads share one service | under isolation no caller is given a dead tunnel or an exception; an open tunnel nobody reaches is a `stop()` that raised or a lost race; the abstract TunnelPool is implemented |
| `tunnel_free` | 2 threads, 2 services, 2 tunnels, no isolation | no dead tunnel outlasts a `clear()`; every call ends |
| `proxy_container` | 3 faults | the name is free when a container is run; a normal return tells the truth; the abstract ProxyService is implemented; runs go on succeeding |
| `session` | 2 hosts, 2 services, both lifecycles, plugin objects kept or dropped | hosts are connected to their running proxy while in use, no stale tunnel or client reaches a test |
| `reset` | 2 replicas with claims, an operator or none, up to 2 timeouts or interferences | what a normal return of a retried reset, of `clear_data()` and of a client's first call means; brokers that are lost for good; all calls return normally without timeouts |
| `cluster` | 2 hosts; gossip with 2 masters, 1 fault; gossip with dropped plugins, 1 fault; pytest, 2 faults | `run()` tells the truth; every dead link has a known cause; dead API tunnels are for ever; setups go on succeeding |
| `cluster_hookdoc` | 2 hosts, no fault | violated: the hook "after connected to" meets connections to a pod of the deleted daemon set |
| `docker` | 3 containers in any order, 3 faults | once faults stop, restarts go on succeeding, whatever ports and errors the commands before have left |
| `backup` | 2 hosts, 2 faults | default keys are never lost; blocked hosts stay blocked |
| `backup_restore` | 1 host, no fault | violated: the keys are not restored |
| `services` | 1 285 324 states, 1.5 minutes; 2 callers and 2 things (partitions, topics, files, pods, ...), symmetric in both, 3 containers or hosts, 2 pulls, 2 builds, resources of at most one part, chunks of 2, 1 fault (docker-compose: 2, docker: 3); percentiles: 3 buckets, counts 0 to 4 in any order, requests of up to 3 | what a return or an error of each call means, whatever other callers did in between; a normal return with several matching containers, and bounded loss of containers; the parser keeps every sample, the pass over the buckets returns what the definition says |
| `cluster_services` | 1 125 353 states, 1 minute; the same for the modules of a cluster: 2 callers, 2 pods, 3 hosts, 1 fault | edits and keys are not lost to concurrent ones, waits are for the pods and the job there are, deleted data is gone, and a setup that returns is complete |

Some properties are conjunctions of named parts, to be read in their modules:
`NothingStale` (session) and `OwnPodsOrExcused` (cluster) contain the type invariant of
the module with `NoStaleTunnel` and `NoStaleClient`, `ConnectedOrExcused` and
`NoDeadTunnel`; `ContainersAreKept` (services) is `OkMeansStarted`, `OkMeansStopped` and
`LossIsBounded` of DockerService. The type invariants of TunnelManager, ProxyContainer
and ConsulBackup are proved and not repeated in the runs; those of the services are the
conjuncts of `TypeOK` of MCHostServices and, for those of a cluster, also of the properties
of `cluster_services`.

Why these bounds are enough. Races of the TunnelManager are between two threads on
one service, a third one adds a bystander that keeps the dictionary changing; four
tunnels let each of the three open one and one of them open another. A session
needs two hosts, as what goes wrong is a hook that fails on one and not on the
other. Two replicas give the loop over the claims a first and a last one, and let one
broker be replaced and not the other; two timeouts let a retry of a retry fail. In a
cluster two faults are needed to lose a call and a pod in the same setup; the second
master is there because `k8s_master` may answer differently when it is asked twice.
For the containers of a service, a handler that takes the newest of three leaves two
others, and three faults let the port of each linger. Two faults suffice for a backup
to be interrupted and its repair to fail as well. What goes wrong in a service is a step
of a second caller, or a failure, between two steps of the first: two callers and
one fault give all of these, and calls that follow one another give the retries;
docker-compose has one caller, and a second fault for its retry of a pull. Three
hosts are two that join and a main master. Every run explores its whole state
space; faults, timeouts, tunnels and inputs are the only things bounded, and each
bound is a constant of its module.

## Fairness

Nobody has to make a call: in every module the start of a call or of a fault is
without fairness. What is assumed to go on is what the code has started.

- TunnelManager: a thread inside the manager runs on, and `Tunnel.stop` returns or
  raises (weak fairness for each thread).
- ProxyContainer: commands return, and the daemon removes an exited `--rm`
  container (weak fairness for each).
- KafkaCluster with StatefulSetReset: calls of the plugin and of the reset go on; each
  controller acts; the status is published; the operator's pod starts and ends, and a
  running operator reconciles.
- ClusterSession: hooks and the framework go on; the controller and the kubelet of
  each host act; an old pod ends when its grace period is over.
- DockerService: commands return (each has a timeout or is a local docker command),
  and a docker-proxy lets go of its port.

Faults come from budgets, so they stop; the liveness properties say what happens
then. No strong fairness is used. The services are checked for safety only, and
without a check for deadlock: when the calls and changes that a module bounds are
used up, nothing has to follow.

## Proofs

Eight modules hold the theorems. Each result is for all values of the constants that
satisfy the named `ASSUME` of the module (`ConstantsAssumption`, `SessionAssumption`,
`BoundsAssumption`, ...), which say no more than what the constants are: that bounds are
numbers, that hosts and the containers of a service are finitely many, that `None` is
nobody. Every proof has the same
form: a strengthening `Inv` of the type invariant that holds initially, that each action
preserves (a lemma per action, or per group of actions that disturb the same
conjuncts), and that implies the property. TLC has checked each `Inv` on the instance
of its run.

| module | theorem | property of the run |
|---|---|---|
| TunnelManagerProofs | `NoStaleTunnelStaysCached`, `OverwriteOnlyByRace`, `HandsOutOpenTunnels`, `CallsDoNotRaise`, `TunnelsAreNotLost` | `StaleOnlyDuringClear`, `OverwriteNeedsSharedService`, `HandedOutIsOpen`, `NoCallRaises`, `NoTunnelLost` |
| | `Implements` | `ImplementsTunnelPool` |
| | `TypeCorrect`, `StopsOnce` | (types; no two threads stop one tunnel) |
| ProxyContainerProofs | `NameIsAlwaysFree`, `OutcomesAreRight`, `Implements`, `TypeCorrect` | `NameIsFree`, `OutcomeTellsState`, `ImplementsProxyService` |
| ProxySessionProofs | `HostsAreConnected`, `NothingIsStale` | `ConnectedWhileInUse`, `NothingStale` |
| KafkaClusterProofs | `ResetsDeleteAllClaims`, `ResetsWaitForPods`, `ClearsAreResets`, `ClientsFindListeners`, `LostBrokersStayLost` | `OkMeansReset`, `UndisturbedReset`, `ClearedMeansReset`, `ClientsAreServed`, `BrokersLost` |
| ClusterSessionProofs | `RunHasDeployed`, `PodsAreOwnOrExcused`, `CutOffSessionsStayCutOff` | `DeployedByThisRun`, `OwnPodsOrExcused`, `DeadKubectlIsForever` |
| ConsulBackupProofs | `DefaultsAreNeverLost`, `SessionsStartOnDefaults`, `StoppedHostsStayStopped`, `TypeCorrect` | `DefaultsKept`, `OkMeansDefaults`, `BlockedForever` |
| DeploymentProofs | `DeploysStayCurrent`, `ServicesAreKept`, `ContainersStay`, `DataGoesWithTheCall`, `ConcurrentEditsHold`, `SetupsAreComplete`, `BrokersAreServed` | `DeploysAreCurrent`, `ServiceIsKept`, `ContainersAreKept`, `DataIsGone`, `EditsAndWaitsHold`, `ClusterIsSetUp`, `BrokersServe` |
| DataServicesProofs | `UploadsAndChecksAreSound`, `ResetsAreSound`, `ParsesKeepSamples`, `PassIsCorrect`, `StoredKeysHold`, `TypesAreKept` | `UploadsAndChecksHold`, `MemsqlResets`, `MetricsAreKept`, `PercentilesAreRight`, `ConsulHolds`, `TypeOK` |

- **TunnelManager.** `Inv` is inductive without isolation. The properties are not
  inductive by themselves: that a stopped tunnel is cached only during a `clear()`
  needs that the tunnel a thread is about to store, or one that `stop()` has popped,
  is nowhere in the dictionary (`OpenedApart`, `JobsApart`), and that a tunnel is
  cached under one service only (`CachedApart`, from `Births`); that only another
  thread overwrites needs `CheckedAbsent`, what a thread may conclude from the
  membership test it made earlier. Under isolation `IsolatedInv` is inductive on top
  of `Inv`: a thread in `stop()` or `clear()` is alone (`MaintenanceAlone`), so the
  dictionary keeps its size under the iterator (`SizeKept`) and `clear()` has a job
  for all it is going to forget (`Claimed`). That it implements TunnelPool
  (`Implements`) follows from both: no `clear()` is under way when a membership test is
  made, so the dictionary is what is connected (`PoolIsDictionary`), a tunnel that is
  stopped takes away the connection of one service and of no other (`PoolStops`), and
  the error of a disturbed iterator, which TunnelPool does not have, is impossible.
- **ProxyContainer.** `NameIsFree` holds where docker run needs it because the name
  stays free from the return of `kill()` on (`NameStaysFree`); `OutcomeTellsState`
  because `run()` waits for a container that it started in this call
  (`WaitsForItsOwn`). That it implements ProxyService (`Implements`) needs in addition
  what each call knows of the proxy at each step (`CallKnows`): `run()` starts its own
  only when the old one is gone, and a second time only when the first start came to
  nothing.
- **ProxySession.** A host that the hook is done with stays connected while it is at
  work on the others (`DoneMeansConnected`, with `StepsOfPhase`); no tunnel and no
  client is stale because none is cached from the step of a setup that clears or drops
  them on (`Cleared`, `Dropped`), and what a test opens later goes stale only with a
  proxy that exits by itself.
- **StatefulSetReset and KafkaCluster** (against `KSpec`, in which the set is the
  brokers' or, with no operator, any other). With timeouts, a reset that returns has
  deleted every claim there was because of what it has not come to yet (`OldClaims`)
  and because nobody else scales the set once it is being scaled back (`ScaledBack`).
  Without them every wait means what it seems to mean: a status of no replicas is one
  of an empty set (`Down`), and one of all replicas is of the set as it is now (`Back`),
  for the published status was not one of an empty set when the call began (`Whole`).
  The exception is a set without claims whose reset has raised at the first pod, and
  stays at zero (`Lost`). `Exposure` adds that the operator rolls brokers only in the
  call that asks for the listener.
- **ClusterSession.** What `run()` has deployed has a pod on each host until the next
  `kill()` (`PodsOfThisRun`, `RunReturned`), a host the hook has passed stays connected
  or has an excuse (`ConnectedSoFar`), and a dead tunnel is left only by a `kill()` that
  did not reach its clear (`TunnelsCleared`). A wait for as many ready pods as there are
  hosts is one for a pod on every host, because the hosts are finitely many.
- **ConsulBackup.** `DefaultsKept` needs what a call knows at each of its steps
  (`Progress`): whatever is about to remove or replace the backup has compared it
  with the store, or has found none. That what it read from `keys.tmp` is its own
  host's needs that no other call is under way (`OneAtATime`), and that tests change
  the keys only after a session that left a backup (`BackedUp`). Faults need no
  bound: each of them only ends a call.
- **Percentiles.** `LoopInvariant`: what has been found is the first bucket that is
  large enough, what has been passed is too small for the percentile looked for
  next. It carries over to the next percentile because the rounded-up ranks ascend
  (`PercentilesSearchMonotone`), which is where ascending requests are needed.
- **The services.** The section "Why it holds" at the end of each module has its `Inv`,
  part of the model because it says what the code relies on. All of them have the same
  three ingredients: the steps that a call goes through, what a call has done that
  nobody undoes unless it is told so (in the history of the call), and who may be under
  way at the same time. Some examples: two clearings of S3 may not be under way unless
  one is excused (S3Store, `Apart`); wherever an image is on its way to the host it is
  of no build older than the deploy (DockerRegistry, `Current`); only the call that
  replaces a container knows its restart policy meanwhile (ComposeService, `Excused`,
  `WantedIsExcused`); what has been read of a deployment is what is there as long as it
  is fresh (DeploymentEdits, `ReadIsCurrent`); all that is marked as a server has joined
  (K3sSetup, `MarkedHaveJoined`), and once the setup has seen the certificate expired, every pod
  with the old one is among those it lists (`OldPodsAreListed`); a file that Kubernetes does not
  refuse has every key of the map, so the map only grows (K8sHost, `FilesKeepKeys`); once a family has had buckets, no bucket is in a
  family still to come (MetricsParser, `FamiliesApart`); what is left of a call of Consul
  is the end of its requests, what it has sent before others undo only by touching the
  key (ConsulStore, `Pending`, `Written`, `Seen`); only the thread that holds the lock
  starts a rpyc server (KafkaRpyc, `StartsOnce`, `FindsOwn`); the topic of a call is the
  one whose retention is not its own (KafkaTopics, `KeptIsOwn`); a check finds at its
  next request what the one before it has left, unless others touched it, and the kept
  connection is closed only for a reason (RabbitmqQueues, `Finds`, `LinkIsKept`). The
  theorems are about the composition: `focus => Inv` for each module is an invariant of
  the `Spec` of MCHostServices, whose `TypeOK` follows from all of them.

- **DockerService.** That a call that returned has started or stopped what it listed
  needs that what the command has passed without an error is as it should be (`Passed`),
  that it lists all there are unless docker ps failed (`AllListed`), and that it acts on
  containers there are (`CallsKnow`). That a container is lost by a fault only needs
  `Missing`: while one is being replaced it is missing without a fault. The lemmas
  beneath are about the sequence of `docker ps`: to cut a container out leaves every
  other once (`DockerRemoves`), to run one puts it first (`DockerRuns`). The names have
  to be finitely many, as those that are missing are counted.
- **From then on never** (`LostBrokersStayLost`, `CutOffSessionsStayCutOff`,
  `StoppedHostsStayStopped`). Each names a set of states from which no step leads out
  (`LeftAtZero`: no pod, none asked for, no operator, and a reset that is under way has
  read 0 as the number of replicas; `CutOff`: every tunnel to the API is dead and kept,
  so that no setup gets past the first call of `run()` and no teardown past that of
  `kill()`, which would clear them; `Stuck`: no call for the host gets past the backup
  it cannot load, or past the comparison with one its keys differ from), and shows that
  what the property starts from is in it. Temporal reasoning does the rest.

Only model-checked: the liveness properties (`CallsReturn`, `RunsKeepSucceeding`,
`CallsSucceed`, `SetupsKeepSucceeding`, `RestartsKeepSucceeding`), as liveness under
fairness is out of the prover's reach. Every other property of the passing runs is
stated by a theorem.

## What the checks found

Two places where the code does not do what a line of the repository says of it are
shown by runs that end in a violation:

- `cluster_hookdoc`: `pytest_after_proxy_container` is documented as called when the
  proxy is connected to. In a cluster, the connection may be to a pod of the daemon
  set that was just deleted, and ends with it.
- `backup_restore`: the line commented "restore keys from backup file" calls a method
  that `Consul` does not have; the keys stay as they are, and every later session of
  that host fails.

Other behaviour that properties describe as it is, and that a reader may not expect:

- A tunnel is left running for good when two threads ask for one service at once
  (`OverwriteNeedsSharedService`).
- A reset that raised at zero replicas leaves the set at zero for ever, and with it the
  operator that would bring the brokers back (`BrokersLost`). A retry after a timeout
  may return before the pods are ready, or delete the claims of pods that are there
  (`UndisturbedReset` holds without timeouts only).
- A client of Kafka in a cluster that is asked for again after a timeout does not
  wait for the brokers (`ClientsAreServed`).
- A dead tunnel to the API is never replaced while plugin objects are kept
  (`DeadKubectlIsForever`).
- `ProxyContainer.run()` that had to remove a stale endpoint may raise although the
  container runs; the next run succeeds (`RunsKeepSucceeding`).
- A restart of several containers whose handler had to help may leave all but the
  newest stopped and return normally (`OkMeansStarted`, a part of `ContainersAreKept`).
- Half an uploaded backup stops all later sessions (`BlockedForever`); overlapping
  backups may lose the default keys (`DefaultsKept` excludes them).
- `percentiles_on_sample` is right for ascending percentiles only
  (`PercentilesAreRight`).
- A rpyc server that died is never started again: every later client of that plugin
  object fails (`CallsFailForCause` names it).
- A topic on whose clearing a call has failed keeps a retention of a second for good,
  which the next call takes for its own (`RetentionLostByFailure`). A consumer that has
  no partitions is not waited for.
- `get_queue` of a missing queue makes the Rabbitmq connection of the plugin object
  unusable for good (`FoundUnlessMissed`); a message that a test leaves in the queue
  of the check fails later checks (`ChecksAndResetsHold`).
- `clear_and_start` of Consul on a running server clears nothing
  (`ClearedWhenDown` is for a server that was down).
- `ping` and `reset_state` of the Seaweed plugin always raise, as `_s3_resource` returns
  a client; uploads whose parts failed are never aborted (S3Store, `uploads`).
- Pods keep the configmap they started with if the command that deletes them failed,
  for `delete()` hides every error (`InsertedKeysAreKept`). `change_env` for a name that
  is not there overwrites the last variable (`EditsAreKept`).
- `delete_deployment_data` does not create the claim again: the pod that comes back
  waits for it; a template without volumes raises with the deployment at zero
  (`DataIsDeleted`).
- Of a summary with several label sets the parser keeps one; a metric without TYPE
  line may make it raise, and one that is no histogram but is named `*_bucket` does so
  with a TYPE line as well: what has no label `le`, or no count, is a `KeyError`
  (`SamplesAreKept`, `NamedLikeBuckets`).
- A key of Consul with an empty value is a layer that `get_key_layered` passes over,
  although it is there (`LayeredReadFindsWhatStays`, about layers with a value).
- The check of the resource manager raises on a bucket without two resources; and a file
  that a failed check has left in the bucket is listed by the next one, which deletes it
  and then fails to fetch it (`ChecksFailForCause`, `MayFail`).
- Two callers of `insert_kv_into_configmap` for one service write the same file. The
  `kubectl replace` of the first may send what the second has written: the first returns
  normally, and its key is nowhere (`InsertedKeysAreKept` is about calls whose file
  nobody has written meanwhile, `overwritten`). TLC finds this when that premise is taken
  away. No later call repairs it.
- A setup of k3s may pass its wait for nodes before one host has joined, if the snapshot
  holds a node that is listed as ready; the labels find it, since that node has no host's
  address (`SetupOkMeansJoined`, `counted`). A certificate that the cluster renews just
  before the setup looks at it leaves pods that loaded the old one
  (`SetupOkMeansRenewed` is about a certificate that the setup saw expired).
- `upgrade_app` without settings names no app, `delete_catalog` deletes nothing, and
  `install_app` of an app there is waits whether told to or not (`AppsHold`,
  `CatalogsHold`).

What the premises of properties leave out, in one place: calls of the TunnelManager while
`clear()` runs (`Isolated`, which the hooks provide; `StaleOnlyDuringClear` does without);
resets that found fewer pods than there should be (`replicas = Replicas` in
`OkMeansReset`: they leave claims behind); clients of Kafka after a wait has timed out;
sessions in which backups of two hosts overlapped (`overlapped`: the shared `keys.tmp` may
cost the default keys); cached clients of plugin objects that the framework keeps.

Seen in the code beside the models: the last wait of `delete_stateful_set_data` leaves
out the namespace (`utils/kubectl.py:140`); `pod_exec` splits the command it is given,
so that `bash -c` of Rancher's `clear_cache` runs `rm` alone (`utils/kubectl.py:83`);
`utils/s3.py:42` and line 49 use different keys; the login of Rancher appends to
`/etc/hosts` every time; `installers/k8s.py:24` and the setup hook choose their hosts
differently; `wait_service_status_x_times` counts one time more than asked for, and not
in a row; `number_of_running_containers` subtracts from a string.

## Not modelled, and why

- *Gravity, power, node daemon, Helm, Prometheus plugin, Rancher's and K8S's reads*:
  one command or request a call, whose output is parsed; no state of the program, no
  order of steps that could be wrong.
- *Postgresql, Redis, Mongodb*: wrappers of client libraries; what may be wrong, a
  connection that outlives its tunnel, is in ProxySession.
- *Docker*: waits for a status, copies, logs and images: a wait polls one command, and
  what it promises is its own condition.
- *docker-compose*: the editor of compose files; text in, text out.
- *Kafka*: readers that a test drives itself: a loop over one consumer that the test owns.
- *Consul*: the `get_key_layered` of `utils/consul.py`, which stops at a layer with an
  empty value, and whose only caller (`utils/node_daemon.py:34`) leaves out an argument.
- *Kafka*: an answer that is lost after the rpyc server has started; *Memsql*: which docker
  command of start and stop has failed (one error stands for all).
- *K8S plugin*: labels, nodes, namespaces, services, secrets: single commands.
- Start-up scripts, images, logging, downloads of logs and the wording of commands
  change nothing that a property is about.

`PROJECT.json` lists each part with its state.

## Plan

Little is left to model that a property would tell more about than the code does: the
join of a Gravity cluster, which waits for an operation of another node, and
`run_container_by_service_with_env`, which starts a container the name of the service
does not match.

Worth stating next: what the hooks of a session promise a test, a connected host and no
stale object, as an abstract specification that ProxySession and ClusterSession both
implement; and a composition of TunnelPool and ProxyService in place of the single
steps by which ProxySession takes their promises. Worth proving with it: that these
steps are steps of the two abstract specifications.
