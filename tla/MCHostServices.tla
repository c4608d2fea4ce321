--------------------------- MODULE MCHostServices ---------------------------
(***************************************************************************)
(* The services of hosts and clusters for TLC, in two runs: their modules  *)
(* do not interact, so every behaviour is one of a single one of them,     *)
(* which focus names from the first state on.  The variables of each stand *)
(* for as many of v1 to v12, in the order in which the module declares     *)
(* them; those it does not need stay None.                                 *)
(***************************************************************************)
EXTENDS Naturals, Sequences, FiniteSets, TLC

CONSTANTS
  Actors,     \* the threads or processes of tests that make calls at the same time
  Things,     \* what a service has several of: partitions, topics, files, pods
  Boxes,      \* containers, or the hosts of a cluster
  None,
  Histograms, \* cumulative counts of the buckets of a sample, in the order of the dictionary
  Counts,     \* its count
  Requests,   \* percentiles a caller asks for
  Tries, MaxBuilds, MaxChunks, ChunkSize, MaxFaults

ASSUME BoundsAssumption ==
  /\ Tries \in Nat \ {0} /\ ChunkSize \in Nat \ {0} /\ MaxBuilds \in Nat \ {0}
  /\ MaxChunks \in Nat /\ MaxFaults \in Nat

ASSUME ThingsAreFinite == IsFiniteSet(Things) /\ Things # {}

ASSUME BoxesAreFinite == IsFiniteSet(Boxes)

ASSUME NoneIsNobody == None \notin Actors \cup Things

ASSUME InputAssumption ==
  /\ Histograms \subseteq Seq(Nat)
  /\ Counts \subseteq Nat
  /\ Requests \subseteq Seq(Nat)

VARIABLES focus, v1, v2, v3, v4, v5, v6, v7, v8, v9, v10, v11, v12

vars == <<focus, v1, v2, v3, v4, v5, v6, v7, v8, v9, v10, v11, v12>>

Memsql == INSTANCE MemsqlPipelines WITH
  Callers <- Actors, Partitions <- Things, Tables <- {"table"}, node <- v1, pipeline <- v2,
  filled <- v3, tables <- v4, call <- v5, faults <- v6
Rpyc == INSTANCE KafkaRpyc WITH
  Threads <- Actors, Nobody <- None, lock <- v1, rpyc <- v2, started <- v3, server <- v4,
  broker <- v5, topic <- v6, log <- v7, pc <- v8, op <- v9, excused <- v10, faults <- v11
Topics == INSTANCE KafkaTopics WITH
  Topics <- Things, retention <- v1, filled <- v2, open <- v3, grouped <- v4, op <- v5,
  at <- v6, todo <- v7, topic <- v8, kept <- v9, waited <- v10, failed <- v11,
  faults <- v12
Compose == INSTANCE ComposeService WITH
  MaxFaults <- MaxFaults + 1, box <- v1, pulled <- v2, op <- v3, at <- v4, wanted <- v5,
  mine <- v6, tries <- v7, excuse <- v8, faults <- v9
Docker == INSTANCE DockerService WITH
  Names <- Boxes, MaxFaults <- MaxFaults + 2, order <- v1, up <- v2, crashed <- v3,
  lingering <- v4, op <- v5, pc <- v6, todo <- v7, listed <- v8, errors <- v9,
  handled <- v10, outcome <- v11, faults <- v12
Registry == INSTANCE DockerRegistry WITH
  Deployers <- Actors, image <- v1, temp <- v2, registry <- v3, stored <- v4, pulled <- v5,
  deployed <- v6, deploy <- v7, untidy <- v8, faults <- v9
S3 == INSTANCE S3Store WITH
  Clients <- Actors, Files <- Things, store <- v1, buckets <- v2, uploads <- v3, job <- v4,
  faults <- v5
Manager == INSTANCE ResourceManager WITH
  Callers <- Actors, bucket <- v1, deployed <- v2, call <- v3, faults <- v4
Consul == INSTANCE ConsulStore WITH
  Callers <- Actors, Edited <- {"OVERRIDE"}, server <- v1, store <- v2, erased <- v3,
  todo <- v4, call <- v5, faults <- v6, empty <- v7
K8s == INSTANCE K8sHost WITH
  Callers <- Actors, Slots <- Things, map <- v1, deployment <- v2, pod <- v3, call <- v4,
  faults <- v5, local <- v6, host <- v7
Jobs == INSTANCE K8sJob WITH
  Callers <- Actors, job <- v1, call <- v2, faults <- v3
Edits == INSTANCE DeploymentEdits WITH
  Callers <- Actors, Base <- None, env <- v1, probe <- v2, call <- v3, faults <- v4
Data == INSTANCE DeploymentData WITH
  Callers <- Actors, volumes <- v1, spec <- v2, status <- v3, pod <- v4, ending <- v5,
  claim <- v6, cleaner <- v7, call <- v8, faults <- v9
Rabbit == INSTANCE RabbitmqQueues WITH
  Callers <- Actors, queues <- v1, messages <- v2, link <- v3, missed <- v4, call <- v5,
  faults <- v6
Metrics == INSTANCE MetricsParser WITH
  Labels <- Actors, Bounds <- Things, content <- v1, typed <- v2, families <- v3,
  pending <- v4, remaining <- v5, buckets <- v6, histograms <- v7, stats <- v8,
  outcome <- v9
Percents == INSTANCE Percentiles WITH
  values <- v1, total <- v2, percentiles <- v3, pos <- v4, index <- v5, result <- v6, pc <- v7
Rancher == INSTANCE RancherApps WITH
  Callers <- Actors, app <- v1, catalog <- v2, call <- v3, faults <- v4
K3s == INSTANCE K3sSetup WITH
  Hosts <- Boxes, Slots <- Things, masters <- v1, node <- v2, snapshot <- v3, job <- v4,
  at <- v5, marked <- v6, expired <- v7, pod <- v8, listed <- v9, faults <- v10,
  seen <- v11

\* What a module with n variables leaves over.
After3 == <<v4, v5, v6, v7, v8, v9, v10, v11, v12>>
After4 == <<v5, v6, v7, v8, v9, v10, v11, v12>>
After5 == <<v6, v7, v8, v9, v10, v11, v12>>
After6 == <<v7, v8, v9, v10, v11, v12>>
After7 == <<v8, v9, v10, v11, v12>>
After9 == <<v10, v11, v12>>
After11 == <<v12>>

Init ==
  \/ /\ focus = "memsql" /\ Memsql!Init
     /\ v7 = None /\ v8 = None /\ v9 = None /\ v10 = None /\ v11 = None /\ v12 = None
  \/ /\ focus = "rpyc" /\ Rpyc!Init
     /\ v12 = None
  \/ focus = "topics" /\ Topics!Init
  \/ /\ focus = "compose" /\ Compose!Init
     /\ v10 = None /\ v11 = None /\ v12 = None
  \/ focus = "docker" /\ Docker!Init
  \/ /\ focus = "registry" /\ Registry!Init
     /\ v10 = None /\ v11 = None /\ v12 = None
  \/ /\ focus = "s3" /\ S3!Init
     /\ v6 = None /\ v7 = None /\ v8 = None /\ v9 = None /\ v10 = None /\ v11 = None
     /\ v12 = None
  \/ /\ focus = "manager" /\ Manager!Init
     /\ v5 = None /\ v6 = None /\ v7 = None /\ v8 = None /\ v9 = None /\ v10 = None
     /\ v11 = None /\ v12 = None
  \/ /\ focus = "consul" /\ Consul!Init
     /\ v8 = None /\ v9 = None /\ v10 = None /\ v11 = None /\ v12 = None
  \/ /\ focus = "k8s" /\ K8s!Init
     /\ v8 = None /\ v9 = None /\ v10 = None /\ v11 = None /\ v12 = None
  \/ /\ focus = "job" /\ Jobs!Init
     /\ v4 = None /\ v5 = None /\ v6 = None /\ v7 = None /\ v8 = None /\ v9 = None
     /\ v10 = None /\ v11 = None /\ v12 = None
  \/ /\ focus = "edits" /\ Edits!Init
     /\ v5 = None /\ v6 = None /\ v7 = None /\ v8 = None /\ v9 = None /\ v10 = None
     /\ v11 = None /\ v12 = None
  \/ /\ focus = "data" /\ Data!Init
     /\ v10 = None /\ v11 = None /\ v12 = None
  \/ /\ focus = "rabbitmq" /\ Rabbit!Init
     /\ v7 = None /\ v8 = None /\ v9 = None /\ v10 = None /\ v11 = None /\ v12 = None
  \/ /\ focus = "metrics" /\ Metrics!Init
     /\ v10 = None /\ v11 = None /\ v12 = None
  \/ /\ focus = "percentiles" /\ Percents!Init
     /\ v8 = None /\ v9 = None /\ v10 = None /\ v11 = None /\ v12 = None
  \/ /\ focus = "rancher" /\ Rancher!Init
     /\ v5 = None /\ v6 = None /\ v7 = None /\ v8 = None /\ v9 = None /\ v10 = None
     /\ v11 = None /\ v12 = None
  \/ /\ focus = "k3s" /\ K3s!Init
     /\ v12 = None

Next ==
  \/ focus = "memsql" /\ Memsql!Next /\ UNCHANGED <<focus, After6>>
  \/ focus = "rpyc" /\ Rpyc!Next /\ UNCHANGED <<focus, After11>>
  \/ focus = "topics" /\ Topics!Next /\ UNCHANGED focus
  \/ focus = "compose" /\ Compose!Next /\ UNCHANGED <<focus, After9>>
  \/ focus = "docker" /\ Docker!Next /\ UNCHANGED focus
  \/ focus = "registry" /\ Registry!Next /\ UNCHANGED <<focus, After9>>
  \/ focus = "s3" /\ S3!Next /\ UNCHANGED <<focus, After5>>
  \/ focus = "manager" /\ Manager!Next /\ UNCHANGED <<focus, After4>>
  \/ focus = "consul" /\ Consul!Next /\ UNCHANGED <<focus, After7>>
  \/ focus = "k8s" /\ K8s!Next /\ UNCHANGED <<focus, After7>>
  \/ focus = "job" /\ Jobs!Next /\ UNCHANGED <<focus, After3>>
  \/ focus = "edits" /\ Edits!Next /\ UNCHANGED <<focus, After4>>
  \/ focus = "data" /\ Data!Next /\ UNCHANGED <<focus, After9>>
  \/ focus = "rabbitmq" /\ Rabbit!Next /\ UNCHANGED <<focus, After6>>
  \/ focus = "metrics" /\ Metrics!Next /\ UNCHANGED <<focus, After9>>
  \/ focus = "percentiles" /\ Percents!Next /\ UNCHANGED <<focus, After7>>
  \/ focus = "rancher" /\ Rancher!Next /\ UNCHANGED <<focus, After4>>
  \/ focus = "k3s" /\ K3s!Next /\ UNCHANGED <<focus, After11>>

Spec == Init /\ [][Next]_vars

\* The modules that are about a cluster of kubernetes have a run of their own.
OfCluster == {"k8s", "job", "edits", "data", "k3s", "rancher"}
ClusterInit == Init /\ focus \in OfCluster
HostInit == Init /\ focus \notin OfCluster
ClusterSpec == ClusterInit /\ [][Next]_vars
HostSpec == HostInit /\ [][Next]_vars

Symmetry == Permutations(Actors) \cup Permutations(Things)

\* All histograms of up to three buckets and four samples, in any order.
SeqsUpTo(S, n) == UNION {[1..k -> S] : k \in 0..n}
MCHistograms == SeqsUpTo(0..4, 3)
MCCounts == 0..4
MCRequests == SeqsUpTo({0, 250, 500, 990, 1000}, 2) \cup {<<500, 900, 990>>}

-----------------------------------------------------------------------------
\* The types of the module in focus.
TypeOK ==
  /\ focus = "memsql" => Memsql!TypeOK
  /\ focus = "rpyc" => Rpyc!TypeOK
  /\ focus = "topics" => Topics!TypeOK
  /\ focus = "compose" => Compose!TypeOK
  /\ focus = "docker" => Docker!TypeOK
  /\ focus = "registry" => Registry!TypeOK
  /\ focus = "s3" => S3!TypeOK
  /\ focus = "manager" => Manager!TypeOK
  /\ focus = "consul" => Consul!TypeOK
  /\ focus = "k8s" => K8s!TypeOK
  /\ focus = "job" => Jobs!TypeOK
  /\ focus = "edits" => Edits!TypeOK
  /\ focus = "data" => Data!TypeOK
  /\ focus = "rabbitmq" => Rabbit!TypeOK
  /\ focus = "metrics" => Metrics!TypeOK
  /\ focus = "percentiles" => Percents!TypeOK
  /\ focus = "rancher" => Rancher!TypeOK
  /\ focus = "k3s" => K3s!TypeOK

\* Memsql: resets and truncations that return have done it, and resets fail for a cause.
MemsqlResets == focus = "memsql" => Memsql!OkMeansReset /\ Memsql!ResetFailsForCause

\* Kafka and Rabbitmq: the plugin starts one rpyc server, calls and checks fail for a
\* cause, and topics keep their retention unless a call has failed on them.
BrokersServe ==
  /\ focus = "rpyc" => Rpyc!OneServer /\ Rpyc!CallsFailForCause
  /\ focus = "topics" => Topics!RetentionLostByFailure
  /\ focus = "rabbitmq" => Rabbit!ChecksAndResetsHold /\ Rabbit!FoundUnlessMissed

\* Prometheus: the parser returns every sample of a metric where it belongs.
MetricsAreKept == focus = "metrics" => Metrics!SamplesAreKept

\* Prometheus: for ascending requests the pass over the buckets finds what the definition of
\* a percentile says.
PercentilesAreRight == focus = "percentiles" => Percents!Correct

\* docker-compose: replacing a service loses neither container nor restart policy unseen.
ServiceIsKept == focus = "compose" => Compose!ServiceKept

\* Docker: a call that returned normally has started or stopped what it listed, and a container
\* is lost only by a fault.
ContainersAreKept ==
  focus = "docker" => Docker!OkMeansStarted /\ Docker!OkMeansStopped /\ Docker!LossIsBounded

\* The docker registry: what is deployed is not an earlier build.
DeploysAreCurrent == focus = "registry" => Registry!DeploysAreCurrent

\* S3: what was uploaded is there, and the check of Seaweed does not fail because of what an
\* earlier one has left; that of the resource manager fails for no cause but the known ones.
UploadsAndChecksHold ==
  /\ focus = "s3" => S3!UploadsAndChecksHold
  /\ focus = "manager" => Manager!ChecksFailForCause

\* Consul: layered reads, writes in chunks and deletions hold, and so does a clearing of a
\* server that was down.
ConsulHolds ==
  focus = "consul" => Consul!LayeredReadFindsWhatStays /\ Consul!CallsHold /\ Consul!ClearedWhenDown

\* Kubernetes: configmap keys and edits of deployments are not lost to concurrent ones, and
\* waits see the new job and the pods there are; with the types of these modules.
EditsAndWaitsHold ==
  /\ focus = "k8s" => K8s!TypeOK /\ K8s!InsertedKeysAreKept /\ K8s!CountsReadyPods
  /\ focus = "job" => Jobs!TypeOK /\ Jobs!WaitsForNewJob
  /\ focus = "edits" => Edits!TypeOK /\ Edits!EditsAreKept

\* Kubernetes: the data of a deployment are gone after its deletion or recycling; with its types.
DataIsGone == focus = "data" => Data!TypeOK /\ Data!DataIsDeleted /\ Data!RecycleHasCleaned

\* K3s and Rancher: a setup that returns has joined, labelled and renewed everything, and
\* an app that was installed, upgraded or deleted is what the call made it; with their types.
ClusterIsSetUp ==
  /\ focus = "k3s" => K3s!TypeOK /\ K3s!SetupOkMeansJoined /\ K3s!SetupOkMeansRenewed
  /\ focus = "rancher" => Rancher!TypeOK /\ Rancher!AppsHold /\ Rancher!CatalogsHold
=============================================================================
