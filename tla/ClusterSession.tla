---------------------------- MODULE ClusterSession ----------------------------
(***************************************************************************)
(* A test session over a Kubernetes cluster: the proxies are the pods of a *)
(* daemon set (k8s_plugins/proxy_daemonset.py) which the hooks of          *)
(* devops_proxy_pod ("pytest") or installers/k8s.py ("gossip") create anew *)
(* before each test, through an API server that is reached over a tunnel   *)
(* to one of the masters (k8s_plugins/kubectl.py, k8s_master.py).          *)
(*                                                                         *)
(* The cluster is a second actor.  The delete of a daemon set returns      *)
(* before its pods are gone, and as they share the network of their host   *)
(* (daemonset.yaml) the sshd of an old pod holds the port until it ends:   *)
(* a new pod counts as ready when its container runs, finds the port taken *)
(* and starts again.  Lost calls, timeouts and crashes come from a budget, *)
(* MaxFaults.                                                              *)
(*                                                                         *)
(* The creation of the service account and its token are part of the first *)
(* call of the API that succeeds.                                          *)
(***************************************************************************)
EXTENDS Integers, FiniteSets

CONSTANTS
  Hosts,         \* the nodes of the cluster
  Sessions       \* kinds of session

ASSUME ClusterAssumption ==
  /\ IsFiniteSet(Hosts)
  /\ Sessions \subseteq [lifecycle : {"pytest", "gossip"}, drops : BOOLEAN,
                          masters : (SUBSET Hosts) \ {{}}, faults : Nat]

VARIABLES
  session,   \* the kind of this session, which no step changes
  ds,        \* does the daemon set exist?
  pod,       \* its pod on a host: "none", "starting", "ready" or "serving"
  oldPod,    \* does a pod of a deleted daemon set still serve on a host?
  conn,      \* host.SSH._connection: to a pod of the daemon set, to an old one, ...
  tunnels,   \* a service tunnel in host.TunnelManager, by what it runs over
  kube,      \* the tunnel "kubectl" in host.TunnelManager
  phase,     \* where the session is
  pc,        \* the next step of its hook
  todo,      \* hosts the hook's loop has not reached
  bound,     \* is the local res of ProxyDaemonSet.run() bound?
  excuse,    \* history: why a host's connection may be dead
  uncleared, \* history: has kill() deleted a daemon set and not reached its clear since?
  faults     \* faults still to come

clusterVars == <<ds, pod, oldPod>>
linkVars == <<conn, tunnels, kube>>
vars == <<session, ds, pod, oldPod, conn, tunnels, kube, phase, pc, todo, bound, excuse,
          uncleared, faults>>

Lifecycle == session.lifecycle

\* Does the test framework drop the hosts' plugin objects before a setup?
DropsPlugins == session.drops

\* The hosts on which kubectl answers.
Masters == session.masters

\* Faults a session may meet.
MaxFaults == session.faults

Link == {"none", "own", "old", "dead"}
Excuses == {"crashed", "met_old_pod"}
Phases == {"deploy", "install", "setup", "test", "teardown", "aborted"}
Labels == {"hook", "running", "delete", "wait_gone", "clear", "secret", "create",
           "wait_ready", "result", "connect", "clean_hosts", "done", "raised"}

Init ==
  /\ session \in Sessions
  /\ ds \in BOOLEAN
  /\ pod = [h \in Hosts |-> IF ds THEN "serving" ELSE "none"]
  /\ oldPod = [h \in Hosts |-> FALSE]
  /\ conn = [h \in Hosts |-> "none"]
  /\ tunnels = [h \in Hosts |-> "none"]
  /\ kube = [h \in Hosts |-> "none"]
  /\ phase = "deploy"
  /\ pc = "hook"
  /\ todo = {}
  /\ bound = FALSE
  /\ excuse = [h \in Hosts |-> {}]
  /\ uncleared = FALSE
  /\ faults = MaxFaults

-----------------------------------------------------------------------------
(* Helpers.                                                                *)

Fault == faults > 0 /\ faults' = faults - 1
At(label) == pc = label
Goto(label) == pc' = label /\ UNCHANGED <<phase, todo, bound>>
Raise == pc' = "raised" /\ todo' = {} /\ UNCHANGED <<phase, bound>>

\* Links of kind a become links of kind b on the hosts of S.
Relabel(links, S, a, b) ==
  [h \in Hosts |-> IF h \in S /\ links[h] = a THEN b ELSE links[h]]

\* All tunnels of a host are gone, the tunnel "kubectl" included.
ClearAll ==
  /\ tunnels' = [h \in Hosts |-> "none"]
  /\ kube' = [h \in Hosts |-> "none"]
  /\ uncleared' = FALSE

\* Mutant of ApiAnswers: a cached tunnel is replaced when it is dead.
ApiReopens(m) ==
  /\ m \in Masters
  /\ kube' = [kube EXCEPT ![m] = "own"]

\* Kubectl.client() on the master that answers first, and its tunnel, opened if
\* the master's TunnelManager has none.  The master is asked for twice, for the
\* connection and for the manager, so any of them may end up with the tunnel.
ApiAnswers(m) ==
  /\ m \in Masters
  /\ kube[m] # "dead"
  /\ kube' = [kube EXCEPT ![m] = "own"]

\* A cached tunnel that is dead is used all the same: an exception, and not an
\* ApiException.
ApiIsDead == \E m \in Masters : kube[m] = "dead"

\* The call fails for another reason.
ApiRaises ==
  /\ \/ ApiIsDead /\ UNCHANGED faults
     \/ Fault
  /\ Raise
  /\ UNCHANGED <<clusterVars, linkVars, excuse, uncleared>>

-----------------------------------------------------------------------------
(* ProxyDaemonSet.kill() and run().                                        *)

\* The pods of the daemon set outlive it.
Delete ==
  /\ ds' = FALSE
  /\ pod' = [h \in Hosts |-> "none"]
  /\ oldPod' = [h \in Hosts |-> oldPod[h] \/ pod[h] \in {"ready", "serving"}]
  /\ conn' = Relabel(conn, Hosts, "own", "old")
  /\ tunnels' = Relabel(tunnels, Hosts, "own", "old")
  /\ uncleared' = TRUE

Create ==
  /\ ~ds
  /\ ds' = TRUE
  /\ UNCHANGED <<pod, oldPod>>

\* Where kill() returns to: the rest of run(), or the hook that called it.
KillReturns == Goto(IF phase = "teardown" THEN "done" ELSE "secret")

\* kill() returns early, without clearing the tunnels, if there is no daemon set.
Running(m) ==
  /\ At("running")
  /\ ApiAnswers(m)
  /\ IF ds THEN Goto("delete") ELSE KillReturns
  /\ UNCHANGED <<clusterVars, conn, tunnels, excuse, uncleared, faults>>

\* Mutant of DeleteDaemonSet: the delete has no effect, and no error.
DeleteNothing(m) ==
  /\ At("delete")
  /\ ApiAnswers(m)
  /\ Goto("wait_gone")
  /\ UNCHANGED <<clusterVars, conn, tunnels, excuse, uncleared, faults>>

DeleteDaemonSet(m) ==
  /\ At("delete")
  /\ ApiAnswers(m)
  /\ Delete
  /\ Goto("wait_gone")
  /\ UNCHANGED <<excuse, faults>>

\* An ApiException is logged and swallowed, whether or not the daemon set went.
DeleteSwallows(m) ==
  /\ At("delete")
  /\ ApiAnswers(m)
  /\ Fault
  /\ Delete \/ UNCHANGED <<clusterVars, conn, tunnels, uncleared>>
  /\ Goto("wait_gone")
  /\ UNCHANGED excuse

\* wait_for_predicate(not self.running).
WaitGone(m) ==
  /\ At("wait_gone")
  /\ ApiAnswers(m)
  /\ ~ds
  /\ Goto("clear")
  /\ UNCHANGED <<clusterVars, conn, tunnels, excuse, uncleared, faults>>

WaitGoneTimeout ==
  /\ At("wait_gone")
  /\ ds
  /\ Raise
  /\ UNCHANGED <<clusterVars, linkVars, excuse, uncleared, faults>>

\* Every host's TunnelManager.clear().
ClearTunnels ==
  /\ At("clear")
  /\ ClearAll
  /\ KillReturns
  /\ UNCHANGED <<clusterVars, conn, excuse, faults>>

\* create_image_pull_secret: a secret that exists already is no error.
CreateImagePullSecret(m) ==
  /\ At("secret")
  /\ ApiAnswers(m)
  /\ pc' = "create" /\ bound' = FALSE
  /\ UNCHANGED <<clusterVars, conn, tunnels, phase, todo, excuse, uncleared, faults>>

CreateDaemonSet(m) ==
  /\ At("create")
  /\ ApiAnswers(m)
  /\ Create
  /\ pc' = "wait_ready" /\ bound' = TRUE
  /\ UNCHANGED <<conn, tunnels, phase, todo, excuse, uncleared, faults>>

\* An ApiException is swallowed here too; res stays unbound.
CreateSwallows(m) ==
  /\ At("create")
  /\ ApiAnswers(m)
  /\ \/ Fault /\ (Create \/ UNCHANGED clusterVars)
     \/ ds /\ UNCHANGED <<clusterVars, faults>>
  /\ Goto("wait_ready")
  /\ UNCHANGED <<conn, tunnels, excuse, uncleared>>

NumReadyPods == Cardinality({h \in Hosts : pod[h] \in {"ready", "serving"}})

WaitReady(m) ==
  /\ At("wait_ready")
  /\ ApiAnswers(m)
  /\ ds
  /\ NumReadyPods = Cardinality(Hosts)
  /\ Goto("result")
  /\ UNCHANGED <<clusterVars, conn, tunnels, excuse, uncleared, faults>>

\* Without a daemon set the read raises; the wait may also time out.
WaitReadyRaises ==
  /\ At("wait_ready")
  /\ \/ ~ds /\ UNCHANGED faults
     \/ NumReadyPods # Cardinality(Hosts) /\ Fault
  /\ Raise
  /\ UNCHANGED <<clusterVars, linkVars, excuse, uncleared>>

\* Mutant of Result: res is not read.
ResultUnread ==
  /\ At("result")
  /\ pc' = "connect" /\ todo' = Hosts
  /\ UNCHANGED <<clusterVars, linkVars, phase, bound, excuse, uncleared, faults>>

\* The last line of run() reads res; the hook then connects host by host.
Result ==
  /\ At("result")
  /\ IF bound THEN pc' = "connect" /\ todo' = Hosts /\ UNCHANGED <<phase, bound>>
              ELSE Raise
  /\ UNCHANGED <<clusterVars, linkVars, excuse, uncleared, faults>>

-----------------------------------------------------------------------------
(* The hooks.                                                              *)

\* gossip: ssh_direct_connect_session on every host replaces the connections the
\* kubectl tunnels run over, and may end them.
Hook ==
  /\ At("hook")
  /\ pc' = "running"
  /\ \/ UNCHANGED kube
     \/ Lifecycle = "gossip" /\ \E S \in SUBSET Masters : kube' = Relabel(kube, S, "own", "dead")
  /\ UNCHANGED <<clusterVars, conn, tunnels, phase, todo, bound, excuse, uncleared, faults>>

\* wait_nothrow(host.SSH.connect): whichever sshd has the port answers.
Connect(h) ==
  /\ At("connect")
  /\ h \in todo
  /\ \/ /\ oldPod[h]
        /\ conn' = [conn EXCEPT ![h] = "old"]
        /\ excuse' = [excuse EXCEPT ![h] = (@ \ {"crashed"}) \cup {"met_old_pod"}]
     \/ /\ pod[h] = "serving"
        /\ conn' = [conn EXCEPT ![h] = "own"]
        /\ excuse' = [excuse EXCEPT ![h] = @ \ {"crashed", "met_old_pod"}]
  /\ todo' = todo \ {h}
  /\ UNCHANGED <<clusterVars, tunnels, kube, phase, pc, bound, uncleared, faults>>

\* Mutant of ConnectTimesOut: the hook goes on without the connection.
ConnectGivesUp(h) ==
  /\ At("connect")
  /\ h \in todo
  /\ Fault
  /\ conn' = [conn EXCEPT ![h] = "dead"]
  /\ todo' = todo \ {h}
  /\ UNCHANGED <<clusterVars, tunnels, kube, phase, pc, bound, excuse, uncleared>>

ConnectTimesOut(h) ==
  /\ At("connect")
  /\ h \in todo
  /\ Fault
  /\ conn' = [conn EXCEPT ![h] = "dead"]
  /\ Raise
  /\ UNCHANGED <<clusterVars, tunnels, kube, excuse, uncleared>>

AllConnected ==
  /\ At("connect")
  /\ todo = {}
  /\ Goto(IF Lifecycle = "pytest" /\ phase = "setup" THEN "clean_hosts" ELSE "done")
  /\ UNCHANGED <<clusterVars, linkVars, excuse, uncleared, faults>>

\* Mutant of CleanBetweenTests: the hook is not registered.
CleanNothing ==
  /\ At("clean_hosts")
  /\ Goto("done")
  /\ UNCHANGED <<clusterVars, linkVars, excuse, uncleared, faults>>

\* pytest_clean_between_tests of every host.
CleanBetweenTests ==
  /\ At("clean_hosts")
  /\ ClearAll
  /\ Goto("done")
  /\ UNCHANGED <<clusterVars, conn, excuse, faults>>

\* The framework goes on to the next phase.
Enter(p, label) ==
  /\ phase' = p
  /\ pc' = label
  /\ UNCHANGED <<clusterVars, todo, bound, excuse, faults>>

\* The next setup, with plugin objects that were kept or dropped.
EnterSetup ==
  /\ Enter("setup", "hook")
  /\ IF DropsPlugins
     THEN conn' = [h \in Hosts |-> "none"] /\ ClearAll
     ELSE UNCHANGED <<linkVars, uncleared>>

Deployed == phase = "deploy" /\ At("done") /\ Enter("install", "done") /\ UNCHANGED <<linkVars, uncleared>>
DeployFailed == phase = "deploy" /\ At("raised") /\ Enter("aborted", "done") /\ UNCHANGED <<linkVars, uncleared>>
Ended == phase = "aborted" /\ UNCHANGED vars
Installed == phase = "install" /\ EnterSetup
SetUp == phase = "setup" /\ At("done") /\ Enter("test", "done") /\ UNCHANGED <<linkVars, uncleared>>

\* pytest_after_test kills the daemon set; the gossip teardown only downloads.
EnterTeardown ==
  /\ Enter("teardown", IF Lifecycle = "pytest" THEN "running" ELSE "done")
  /\ UNCHANGED <<linkVars, uncleared>>

SetupFailed == phase = "setup" /\ At("raised") /\ EnterTeardown
TestOver == phase = "test" /\ EnterTeardown
NextTest == phase = "teardown" /\ pc \in {"done", "raised"} /\ EnterSetup

\* A plugin asks host.TunnelManager for a tunnel over host.SSH.
UseTunnel(h) ==
  /\ phase \in {"install", "test"}
  /\ tunnels[h] = "none"
  /\ conn[h] \in {"own", "old"}
  /\ tunnels' = [tunnels EXCEPT ![h] = conn[h]]
  /\ UNCHANGED <<clusterVars, conn, kube, phase, pc, todo, bound, excuse, uncleared, faults>>

-----------------------------------------------------------------------------
(* The cluster.                                                            *)

clientVars == <<kube, phase, pc, todo, bound>>

SetPod(h, s) == pod' = [pod EXCEPT ![h] = s] /\ UNCHANGED <<ds, oldPod>>

Schedule(h) ==
  /\ ds /\ pod[h] = "none" /\ SetPod(h, "starting")
  /\ UNCHANGED <<clientVars, conn, tunnels, excuse, uncleared, faults>>

ContainerStarts(h) ==
  /\ pod[h] = "starting" /\ SetPod(h, "ready")
  /\ UNCHANGED <<clientVars, conn, tunnels, excuse, uncleared, faults>>

\* sshd gets the port, or finds it taken by an old pod.
Bind(h) ==
  /\ pod[h] = "ready"
  /\ SetPod(h, IF oldPod[h] THEN "starting" ELSE "serving")
  /\ UNCHANGED <<clientVars, conn, tunnels, excuse, uncleared, faults>>

OldPodEnds(h) ==
  /\ oldPod[h]
  /\ oldPod' = [oldPod EXCEPT ![h] = FALSE]
  /\ conn' = Relabel(conn, {h}, "old", "dead")
  /\ tunnels' = Relabel(tunnels, {h}, "old", "dead")
  /\ UNCHANGED <<clientVars, ds, pod, excuse, uncleared, faults>>

PodCrashes(h) ==
  /\ pod[h] = "serving"
  /\ Fault
  /\ SetPod(h, "starting")
  /\ conn' = Relabel(conn, {h}, "own", "dead")
  /\ tunnels' = Relabel(tunnels, {h}, "own", "dead")
  /\ excuse' = [excuse EXCEPT ![h] = @ \cup {"crashed"}]
  /\ UNCHANGED <<clientVars, uncleared>>

\* The SSH connection below a kubectl tunnel breaks.
MasterDisconnects(m) ==
  /\ kube[m] = "own"
  /\ Fault
  /\ kube' = [kube EXCEPT ![m] = "dead"]
  /\ UNCHANGED <<clusterVars, conn, tunnels, phase, pc, todo, bound, excuse, uncleared>>

-----------------------------------------------------------------------------
DaemonSetCall ==
  \/ \E m \in Masters :
       \/ Running(m) \/ DeleteDaemonSet(m) \/ DeleteSwallows(m) \/ WaitGone(m)
       \/ CreateImagePullSecret(m) \/ CreateDaemonSet(m) \/ CreateSwallows(m) \/ WaitReady(m)
  \/ pc \in {"running", "delete", "wait_gone", "secret", "create", "wait_ready"} /\ ApiRaises
  \/ WaitGoneTimeout \/ ClearTunnels \/ WaitReadyRaises \/ Result

HookStep ==
  \/ Hook
  \/ \E h \in Hosts : Connect(h) \/ ConnectTimesOut(h)
  \/ AllConnected \/ CleanBetweenTests

Session ==
  \/ Deployed \/ DeployFailed \/ Installed \/ SetUp \/ SetupFailed
  \/ TestOver \/ NextTest

Controllers(h) == Schedule(h) \/ ContainerStarts(h) \/ Bind(h) \/ OldPodEnds(h)

InSession(A) == A /\ UNCHANGED session

Next ==
  \/ InSession(DaemonSetCall \/ HookStep \/ Session \/ Ended)
  \/ \E h \in Hosts : InSession(UseTunnel(h) \/ Controllers(h) \/ PodCrashes(h))
  \/ \E m \in Masters : InSession(MasterDisconnects(m))

Spec == Init /\ [][Next]_vars

\* Hooks go on and the controllers do their work; faults need not happen.
FairSpec ==
  /\ Spec
  /\ WF_vars(InSession(DaemonSetCall \/ HookStep))
  /\ WF_vars(InSession(Session))
  /\ \A h \in Hosts :
       /\ WF_vars(InSession(Schedule(h) \/ ContainerStarts(h) \/ Bind(h)))
       /\ WF_vars(InSession(OldPodEnds(h)))

-----------------------------------------------------------------------------
(* Properties.                                                             *)

\* Every variable has the type its declaration says.
TypeOK ==
  /\ session \in Sessions
  /\ ds \in BOOLEAN /\ oldPod \in [Hosts -> BOOLEAN]
  /\ pod \in [Hosts -> {"none", "starting", "ready", "serving"}]
  /\ conn \in [Hosts -> Link] /\ tunnels \in [Hosts -> Link]
  /\ kube \in [Hosts -> {"none", "own", "dead"}]
  /\ phase \in Phases /\ pc \in Labels /\ todo \in SUBSET Hosts
  /\ bound \in BOOLEAN /\ uncleared \in BOOLEAN
  /\ excuse \in [Hosts -> SUBSET Excuses]
  /\ faults \in 0..MaxFaults

InUse == phase \in {"install", "test"}

\* run() returns normally only with the daemon set this very call has created and
\* a pod on every host, although both of its API calls swallow their errors.
DeployedByThisRun ==
  InUse \/ pc = "connect" => ds /\ bound /\ \A h \in Hosts : pod[h] # "none"

\* While the installer or a test runs, every host has an SSH connection to the
\* pod of the current daemon set, unless that pod has crashed since or the
\* connection was answered by a pod of the daemon set before.
ConnectedOrExcused ==
  InUse => \A h \in Hosts : conn[h] = "own" \/ excuse[h] # {}

\* A test is handed a tunnel of an earlier test only if an earlier kill() raised
\* between the delete and the clear, in the lifecycle that clears nowhere else;
\* in particular the early return of kill() does no harm.
NoDeadTunnel ==
  InUse => \A h \in Hosts : tunnels[h] \in {"old", "dead"} =>
    excuse[h] # {} \/ (uncleared /\ Lifecycle = "gossip" /\ ~DropsPlugins)

\* The connections and the tunnels of a test are of its own pods, or there is one of the
\* causes above; and the types hold.
OwnPodsOrExcused == TypeOK /\ ConnectedOrExcused /\ NoDeadTunnel

\* "Called after proxy container is running and connected to" (hooks.py): the
\* installer's hook finds every host connected to its pod.
ConnectedToOwnPod ==
  phase = "install" => \A h \in Hosts : conn[h] = "own" \/ "crashed" \in excuse[h]

AllDead == \A m \in Masters : kube[m] = "dead"

\* Once the cached tunnel to every master is dead when a setup begins, no test
\* runs any more: only kill() would clear it, and it needs it to get there.
DeadKubectlIsForever ==
  [](phase = "setup" /\ pc = "hook" /\ AllDead /\ ~DropsPlugins => [](phase # "test"))

\* If the framework drops the plugin objects, tests go on being run once faults
\* stop, whatever the failed setups before have left behind in the cluster.
SetupsKeepSucceeding ==
  DropsPlugins => ([]<>(phase = "setup") => []<>(phase = "test"))
=============================================================================
