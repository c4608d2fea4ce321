------------------------- MODULE ClusterSessionProofs -------------------------
(***************************************************************************)
(* Proofs about ClusterSession, for any finite set of hosts, any choice of *)
(* masters and any number of faults.                                       *)
(***************************************************************************)
EXTENDS ClusterSession, FiniteSetTheorems, TLAPS

\* The labels a phase goes through: no hook is at work while the installer or a test
\* runs, and a teardown kills at most.
LabelsOfPhase ==
  /\ phase \in {"install", "test", "aborted"} => pc = "done"
  /\ phase = "teardown" => pc \in {"running", "delete", "wait_gone", "clear", "done", "raised"}

\* ProxyDaemonSet.run() of this setup has returned normally.
RunReturned ==
  \/ pc \in {"connect", "clean_hosts"}
  \/ pc = "done" /\ phase \in {"deploy", "setup", "install", "test"}

\* A daemon set that had a pod on every host keeps them until the next kill().
PodsOfThisRun ==
  /\ pc = "result" \/ RunReturned => ds /\ \A h \in Hosts : pod[h] # "none"
  /\ RunReturned => bound

Answered(h) == conn[h] = "own" \/ excuse[h] # {}

\* A host the loop of the hook has passed stays connected while it is at others.
ConnectedSoFar ==
  RunReturned => \A h \in Hosts : (pc = "connect" /\ h \in todo) \/ Answered(h)

NoTunnels == \A h \in Hosts : tunnels[h] = "none"

\* Tunnels are only there between a kill() that did not reach its clear and the next
\* that does, or in a daemon set that has not been killed.
TunnelsCleared ==
  /\ phase = "deploy" \/ (phase = "setup" /\ DropsPlugins) => NoTunnels
  /\ ~ds => uncleared \/ NoTunnels
  /\ phase = "setup" /\ pc \in {"secret", "create", "wait_ready", "result", "connect",
                                "clean_hosts", "done"} => uncleared \/ NoTunnels
  /\ phase = "setup" /\ pc = "done" /\ Lifecycle = "pytest" => NoTunnels

Inv ==
  /\ TypeOK
  /\ LabelsOfPhase
  /\ PodsOfThisRun
  /\ ConnectedSoFar
  /\ TunnelsCleared
  /\ NoDeadTunnel

-----------------------------------------------------------------------------
\* Relabelling changes links of one kind, on the hosts it is told, and nothing else.
LEMMA Relabelling ==
  ASSUME NEW L, NEW links \in [Hosts -> L], NEW S, NEW a, NEW b \in L
  PROVE  /\ Relabel(links, S, a, b) \in [Hosts -> L]
         /\ \A h \in Hosts : Relabel(links, S, a, b)[h] =
              IF h \in S /\ links[h] = a THEN b ELSE links[h]
  BY DEF Relabel

\* A wait for as many ready pods as there are hosts is one for a pod on every host.
LEMMA AllPodsReady ==
  ASSUME NumReadyPods = Cardinality(Hosts)
  PROVE  \A h \in Hosts : pod[h] \in {"ready", "serving"}
<1>1. {h \in Hosts : pod[h] \in {"ready", "serving"}} \in SUBSET Hosts
  OBVIOUS
<1>2. {h \in Hosts : pod[h] \in {"ready", "serving"}} = Hosts
  BY <1>1, FS_Subset, ClusterAssumption DEF NumReadyPods
<1> QED
  BY <1>2

LEMMA SessionKinds ==
  ASSUME session \in Sessions
  PROVE  /\ Lifecycle \in {"pytest", "gossip"}
         /\ DropsPlugins \in BOOLEAN
         /\ Masters \in SUBSET Hosts
         /\ MaxFaults \in Nat
  BY ClusterAssumption DEF Lifecycle, DropsPlugins, Masters, MaxFaults

LEMMA InvInit == Init => Inv
<1> SUFFICES ASSUME Init PROVE Inv
  OBVIOUS
<1>1. TypeOK
  <2>1. session \in Sessions /\ faults = MaxFaults
    BY DEF Init
  <2>2. faults \in 0..MaxFaults
    BY <2>1, SessionKinds
  <2> QED BY <2>1, <2>2 DEF Init, TypeOK, Link, Excuses, Phases, Labels
<1>2. LabelsOfPhase /\ PodsOfThisRun /\ ConnectedSoFar
  BY DEF Init, LabelsOfPhase, PodsOfThisRun, ConnectedSoFar, RunReturned
<1>3. TunnelsCleared /\ NoDeadTunnel
  BY DEF Init, TunnelsCleared, NoDeadTunnel, NoTunnels, InUse
<1> QED
  BY <1>1, <1>2, <1>3 DEF Inv

-----------------------------------------------------------------------------
\* What every step preserves: the types.
LEMMA FaultsLeft ==
  ASSUME TypeOK, UNCHANGED session, Fault \/ UNCHANGED faults
  PROVE  faults' \in 0..MaxFaults'
  BY SessionKinds DEF TypeOK, Fault, MaxFaults

LEMMA CallKeepsType ==
  ASSUME TypeOK, UNCHANGED session, DaemonSetCall
  PROVE  TypeOK'
<1> USE DEF TypeOK, Goto, Raise, KillReturns, clusterVars, linkVars
<1>1. CASE \E m \in Masters :
             \/ Running(m) \/ WaitGone(m) \/ CreateImagePullSecret(m) \/ WaitReady(m)
             \/ CreateDaemonSet(m) \/ CreateSwallows(m)
  BY <1>1, FaultsLeft DEF Running, WaitGone, CreateImagePullSecret, WaitReady,
     CreateDaemonSet, CreateSwallows, Create, ApiAnswers, Labels, MaxFaults
<1>2. CASE \E m \in Masters : DeleteDaemonSet(m) \/ DeleteSwallows(m)
  <2>1. kube' \in [Hosts -> {"none", "own", "dead"}]
    BY <1>2 DEF DeleteDaemonSet, DeleteSwallows, ApiAnswers
  <2>2. Delete \/ UNCHANGED <<clusterVars, conn, tunnels, uncleared>>
    BY <1>2 DEF DeleteDaemonSet, DeleteSwallows
  <2>3. /\ ds' \in BOOLEAN /\ oldPod' \in [Hosts -> BOOLEAN] /\ uncleared' \in BOOLEAN
        /\ pod' \in [Hosts -> {"none", "starting", "ready", "serving"}]
    BY <2>2 DEF Delete
  <2>4. conn' \in [Hosts -> Link] /\ tunnels' \in [Hosts -> Link]
    <3>1. {conn, tunnels} \subseteq [Hosts -> Link] /\ "old" \in Link
      BY DEF Link
    <3>2. /\ Relabel(conn, Hosts, "own", "old") \in [Hosts -> Link]
          /\ Relabel(tunnels, Hosts, "own", "old") \in [Hosts -> Link]
      BY <3>1, Relabelling
    <3> QED BY <2>2, <3>1, <3>2 DEF Delete
  <2>5. /\ pc' = "wait_gone"
        /\ UNCHANGED <<phase, todo, bound, excuse>>
        /\ Fault \/ UNCHANGED faults
    BY <1>2 DEF DeleteDaemonSet, DeleteSwallows
  <2> QED BY <2>1, <2>3, <2>4, <2>5, FaultsLeft DEF Labels
<1>3. CASE ApiRaises \/ WaitGoneTimeout \/ WaitReadyRaises \/ Result
  BY <1>3, FaultsLeft DEF ApiRaises, WaitGoneTimeout, WaitReadyRaises, Result, Labels, MaxFaults
<1>4. CASE ClearTunnels
  BY <1>4 DEF ClearTunnels, ClearAll, Labels, Link, MaxFaults
<1> QED
  BY <1>1, <1>2, <1>3, <1>4 DEF DaemonSetCall

LEMMA HookKeepsType ==
  ASSUME TypeOK, UNCHANGED session, HookStep
  PROVE  TypeOK'
<1> USE DEF TypeOK, Goto, Raise, clusterVars, linkVars, MaxFaults
<1>1. CASE Hook
  <2>1. kube' \in [Hosts -> {"none", "own", "dead"}]
    <3>1. \A S : Relabel(kube, S, "own", "dead") \in [Hosts -> {"none", "own", "dead"}]
      BY Relabelling
    <3> QED BY <1>1, <3>1 DEF Hook
  <2> QED BY <1>1, <2>1 DEF Hook, Labels
<1>2. ASSUME NEW h \in Hosts, Connect(h) PROVE TypeOK'
  <2>1. excuse' \in [Hosts -> SUBSET Excuses]
    BY <1>2 DEF Connect, Excuses
  <2> QED BY <1>2, <2>1 DEF Connect, Link
<1>3. ASSUME NEW h \in Hosts, ConnectTimesOut(h) PROVE TypeOK'
  BY <1>3, FaultsLeft DEF ConnectTimesOut, Link, Labels
<1>4. CASE AllConnected
  BY <1>4 DEF AllConnected, Labels
<1>5. CASE CleanBetweenTests
  BY <1>5 DEF CleanBetweenTests, ClearAll, Link, Labels
<1> QED
  BY <1>1, <1>2, <1>3, <1>4, <1>5 DEF HookStep

LEMMA SessionKeepsType ==
  ASSUME TypeOK, UNCHANGED session, Session
  PROVE  TypeOK'
<1>1. /\ UNCHANGED <<ds, pod, oldPod, todo, bound, excuse, faults>>
      /\ phase' \in Phases /\ pc' \in Labels
  BY DEF Session, Deployed, DeployFailed, Installed, SetUp, SetupFailed, TestOver, NextTest,
         EnterSetup, EnterTeardown, Enter, clusterVars, Phases, Labels
<1>2. /\ \/ ClearAll /\ conn' = [h \in Hosts |-> "none"]
         \/ UNCHANGED <<conn, tunnels, kube, uncleared>>
  BY DEF Session, Deployed, DeployFailed, Installed, SetUp, SetupFailed, TestOver, NextTest,
         EnterSetup, EnterTeardown, linkVars
<1>3. /\ conn' \in [Hosts -> Link] /\ tunnels' \in [Hosts -> Link]
      /\ kube' \in [Hosts -> {"none", "own", "dead"}]
      /\ uncleared' \in BOOLEAN
  <2>1. CASE ClearAll /\ conn' = [h \in Hosts |-> "none"]
    BY <2>1 DEF ClearAll, Link
  <2>2. CASE UNCHANGED <<conn, tunnels, kube, uncleared>>
    BY <2>2 DEF TypeOK
  <2> QED BY <1>2, <2>1, <2>2
<1> QED
  BY <1>1, <1>3 DEF TypeOK, MaxFaults

LEMMA ClusterKeepsType ==
  ASSUME TypeOK, UNCHANGED session, NEW h \in Hosts,
         UseTunnel(h) \/ Controllers(h) \/ PodCrashes(h) \/ (h \in Masters /\ MasterDisconnects(h))
  PROVE  TypeOK'
<1> USE DEF TypeOK, clusterVars, clientVars, SetPod, MaxFaults
<1>1. CASE UseTunnel(h) \/ Schedule(h) \/ ContainerStarts(h) \/ Bind(h)
  BY <1>1 DEF UseTunnel, Schedule, ContainerStarts, Bind, Link
<1>2. CASE OldPodEnds(h)
  BY <1>2, Relabelling DEF OldPodEnds, Link
<1>3. CASE PodCrashes(h)
  <2>1. conn' \in [Hosts -> Link] /\ tunnels' \in [Hosts -> Link]
    BY <1>3, Relabelling DEF PodCrashes, Link
  <2>2. excuse' \in [Hosts -> SUBSET Excuses]
    BY <1>3 DEF PodCrashes, Excuses
  <2> QED BY <1>3, <2>1, <2>2, FaultsLeft DEF PodCrashes
<1>4. CASE MasterDisconnects(h)
  BY <1>4, FaultsLeft DEF MasterDisconnects
<1> QED
  BY <1>1, <1>2, <1>3, <1>4 DEF Controllers

-----------------------------------------------------------------------------
\* What a call of the API or of a hook leaves alone.
Same == UNCHANGED <<ds, pod, oldPod, conn, tunnels, excuse, uncleared>>

Returns == pc' = IF phase = "teardown" THEN "done" ELSE "secret"

\* The steps of kill() and run(): nothing is in use, and only the last one returns.
LEMMA CallKeepsInv ==
  ASSUME Inv, TypeOK', UNCHANGED session, DaemonSetCall
  PROVE  Inv'
<1> USE DEF Inv
<1>1. /\ UNCHANGED phase
      /\ \/ pc = "running" /\ Same /\ (pc' = "delete" \/ (~ds /\ Returns))
         \/ pc = "delete" /\ pc' = "wait_gone" /\ UNCHANGED excuse /\ (Delete \/ Same)
         \/ pc = "wait_gone" /\ pc' = "clear" /\ Same
         \/ pc = "clear" /\ Returns /\ ClearAll /\ UNCHANGED <<ds, pod, conn, excuse>>
         \/ pc = "secret" /\ pc' = "create" /\ Same
         \/ /\ pc = "create" /\ pc' = "wait_ready" /\ ds' \in {ds, TRUE}
            /\ UNCHANGED <<pod, conn, tunnels, excuse, uncleared>>
         \/ pc = "wait_ready" /\ pc' = "result" /\ Same /\ ds /\ \A h \in Hosts : pod[h] # "none"
         \/ pc = "result" /\ pc' = "connect" /\ Same /\ bound /\ UNCHANGED bound /\ todo' = Hosts
         \/ /\ pc \in {"running", "delete", "wait_gone", "secret", "create", "wait_ready", "result"}
            /\ pc' = "raised" /\ Same
  <2> USE DEF Goto, Raise, KillReturns, At, Same, Returns, clusterVars, linkVars
  <2>1. CASE \E m \in Masters : Running(m) \/ DeleteDaemonSet(m) \/ DeleteSwallows(m) \/ WaitGone(m)
    BY <2>1 DEF Running, DeleteDaemonSet, DeleteSwallows, WaitGone
  <2>2. CASE \E m \in Masters : CreateImagePullSecret(m) \/ CreateDaemonSet(m) \/ CreateSwallows(m)
    BY <2>2 DEF CreateImagePullSecret, CreateDaemonSet, CreateSwallows, Create
  <2>3. CASE \E m \in Masters : WaitReady(m)
    BY <2>3, AllPodsReady DEF WaitReady
  <2>4. CASE ClearTunnels
    BY <2>4 DEF ClearTunnels
  <2>5. CASE \/ pc \in {"running", "delete", "wait_gone", "secret", "create", "wait_ready"} /\ ApiRaises
             \/ WaitGoneTimeout \/ WaitReadyRaises \/ Result
    BY <2>5 DEF ApiRaises, WaitGoneTimeout, WaitReadyRaises, Result
  <2> QED BY <2>1, <2>2, <2>3, <2>4, <2>5 DEF DaemonSetCall
<1>2. phase \in {"deploy", "setup", "teardown"}
  BY <1>1 DEF TypeOK, Phases, LabelsOfPhase
<1>3. LabelsOfPhase' /\ PodsOfThisRun' /\ ConnectedSoFar'
  BY <1>1, <1>2 DEF LabelsOfPhase, PodsOfThisRun, ConnectedSoFar, RunReturned, Same, Returns
<1>4. TunnelsCleared'
  <2>1. NoTunnels /\ Delete => NoTunnels'
    BY DEF NoTunnels, Delete, Relabel
  <2>2. ClearAll => NoTunnels'
    BY DEF NoTunnels, ClearAll
  <2>3. UNCHANGED tunnels => (NoTunnels' <=> NoTunnels)
    BY DEF NoTunnels
  <2>4. Delete => uncleared' = TRUE
    BY DEF Delete
  <2> QED BY <1>1, <1>2, <2>1, <2>2, <2>3, <2>4
          DEF TunnelsCleared, Same, Returns, Lifecycle, DropsPlugins
<1>5. NoDeadTunnel'
  BY <1>1, <1>2 DEF NoDeadTunnel, InUse
<1> QED
  BY <1>3, <1>4, <1>5

\* The hook connects host by host, and passes none that has not answered.
LEMMA HookKeepsInv ==
  ASSUME Inv, TypeOK', UNCHANGED session, HookStep
  PROVE  Inv'
<1> USE DEF Inv
<1>1. /\ UNCHANGED <<phase, ds, pod, uncleared>> \/ (UNCHANGED <<phase, ds, pod>> /\ ClearAll)
      /\ phase \in {"deploy", "setup"}
  BY DEF HookStep, Hook, Connect, ConnectTimesOut, AllConnected, CleanBetweenTests, Goto, Raise,
         At, clusterVars, linkVars, TypeOK, Phases, LabelsOfPhase
<1>2. NoDeadTunnel'
  BY <1>1 DEF NoDeadTunnel, InUse
<1>3. CASE Hook \/ \E h \in Hosts : ConnectTimesOut(h)
  <2>1. pc' \in {"running", "raised"} /\ UNCHANGED tunnels
    BY <1>3 DEF Hook, ConnectTimesOut, Raise
  <2>2. LabelsOfPhase' /\ PodsOfThisRun' /\ ConnectedSoFar'
    BY <1>1, <2>1 DEF LabelsOfPhase, PodsOfThisRun, ConnectedSoFar, RunReturned
  <2>3. TunnelsCleared'
    BY <1>1, <1>3, <2>1
       DEF Hook, ConnectTimesOut, TunnelsCleared, NoTunnels, Lifecycle, DropsPlugins
  <2> QED BY <1>2, <2>2, <2>3
<1>4. ASSUME NEW h \in Hosts, Connect(h) PROVE Inv'
  <2>1. /\ pc = "connect" /\ todo' = todo \ {h}
        /\ UNCHANGED <<phase, pc, bound, ds, pod, tunnels, uncleared>>
    BY <1>4 DEF Connect, At, clusterVars
  <2>2. LabelsOfPhase' /\ PodsOfThisRun' /\ TunnelsCleared'
    BY <2>1 DEF LabelsOfPhase, PodsOfThisRun, RunReturned, TunnelsCleared, NoTunnels, Lifecycle,
                DropsPlugins
  <2>3. Answered(h)'
    BY <1>4 DEF Connect, Answered, TypeOK
  <2>4. \A g \in Hosts \ {h} : Answered(g) => Answered(g)'
    BY <1>4 DEF Connect, Answered, TypeOK
  <2>5. ConnectedSoFar'
    BY <2>1, <2>3, <2>4 DEF ConnectedSoFar, RunReturned
  <2> QED BY <1>2, <2>2, <2>5
<1>5. CASE AllConnected
  <2>1. /\ pc = "connect" /\ todo = {}
        /\ pc' = IF Lifecycle = "pytest" /\ phase = "setup" THEN "clean_hosts" ELSE "done"
        /\ UNCHANGED <<phase, todo, bound, ds, pod, conn, tunnels, excuse, uncleared>>
    BY <1>5 DEF AllConnected, At, Goto, clusterVars, linkVars
  <2>2. LabelsOfPhase' /\ PodsOfThisRun' /\ ConnectedSoFar'
    BY <1>1, <2>1 DEF LabelsOfPhase, PodsOfThisRun, ConnectedSoFar, RunReturned, Answered
  <2>3. TunnelsCleared'
    BY <1>1, <2>1 DEF TunnelsCleared, NoTunnels, Lifecycle, DropsPlugins
  <2> QED BY <1>2, <2>2, <2>3
<1>6. CASE CleanBetweenTests
  <2>1. /\ pc = "clean_hosts" /\ pc' = "done"
        /\ UNCHANGED <<phase, todo, bound, ds, pod, conn, excuse>>
    BY <1>6 DEF CleanBetweenTests, At, Goto, clusterVars
  <2>2. NoTunnels'
    BY <1>6 DEF CleanBetweenTests, ClearAll, NoTunnels
  <2>3. LabelsOfPhase' /\ PodsOfThisRun' /\ ConnectedSoFar'
    BY <1>1, <2>1 DEF LabelsOfPhase, PodsOfThisRun, ConnectedSoFar, RunReturned, Answered
  <2>4. TunnelsCleared'
    BY <2>2 DEF TunnelsCleared
  <2> QED BY <1>2, <2>3, <2>4
<1> QED
  BY <1>3, <1>4, <1>5, <1>6 DEF HookStep

\* The framework goes from phase to phase.
LEMMA SessionKeepsInv ==
  ASSUME Inv, TypeOK', UNCHANGED session, Session
  PROVE  Inv'
<1> USE DEF Inv
<1>1. UNCHANGED <<ds, pod, todo, bound, excuse>>
  BY DEF Session, Deployed, DeployFailed, Installed, SetUp, SetupFailed, TestOver, NextTest,
         EnterSetup, EnterTeardown, Enter, clusterVars
<1>2. CASE Deployed \/ SetUp
  <2>1. /\ phase \in {"deploy", "setup"} /\ phase' = IF phase = "deploy" THEN "install" ELSE "test"
        /\ pc = "done" /\ pc' = "done"
        /\ UNCHANGED <<conn, tunnels, uncleared>>
    BY <1>2 DEF Deployed, SetUp, Enter, At, linkVars
  <2>2. LabelsOfPhase' /\ PodsOfThisRun' /\ ConnectedSoFar'
    BY <1>1, <2>1 DEF LabelsOfPhase, PodsOfThisRun, ConnectedSoFar, RunReturned, Answered
  <2>3. TunnelsCleared'
    BY <1>1, <2>1 DEF TunnelsCleared, NoTunnels
  <2>4. NoTunnels \/ (uncleared /\ Lifecycle = "gossip" /\ ~DropsPlugins)
    BY <2>1, SessionKinds DEF TunnelsCleared, TypeOK
  <2>5. NoDeadTunnel'
    BY <2>1, <2>4 DEF NoDeadTunnel, NoTunnels, Lifecycle, DropsPlugins
  <2> QED BY <2>2, <2>3, <2>5
<1>3. CASE DeployFailed
  <2>1. /\ phase' = "aborted" /\ pc' = "done"
        /\ UNCHANGED <<conn, tunnels, uncleared>>
    BY <1>3 DEF DeployFailed, Enter, linkVars
  <2> QED BY <1>1, <2>1 DEF LabelsOfPhase, PodsOfThisRun, ConnectedSoFar, RunReturned,
              TunnelsCleared, NoTunnels, NoDeadTunnel, InUse
<1>4. CASE Installed \/ NextTest
  <2>1. /\ phase' = "setup" /\ pc' = "hook"
        /\ \/ DropsPlugins /\ ClearAll
           \/ ~DropsPlugins /\ UNCHANGED <<tunnels, uncleared>>
    BY <1>4 DEF Installed, NextTest, EnterSetup, Enter, linkVars
  <2>2. LabelsOfPhase' /\ PodsOfThisRun' /\ ConnectedSoFar' /\ NoDeadTunnel'
    BY <2>1 DEF LabelsOfPhase, PodsOfThisRun, ConnectedSoFar, RunReturned, NoDeadTunnel, InUse
  <2>3. TunnelsCleared'
    BY <1>1, <2>1 DEF TunnelsCleared, NoTunnels, ClearAll, DropsPlugins
  <2> QED BY <2>2, <2>3
<1>5. CASE SetupFailed \/ TestOver
  <2>1. /\ phase' = "teardown" /\ pc' \in {"running", "done"}
        /\ UNCHANGED <<tunnels, uncleared>>
    BY <1>5 DEF SetupFailed, TestOver, EnterTeardown, Enter, linkVars
  <2> QED BY <1>1, <2>1 DEF LabelsOfPhase, PodsOfThisRun, ConnectedSoFar, RunReturned,
              TunnelsCleared, NoTunnels, NoDeadTunnel, InUse
<1> QED
  BY <1>2, <1>3, <1>4, <1>5 DEF Session

\* Plugins open tunnels, pods come and go, connections break.
LEMMA ClusterKeepsInv ==
  ASSUME Inv, TypeOK', UNCHANGED session, NEW h \in Hosts,
         UseTunnel(h) \/ Controllers(h) \/ PodCrashes(h) \/ (h \in Masters /\ MasterDisconnects(h))
  PROVE  Inv'
<1> USE DEF Inv
<1>1. UNCHANGED <<phase, pc, todo, bound, ds, uncleared>>
  BY DEF UseTunnel, Controllers, Schedule, ContainerStarts, Bind, OldPodEnds, PodCrashes,
         MasterDisconnects, SetPod, clientVars, clusterVars
<1>2. \A g \in Hosts : pod[g] # "none" => pod'[g] # "none"
  BY DEF UseTunnel, Controllers, Schedule, ContainerStarts, Bind, OldPodEnds, PodCrashes,
         MasterDisconnects, SetPod, clientVars, clusterVars, TypeOK
<1>3. LabelsOfPhase' /\ PodsOfThisRun'
  BY <1>1, <1>2 DEF LabelsOfPhase, PodsOfThisRun, RunReturned
<1>4. ASSUME NEW g \in Hosts PROVE Answered(g) => Answered(g)'
  <2>1. CASE OldPodEnds(h)
    BY <2>1, <1>4 DEF OldPodEnds, Relabel, Answered
  <2>2. CASE PodCrashes(h)
    BY <2>2, <1>4 DEF PodCrashes, Relabel, Answered, TypeOK
  <2>3. CASE ~OldPodEnds(h) /\ ~PodCrashes(h)
    BY <2>3 DEF UseTunnel, Controllers, Schedule, ContainerStarts, Bind, MasterDisconnects,
                clusterVars, clientVars, Answered
  <2> QED BY <2>1, <2>2, <2>3
<1>5. ConnectedSoFar'
  BY <1>1, <1>4 DEF ConnectedSoFar, RunReturned
<1>6. CASE UseTunnel(h)
  <2>1. InUse /\ ds /\ Answered(h)
    BY <1>6 DEF UseTunnel, InUse, LabelsOfPhase, PodsOfThisRun, ConnectedSoFar, RunReturned
  <2>2. TunnelsCleared'
    BY <1>1, <2>1 DEF TunnelsCleared, InUse
  <2>3. NoDeadTunnel'
    BY <1>6, <2>1 DEF UseTunnel, NoDeadTunnel, InUse, Answered, TypeOK, Lifecycle, DropsPlugins
  <2> QED BY <1>3, <1>5, <2>2, <2>3
<1>7. CASE ~UseTunnel(h)
  <2>1. \A g \in Hosts : tunnels'[g] \in {tunnels[g], "dead"} /\ (tunnels[g] = "none" => tunnels'[g] = "none")
    BY <1>7 DEF Controllers, Schedule, ContainerStarts, Bind, OldPodEnds, PodCrashes,
                MasterDisconnects, Relabel, clusterVars, clientVars
  <2>2. ASSUME NEW g \in Hosts
        PROVE  /\ excuse[g] # {} => excuse'[g] # {}
               /\ tunnels'[g] = "dead" => tunnels[g] \in {"dead", "old"} \/ excuse'[g] # {}
    <3>1. CASE OldPodEnds(h)
      BY <3>1, <2>2 DEF OldPodEnds, Relabel
    <3>2. CASE PodCrashes(h)
      BY <3>2, <2>2 DEF PodCrashes, Relabel, TypeOK
    <3>3. CASE ~OldPodEnds(h) /\ ~PodCrashes(h)
      BY <1>7, <3>3 DEF Controllers, Schedule, ContainerStarts, Bind, MasterDisconnects,
                        clusterVars, clientVars
    <3> QED BY <3>1, <3>2, <3>3
  <2>3. TunnelsCleared'
    BY <1>1, <2>1 DEF TunnelsCleared, NoTunnels, Lifecycle, DropsPlugins
  <2>4. NoDeadTunnel'
    BY <1>1, <2>1, <2>2 DEF NoDeadTunnel, InUse, Lifecycle, DropsPlugins
  <2> QED BY <1>3, <1>5, <2>3, <2>4
<1> QED
  BY <1>6, <1>7

LEMMA InvStep == Inv /\ [Next]_vars => Inv'
<1> SUFFICES ASSUME Inv, [Next]_vars PROVE Inv'
  OBVIOUS
<1>1. TypeOK
  BY DEF Inv
<1>2. CASE UNCHANGED vars
  BY <1>2 DEF vars, Inv, TypeOK, LabelsOfPhase, PodsOfThisRun, ConnectedSoFar, RunReturned, Answered,
              TunnelsCleared, NoTunnels, NoDeadTunnel, InUse, Lifecycle, DropsPlugins, MaxFaults
<1>3. CASE InSession(DaemonSetCall)
  BY <1>1, <1>3, CallKeepsType, CallKeepsInv DEF InSession
<1>4. CASE InSession(HookStep)
  BY <1>1, <1>4, HookKeepsType, HookKeepsInv DEF InSession
<1>5. CASE InSession(Session)
  BY <1>1, <1>5, SessionKeepsType, SessionKeepsInv DEF InSession
<1>6. ASSUME NEW h \in Hosts,
             InSession(UseTunnel(h) \/ Controllers(h) \/ PodCrashes(h) \/ (h \in Masters /\ MasterDisconnects(h)))
      PROVE  Inv'
  BY <1>1, <1>6, ClusterKeepsType, ClusterKeepsInv DEF InSession
<1>7. Masters \in SUBSET Hosts
  BY <1>1, SessionKinds DEF TypeOK
<1>8. CASE InSession(Ended)
  BY <1>2, <1>8 DEF InSession, Ended
<1> QED
  BY <1>2, <1>3, <1>4, <1>5, <1>6, <1>7, <1>8 DEF Next, InSession

LEMMA Invariance == Spec => []Inv
  BY InvInit, InvStep, PTL DEF Spec

-----------------------------------------------------------------------------
\* However many hosts there are and however many calls fail: run() does not return normally,
\* although it swallows what its calls raise, unless it has created the daemon set itself and
\* waited for a pod on each of them.
THEOREM RunHasDeployed == Spec => []DeployedByThisRun
<1>1. Inv => DeployedByThisRun
  BY DEF Inv, LabelsOfPhase, PodsOfThisRun, RunReturned, DeployedByThisRun, InUse
<1> QED
  BY <1>1, Invariance, PTL

\* The connections and tunnels a test finds are of pods of its own, or a crash, an old pod that
\* answered, or a kill() that did not reach its clear accounts for them.
THEOREM PodsAreOwnOrExcused == Spec => []OwnPodsOrExcused
<1>1. Inv => OwnPodsOrExcused
  BY DEF Inv, LabelsOfPhase, ConnectedSoFar, RunReturned, Answered, OwnPodsOrExcused,
         ConnectedOrExcused, InUse
<1> QED
  BY <1>1, Invariance, PTL
-----------------------------------------------------------------------------
(* A session that has lost its tunnels to the API.                         *)

\* No setup gets past the first API call of run(), and no teardown past that of kill(),
\* where the tunnels would be cleared.
CutOff ==
  /\ AllDead /\ ~DropsPlugins
  /\ \/ phase = "setup" /\ pc \in {"hook", "running", "raised"}
     \/ phase = "teardown" /\ pc \in {"running", "raised", "done"}

LEMMA CutOffStep ==
  ASSUME TypeOK, CutOff, [Next]_vars
  PROVE  CutOff'
<1>1. AllDead /\ ~DropsPlugins
  BY DEF CutOff
<1>2. CASE UNCHANGED vars
  BY <1>2 DEF vars, CutOff, AllDead, Masters, DropsPlugins
<1>3. \A m \in Masters : ~ApiAnswers(m)
  BY <1>1 DEF AllDead, ApiAnswers
<1>4. UNCHANGED session /\ UNCHANGED kube => AllDead' /\ ~DropsPlugins'
  BY <1>1 DEF AllDead, Masters, DropsPlugins
<1>5. CASE InSession(DaemonSetCall)
  <2>1. pc \in {"running", "delete", "wait_gone", "secret", "create", "wait_ready"} /\ ApiRaises
    BY <1>3, <1>5 DEF InSession, DaemonSetCall, CutOff, Running, DeleteDaemonSet, DeleteSwallows,
       WaitGone, CreateImagePullSecret, CreateDaemonSet, CreateSwallows, WaitReady,
       WaitGoneTimeout, ClearTunnels, WaitReadyRaises, Result, At
  <2>2. UNCHANGED <<session, kube, phase>> /\ pc' = "raised"
    BY <1>5, <2>1 DEF InSession, ApiRaises, Raise, linkVars
  <2> QED BY <1>4, <2>2 DEF CutOff
<1>6. CASE InSession(HookStep)
  <2>1. Hook /\ UNCHANGED session
    BY <1>6 DEF InSession, HookStep, CutOff, Connect, ConnectTimesOut, AllConnected,
       CleanBetweenTests, At
  <2>2. UNCHANGED phase /\ pc' = "running" /\ phase = "setup"
    BY <2>1 DEF Hook, CutOff, At
  <2>3. \A m \in Masters : kube'[m] = "dead"
    <3>1. Masters \in SUBSET Hosts
      BY SessionKinds DEF TypeOK
    <3> QED BY <1>1, <2>1, <3>1 DEF Hook, AllDead, Relabel
  <2>4. AllDead' /\ ~DropsPlugins'
    BY <1>1, <2>1, <2>3 DEF AllDead, Masters, DropsPlugins
  <2> QED BY <2>2, <2>4 DEF CutOff
<1>7. CASE InSession(Session)
  <2>1. (SetupFailed \/ NextTest) /\ UNCHANGED session
    BY <1>7 DEF InSession, Session, CutOff, Deployed, DeployFailed, Installed, SetUp, TestOver, At
  <2>2. /\ UNCHANGED kube
        /\ \/ phase' = "teardown" /\ pc' \in {"running", "done"}
           \/ phase' = "setup" /\ pc' = "hook"
    BY <1>1, <2>1 DEF SetupFailed, NextTest, EnterTeardown, EnterSetup, Enter, linkVars
  <2> QED BY <1>4, <2>1, <2>2 DEF CutOff
<1>8. CASE InSession(Ended)
  BY <1>2, <1>8 DEF InSession, Ended
<1>9. ASSUME NEW h \in Hosts, InSession(UseTunnel(h) \/ Controllers(h) \/ PodCrashes(h))
      PROVE  CutOff'
  <2>1. UNCHANGED <<session, kube, phase, pc>>
    BY <1>9 DEF InSession, UseTunnel, Controllers, Schedule, ContainerStarts, Bind, OldPodEnds,
       PodCrashes, clientVars
  <2> QED BY <1>4, <2>1 DEF CutOff
<1>10. ASSUME NEW m \in Masters PROVE ~InSession(MasterDisconnects(m))
  BY <1>1, <1>10 DEF InSession, MasterDisconnects, AllDead
<1> QED
  BY <1>2, <1>5, <1>6, <1>7, <1>8, <1>9, <1>10 DEF Next, InSession

\* Whatever the number of masters: when a setup begins with a dead tunnel to each of them cached,
\* no test is run any more, unless the framework drops the objects that hold the tunnels.
THEOREM CutOffSessionsStayCutOff == Spec => DeadKubectlIsForever
<1>1. phase = "setup" /\ pc = "hook" /\ AllDead /\ ~DropsPlugins => CutOff
  BY DEF CutOff
<1>2. CutOff => phase # "test"
  BY DEF CutOff
<1>3. Inv /\ CutOff /\ [Next]_vars => CutOff'
  BY CutOffStep DEF Inv
<1> QED
  BY <1>1, <1>2, <1>3, Invariance, PTL DEF Spec, DeadKubectlIsForever
=============================================================================
