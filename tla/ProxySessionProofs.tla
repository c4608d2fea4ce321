-------------------------- MODULE ProxySessionProofs --------------------------
(***************************************************************************)
(* Proofs about ProxySession, for any hosts, services and kinds of session.*)
(***************************************************************************)
EXTENDS ProxySession, TLAPS

\* The steps of the hook of each phase.  No host is killed in a setup, and none is
\* at work while the installer or a test runs.
StepsOfPhase ==
  \A h \in Hosts :
    /\ phase = "deploy" => step[h] \in {"run", "connect", "done", "failed"}
    /\ phase = "setup" => step[h] \in {"drop", "clear", "run", "connect", "done", "failed"}
    /\ phase = "teardown" => step[h] \in {"kill", "done", "failed"}
    /\ phase \in {"install", "test", "aborted"} => step[h] = "done"

Connected(h) == crashed[h] \/ (proxy[h] /\ conn[h] = "live")

\* A host the hook is done with stays connected while it is at work on others.
DoneMeansConnected ==
  phase \in {"deploy", "setup", "install", "test"} =>
    \A h \in Hosts : At(h, "done") => Connected(h)

\* In a setup that clears or drops tunnels none is cached from that step on.
Cleared ==
  phase = "setup" /\ (Lifecycle = "pytest" \/ DropsPlugins) =>
    \A h \in Hosts : step[h] \in {"run", "connect", "done"} =>
      \A s \in Services : tunnels[h][s] = "none"

\* A setup that drops the plugin objects leaves no client cached either, and goes through
\* that step on every host.
Dropped ==
  phase = "setup" /\ DropsPlugins =>
    \A h \in Hosts : step[h] \in {"clear", "run", "connect", "done"} =>
      \A c \in Cachers : clients[h][c] = "none"

Inv ==
  /\ TypeOK
  /\ StepsOfPhase
  /\ DoneMeansConnected
  /\ Cleared
  /\ Dropped
  /\ NoStaleTunnel
  /\ NoStaleClient

-----------------------------------------------------------------------------
\* Breaking links keeps their type and leaves no link where none was.
LEMMA BrokenLinks ==
  ASSUME NEW S, NEW links \in [S -> Link]
  PROVE  /\ AllBroken(links) \in [S -> Link]
         /\ \A s \in S : links[s] = "none" => AllBroken(links)[s] = "none"
  BY DEF AllBroken, Broken, Link

\* A proxy that goes away takes the links over it along, and no others.
LEMMA LinksCut ==
  ASSUME TypeOK, NEW h \in Hosts, CutLinks(h)
  PROVE  /\ conn' \in [Hosts -> Link]
         /\ tunnels' \in [Hosts -> [Services -> Link]]
         /\ clients' \in [Hosts -> [Cachers -> Link]]
         /\ \A g \in Hosts \ {h} : UNCHANGED <<conn[g], tunnels[g], clients[g]>>
         /\ \A g \in Hosts, s \in Services : tunnels[g][s] = "none" => tunnels'[g][s] = "none"
         /\ \A g \in Hosts, c \in Cachers : clients[g][c] = "none" => clients'[g][c] = "none"
<1>1. Broken(conn[h]) \in Link
  BY DEF TypeOK, Broken, Link
<1>2. /\ AllBroken(tunnels[h]) \in [Services -> Link]
      /\ \A s \in Services : tunnels[h][s] = "none" => AllBroken(tunnels[h])[s] = "none"
  BY BrokenLinks DEF TypeOK
<1>3. /\ AllBroken(clients[h]) \in [Cachers -> Link]
      /\ \A c \in Cachers : clients[h][c] = "none" => AllBroken(clients[h])[c] = "none"
  BY BrokenLinks DEF TypeOK
<1> QED
  BY <1>1, <1>2, <1>3 DEF CutLinks, TypeOK

LEMMA InvInit == Init => Inv
<1> SUFFICES ASSUME Init PROVE Inv
  OBVIOUS
<1>1. TypeOK
  BY DEF Init, TypeOK, Phases, Steps, Link, NoLinks
<1>2. StepsOfPhase
  BY DEF Init, StepsOfPhase
<1>3. DoneMeansConnected
  BY DEF Init, DoneMeansConnected, At
<1>4. Cleared /\ Dropped /\ NoStaleTunnel /\ NoStaleClient
  BY DEF Init, Cleared, Dropped, NoStaleTunnel, NoStaleClient
<1> QED
  BY <1>1, <1>2, <1>3, <1>4 DEF Inv

\* The steps of a hook on one host.
LEMMA HostStepKeepsInv ==
  ASSUME Inv, NEW h \in Hosts, HostStep(h), UNCHANGED session
  PROVE  Inv'
<1> USE DEF Inv, At, GotoStep, Lifecycle, DropsPlugins
<1>1. CASE DropPlugins(h)
  <2>1. TypeOK'
    BY <1>1 DEF DropPlugins, TypeOK, Steps, Link, NoLinks
  <2>2. StepsOfPhase'
    BY <1>1 DEF DropPlugins, TypeOK, StepsOfPhase
  <2>3. DoneMeansConnected'
    BY <1>1 DEF DropPlugins, TypeOK, StepsOfPhase, DoneMeansConnected, Connected
  <2>4. Cleared' /\ Dropped'
    BY <1>1 DEF DropPlugins, TypeOK, Cleared, Dropped, NoLinks
  <2>5. NoStaleTunnel' /\ NoStaleClient'
    BY <1>1 DEF DropPlugins, StepsOfPhase, NoStaleTunnel, NoStaleClient
  <2> QED BY <2>1, <2>2, <2>3, <2>4, <2>5
<1>2. CASE ClearTunnels(h)
  <2>a. /\ AllBroken(clients[h]) \in [Cachers -> Link]
        /\ \A c \in Cachers : clients[h][c] = "none" => AllBroken(clients[h])[c] = "none"
    BY BrokenLinks DEF TypeOK
  <2>1. TypeOK'
    BY <1>2, <2>a DEF ClearTunnels, TypeOK, Steps, Link, NoLinks
  <2>2. StepsOfPhase'
    BY <1>2 DEF ClearTunnels, TypeOK, StepsOfPhase
  <2>3. DoneMeansConnected'
    BY <1>2 DEF ClearTunnels, TypeOK, DoneMeansConnected, Connected
  <2>4. Cleared'
    BY <1>2 DEF ClearTunnels, TypeOK, Cleared, NoLinks
  <2>5. Dropped'
    BY <1>2, <2>a DEF ClearTunnels, TypeOK, Dropped
  <2>6. NoStaleTunnel' /\ NoStaleClient'
    BY <1>2 DEF ClearTunnels, StepsOfPhase, NoStaleTunnel, NoStaleClient
  <2> QED BY <2>1, <2>2, <2>3, <2>4, <2>5, <2>6
<1>3. CASE ProxyRun(h) \/ ProxyRunRaises(h)
  <2>1. /\ UNCHANGED phase
        /\ step[h] = "run"
        /\ step' \in [Hosts -> Steps] /\ step'[h] \in {"connect", "failed"}
        /\ CutLinks(h) \/ UNCHANGED <<conn, tunnels, clients>>
        /\ \A g \in Hosts \ {h} : UNCHANGED <<step[g], proxy[g], crashed[g]>>
    BY <1>3 DEF ProxyRun, ProxyRunRaises, TypeOK, Steps
  <2>a. /\ conn' \in [Hosts -> Link]
        /\ tunnels' \in [Hosts -> [Services -> Link]]
        /\ clients' \in [Hosts -> [Cachers -> Link]]
        /\ \A g \in Hosts \ {h} : UNCHANGED conn[g]
        /\ \A g \in Hosts, s \in Services : tunnels[g][s] = "none" => tunnels'[g][s] = "none"
        /\ \A g \in Hosts, c \in Cachers : clients[g][c] = "none" => clients'[g][c] = "none"
    BY <2>1, LinksCut DEF TypeOK
  <2>b. proxy' \in [Hosts -> BOOLEAN] /\ crashed' \in [Hosts -> BOOLEAN]
    BY <1>3 DEF ProxyRun, ProxyRunRaises, TypeOK
  <2>2. TypeOK'
    BY <2>1, <2>a, <2>b DEF TypeOK, Steps
  <2>3. StepsOfPhase'
    BY <2>1 DEF TypeOK, StepsOfPhase
  <2>4. DoneMeansConnected'
    <3> SUFFICES ASSUME phase \in {"deploy", "setup", "install", "test"},
                        NEW g \in Hosts, step'[g] = "done"
                 PROVE  Connected(g)'
      BY <2>1 DEF DoneMeansConnected
    <3>1. g # h
      BY <2>1
    <3>2. UNCHANGED <<step[g], proxy[g], crashed[g], conn[g]>>
      BY <3>1, <2>1, <2>a
    <3> QED BY <3>2 DEF DoneMeansConnected, Connected
  <2>5. Cleared' /\ Dropped'
    <3>1. Cleared'
      BY <2>1, <2>a DEF Cleared
    <3>2. Dropped'
      BY <2>1, <2>a DEF Dropped
    <3> QED BY <3>1, <3>2
  <2>6. NoStaleTunnel' /\ NoStaleClient'
    BY <2>1 DEF StepsOfPhase, NoStaleTunnel, NoStaleClient
  <2> QED BY <2>2, <2>3, <2>4, <2>5, <2>6
<1>4. CASE Connect(h) \/ ConnectTimesOut(h)
  <2>1. TypeOK'
    BY <1>4 DEF Connect, ConnectTimesOut, TypeOK, Steps, Link
  <2>2. StepsOfPhase'
    BY <1>4 DEF Connect, ConnectTimesOut, TypeOK, StepsOfPhase
  <2>3. DoneMeansConnected'
    BY <1>4 DEF Connect, ConnectTimesOut, TypeOK, DoneMeansConnected, Connected
  <2>4. Cleared' /\ Dropped'
    <3>1. /\ UNCHANGED <<phase, tunnels, clients>>
          /\ step[h] = "connect"
          /\ \A g \in Hosts \ {h} : UNCHANGED step[g]
      BY <1>4 DEF Connect, ConnectTimesOut, TypeOK
    <3> QED BY <3>1 DEF Cleared, Dropped
  <2>5. NoStaleTunnel' /\ NoStaleClient'
    BY <1>4 DEF Connect, ConnectTimesOut, StepsOfPhase, NoStaleTunnel, NoStaleClient
  <2> QED BY <2>1, <2>2, <2>3, <2>4, <2>5
<1>5. CASE ProxyKill(h) \/ ProxyKillRaises(h)
  <2>1. /\ phase = "teardown" /\ phase' = "teardown"
        /\ CutLinks(h) \/ UNCHANGED <<conn, tunnels, clients>>
        /\ step' \in [Hosts -> Steps]
        /\ \A g \in Hosts : step'[g] \in {step[g], "done", "failed"}
    BY <1>5 DEF ProxyKill, ProxyKillRaises, TypeOK, StepsOfPhase, Phases, Steps
  <2>2. TypeOK'
    <3>1. /\ proxy' \in [Hosts -> BOOLEAN]
          /\ UNCHANGED crashed
      BY <1>5 DEF ProxyKill, ProxyKillRaises, TypeOK
    <3>2. /\ conn' \in [Hosts -> Link]
          /\ tunnels' \in [Hosts -> [Services -> Link]]
          /\ clients' \in [Hosts -> [Cachers -> Link]]
      BY <2>1, LinksCut DEF TypeOK
    <3> QED BY <2>1, <3>1, <3>2 DEF TypeOK
  <2>3. StepsOfPhase'
    BY <2>1 DEF StepsOfPhase
  <2>4. (DoneMeansConnected /\ Cleared /\ Dropped /\ NoStaleTunnel /\ NoStaleClient)'
    BY <2>1 DEF DoneMeansConnected, Cleared, Dropped, NoStaleTunnel, NoStaleClient
  <2> QED BY <2>2, <2>3, <2>4
<1> QED
  BY <1>1, <1>2, <1>3, <1>4, <1>5 DEF HostStep

\* A proxy that exits by itself: what breaks is excused on its host, and nothing breaks
\* on the others.
LEMMA CrashKeepsInv ==
  ASSUME Inv, NEW h \in Hosts, Crash(h), UNCHANGED session
  PROVE  Inv'
<1> USE DEF Inv, At, Lifecycle, DropsPlugins, Crash
<1>a. /\ conn' \in [Hosts -> Link]
      /\ tunnels' \in [Hosts -> [Services -> Link]]
      /\ clients' \in [Hosts -> [Cachers -> Link]]
      /\ \A g \in Hosts \ {h} : UNCHANGED <<conn[g], tunnels[g], clients[g]>>
      /\ \A g \in Hosts, s \in Services : tunnels[g][s] = "none" => tunnels'[g][s] = "none"
      /\ \A g \in Hosts, c \in Cachers : clients[g][c] = "none" => clients'[g][c] = "none"
  BY LinksCut
<1>1. TypeOK'
  BY <1>a DEF TypeOK
<1>2. StepsOfPhase'
  BY DEF StepsOfPhase
<1>3. DoneMeansConnected'
  BY <1>a DEF TypeOK, DoneMeansConnected, Connected
<1>4. Cleared' /\ Dropped'
  BY <1>a DEF Cleared, Dropped
<1>5. NoStaleTunnel' /\ NoStaleClient'
  BY <1>a DEF TypeOK, NoStaleTunnel, NoStaleClient
<1> QED
  BY <1>1, <1>2, <1>3, <1>4, <1>5

\* The installer and a test cache tunnels and clients, none of them stale.
LEMMA UseKeepsInv ==
  ASSUME Inv, NEW h \in Hosts, phase \in {"install", "test"}, UNCHANGED session,
         \/ \E s \in Services : UseTunnel(h, s)
         \/ \E c \in Cachers : UseClient(h, c)
  PROVE  Inv'
<1> USE SessionAssumption DEF Inv, At, Lifecycle, DropsPlugins
<1>1. PICK s \in Services :
        /\ UNCHANGED <<phase, step, proxy, conn, crashed>>
        /\ tunnels' = [tunnels EXCEPT ![h][s] = Tunnel(h, s)]
        /\ \/ UNCHANGED clients
           \/ /\ s \in Cachers /\ clients[h][s] = "none"
              /\ clients' = [clients EXCEPT ![h][s] = IF Tunnel(h, s) = "live" THEN "live" ELSE @]
  BY DEF UseTunnel, UseClient
<1>2. Tunnel(h, s) \in Link /\ (Tunnel(h, s) = "stale" => tunnels[h][s] = "stale")
  BY DEF Tunnel, TypeOK, Link
<1>3. \A g \in Hosts, c \in Cachers : clients'[g][c] \in {clients[g][c], "live"}
  <2>1. CASE UNCHANGED clients
    BY <2>1
  <2>2. CASE clients' = [clients EXCEPT ![h][s] = IF Tunnel(h, s) = "live" THEN "live" ELSE @]
    BY <2>2 DEF TypeOK
  <2> QED BY <1>1, <2>1, <2>2
<1>4. TypeOK'
  <2>1. tunnels' \in [Hosts -> [Services -> Link]]
    BY <1>1, <1>2 DEF TypeOK
  <2>2. clients' \in [Hosts -> [Cachers -> Link]]
    <3>1. CASE UNCHANGED clients
      BY <3>1 DEF TypeOK
    <3>2. CASE /\ s \in Cachers
               /\ clients' = [clients EXCEPT ![h][s] = IF Tunnel(h, s) = "live" THEN "live" ELSE @]
      <4>1. (IF Tunnel(h, s) = "live" THEN "live" ELSE clients[h][s]) \in Link
        BY <3>2 DEF TypeOK, Link
      <4> QED BY <3>2, <4>1 DEF TypeOK
    <3> QED BY <1>1, <3>1, <3>2
  <2> QED BY <1>1, <2>1, <2>2 DEF TypeOK
<1>5. StepsOfPhase' /\ DoneMeansConnected' /\ Cleared' /\ Dropped'
  BY <1>1 DEF StepsOfPhase, DoneMeansConnected, Connected, Cleared, Dropped
<1>6. NoStaleTunnel'
  BY <1>1, <1>2 DEF TypeOK, NoStaleTunnel
<1>7. NoStaleClient'
  BY <1>1, <1>3 DEF NoStaleClient
<1> QED
  BY <1>4, <1>5, <1>6, <1>7

\* From a phase to the next: its hook starts on every host.
LEMMA SessionStepKeepsInv ==
  ASSUME Inv, UNCHANGED session,
         \/ Deployed \/ DeployFailed \/ Installed
         \/ SetUp \/ SetupFailed \/ TestOver \/ NextTest
  PROVE  Inv'
<1> USE DEF Inv, At, Lifecycle, DropsPlugins, Enter, Succeeded
<1> DEFINE Enters(p, label) == phase' = p /\ step' = [h \in Hosts |-> label]
<1>1. \/ phase = "deploy" /\ Succeeded /\ Enters("install", "done")
      \/ Enters("aborted", "done")
      \/ Enters("setup", FirstSetupStep)
      \/ phase = "setup" /\ Succeeded /\ Enters("test", "done")
      \/ Enters("teardown", FirstTeardownStep)
  BY DEF Deployed, DeployFailed, Installed, SetUp, SetupFailed, TestOver, NextTest
<1>2. UNCHANGED <<session, proxy, conn, tunnels, clients, crashed>>
  BY DEF Deployed, DeployFailed, Installed, SetUp, SetupFailed, TestOver, NextTest
<1>3. /\ FirstSetupStep \in {"drop", "clear", "run"}
      /\ DropsPlugins => FirstSetupStep = "drop"
      /\ Lifecycle = "pytest" => FirstSetupStep \in {"drop", "clear"}
      /\ FirstTeardownStep \in {"kill", "done"}
  BY DEF FirstSetupStep, FirstTeardownStep
<1>4. TypeOK'
  BY <1>1, <1>2, <1>3 DEF TypeOK, Phases, Steps
<1>5. StepsOfPhase'
  BY <1>1, <1>3 DEF StepsOfPhase
<1>6. DoneMeansConnected'
  BY <1>1, <1>2, <1>3 DEF DoneMeansConnected, Connected
<1>7. Cleared' /\ Dropped'
  BY <1>1, <1>2, <1>3 DEF Cleared, Dropped
<1>8. NoStaleTunnel' /\ NoStaleClient'
  BY <1>1, <1>2 DEF Cleared, Dropped, NoStaleTunnel, NoStaleClient
<1> QED
  BY <1>4, <1>5, <1>6, <1>7, <1>8

LEMMA InvStep == Inv /\ [Next]_vars => Inv'
<1> SUFFICES ASSUME Inv, [Next]_vars PROVE Inv'
  OBVIOUS
<1>1. CASE UNCHANGED vars
  BY <1>1 DEF vars, Inv, TypeOK, StepsOfPhase, DoneMeansConnected, Connected, Cleared, Dropped,
              NoStaleTunnel, NoStaleClient, At, Lifecycle, DropsPlugins
<1>2. CASE UNCHANGED session /\ \E h \in Hosts : HostStep(h)
  BY <1>2, HostStepKeepsInv
<1>3. CASE UNCHANGED session /\ \E h \in Hosts : Crash(h)
  BY <1>3, CrashKeepsInv
<1>4. CASE /\ UNCHANGED session /\ phase \in {"install", "test"}
           /\ \E h \in Hosts : \/ \E s \in Services : UseTunnel(h, s)
                               \/ \E c \in Cachers : UseClient(h, c)
  BY <1>4, UseKeepsInv
<1>5. CASE /\ UNCHANGED session
           /\ \/ Deployed \/ DeployFailed \/ Installed
              \/ SetUp \/ SetupFailed \/ TestOver \/ NextTest
  BY <1>5, SessionStepKeepsInv
<1>6. CASE Ended
  BY <1>6, <1>1 DEF Ended
<1> QED
  BY <1>1, <1>2, <1>3, <1>4, <1>5, <1>6, SessionAssumption DEF Next

LEMMA Invariance == Spec => []Inv
  BY InvInit, InvStep, PTL DEF Spec

-----------------------------------------------------------------------------
\* However many hosts there are, and whatever failed or crashed in the setups before: as long
\* as the installer or a test runs, a proxy that has not exited by itself is connected to.
THEOREM HostsAreConnected == Spec => []ConnectedWhileInUse
<1>1. Inv => ConnectedWhileInUse
  BY DEF Inv, StepsOfPhase, DoneMeansConnected, Connected, ConnectedWhileInUse, At
<1> QED
  BY <1>1, Invariance, PTL

\* No test sees a tunnel, or a connection cached in a plugin, of a proxy that an earlier
\* hook has killed or replaced, in the lifecycles that promise it.
THEOREM NothingIsStale == Spec => []NothingStale
<1>1. Inv => NothingStale
  BY DEF Inv, NothingStale
<1> QED
  BY <1>1, Invariance, PTL
=============================================================================
