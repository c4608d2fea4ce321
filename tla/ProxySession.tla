---------------------------- MODULE ProxySession ----------------------------
(***************************************************************************)
(* A test session over several hosts: the hooks that restart each host's   *)
(* proxy container, reconnect SSH to it, and clear the tunnels that run    *)
(* over that connection, and the plugins that cache tunnels and database   *)
(* connections across hooks.  Two lifecycles are in the repository:        *)
(*                                                                         *)
(*   "pytest"  devops_proxy_container/__init__.py with the installer of    *)
(*             devops_docker_installer/__init__.py                         *)
(*   "gossip"  devops_automation_infra/installers/docker.py                *)
(*                                                                         *)
(* A call of ProxyContainer or TunnelManager is one step here, with the    *)
(* outcomes the modules of those names give it.  A connection, a tunnel    *)
(* or a client is "live" while it goes through to the running proxy and    *)
(* "stale" from the moment that proxy is gone: which proxy it was does not *)
(* matter, so no incarnations are counted and nothing has to be bounded.   *)
(***************************************************************************)
EXTENDS Naturals

CONSTANTS
  Hosts,
  First,         \* next(iter(base_config.hosts.values())): where the product is installed
  Services,      \* names under which plugins ask for tunnels
  Cachers,       \* services whose plugin also keeps a connection of its own
  Sessions       \* kinds of session

ASSUME SessionAssumption ==
  /\ First \in Hosts
  /\ Cachers \subseteq Services
  /\ Sessions \subseteq [lifecycle : {"pytest", "gossip"}, drops : BOOLEAN]

VARIABLES
  session,   \* the kind of this session, which no step changes
  phase,     \* where the session is
  step,      \* the next thing the hook of the phase does on a host
  proxy,     \* is a host's proxy container up?
  conn,      \* host.SSH._connection
  tunnels,   \* the dictionary of host.TunnelManager
  clients,   \* the connections cached by plugins, Postgresql._connection for one
  crashed    \* history: the proxy has exited by itself since it was started

vars == <<session, phase, step, proxy, conn, tunnels, clients, crashed>>

Lifecycle == session.lifecycle

\* Does the test framework drop a host's plugin objects before a setup?
DropsPlugins == session.drops

Link == {"none", "live", "stale"}
Phases == {"deploy", "install", "setup", "test", "teardown", "aborted"}
Steps == {"drop", "clear", "run", "connect", "kill", "done", "failed"}

\* What a link is once the proxy or the connection it runs over is gone.
Broken(link) == IF link = "live" THEN "stale" ELSE link
AllBroken(links) == [s \in DOMAIN links |-> Broken(links[s])]
NoLinks(S) == [s \in S |-> "none"]

\* Everything that went through the proxy of h is dead.
CutLinks(h) ==
  /\ conn' = [conn EXCEPT ![h] = Broken(@)]
  /\ tunnels' = [tunnels EXCEPT ![h] = AllBroken(@)]
  /\ clients' = [clients EXCEPT ![h] = AllBroken(@)]

Init ==
  /\ session \in Sessions
  /\ phase = "deploy"
  /\ step = [h \in Hosts |-> "run"]
  /\ proxy \in [Hosts -> BOOLEAN]
  /\ conn = [h \in Hosts |-> "none"]
  /\ tunnels = [h \in Hosts |-> NoLinks(Services)]
  /\ clients = [h \in Hosts |-> NoLinks(Cachers)]
  /\ crashed = [h \in Hosts |-> FALSE]

At(h, label) == step[h] = label
GotoStep(h, label) == step' = [step EXCEPT ![h] = label]

-----------------------------------------------------------------------------
(* What the hooks do on one host.                                          *)

\* Mutant of DropPlugins: only the SSH and TunnelManager objects are dropped.
DropInfraPlugins(h) ==
  /\ At(h, "drop")
  /\ conn' = [conn EXCEPT ![h] = "none"]
  /\ tunnels' = [tunnels EXCEPT ![h] = NoLinks(Services)]
  /\ GotoStep(h, IF Lifecycle = "pytest" THEN "clear" ELSE "run")
  /\ UNCHANGED <<phase, proxy, clients, crashed>>

\* The framework drops the plugin objects: SSH, TunnelManager and the clients
\* start from nothing, tunnels that were open are forgotten.
DropPlugins(h) ==
  /\ At(h, "drop")
  /\ conn' = [conn EXCEPT ![h] = "none"]
  /\ tunnels' = [tunnels EXCEPT ![h] = NoLinks(Services)]
  /\ clients' = [clients EXCEPT ![h] = NoLinks(Cachers)]
  /\ GotoStep(h, IF Lifecycle = "pytest" THEN "clear" ELSE "run")
  /\ UNCHANGED <<phase, proxy, crashed>>

\* Mutant of ClearTunnels: the hook does not clear, as installers/docker.py.
ClearNothing(h) ==
  /\ At(h, "clear")
  /\ GotoStep(h, "run")
  /\ UNCHANGED <<phase, proxy, conn, tunnels, clients, crashed>>

\* host.TunnelManager.clear(): clients lose the tunnels they run over.
ClearTunnels(h) ==
  /\ At(h, "clear")
  /\ tunnels' = [tunnels EXCEPT ![h] = NoLinks(Services)]
  /\ clients' = [clients EXCEPT ![h] = AllBroken(@)]
  /\ GotoStep(h, "run")
  /\ UNCHANGED <<phase, proxy, conn, crashed>>

\* host.ProxyContainer.run() returns: a new proxy is up.
ProxyRun(h) ==
  /\ At(h, "run")
  /\ proxy' = [proxy EXCEPT ![h] = TRUE]
  /\ crashed' = [crashed EXCEPT ![h] = FALSE]
  /\ CutLinks(h)
  /\ GotoStep(h, "connect")
  /\ UNCHANGED phase

\* It raises: before the old proxy was killed, or with no proxy or a new one.
ProxyRunRaises(h) ==
  /\ At(h, "run")
  /\ \/ UNCHANGED <<proxy, conn, tunnels, clients, crashed>>
     \/ /\ \E up \in BOOLEAN : proxy' = [proxy EXCEPT ![h] = up]
        /\ crashed' = [crashed EXCEPT ![h] = FALSE]
        /\ CutLinks(h)
  /\ GotoStep(h, "failed")
  /\ UNCHANGED phase

\* wait_nothrow(host.SSH.connect): a new Connection replaces the old one; it is
\* connected if there is a proxy to connect to.
Connect(h) ==
  /\ At(h, "connect")
  /\ proxy[h]
  /\ conn' = [conn EXCEPT ![h] = "live"]
  /\ GotoStep(h, "done")
  /\ UNCHANGED <<phase, proxy, tunnels, clients, crashed>>

\* Mutant of ConnectTimesOut: the hook goes on without the connection.
ConnectGivesUp(h) ==
  /\ At(h, "connect")
  /\ conn' = [conn EXCEPT ![h] = "stale"]
  /\ GotoStep(h, "done")
  /\ UNCHANGED <<phase, proxy, tunnels, clients, crashed>>

\* The wait times out.
ConnectTimesOut(h) ==
  /\ At(h, "connect")
  /\ conn' = [conn EXCEPT ![h] = "stale"]
  /\ GotoStep(h, "failed")
  /\ UNCHANGED <<phase, proxy, tunnels, clients, crashed>>

\* pytest_after_test: host.ProxyContainer.kill(), the tunnels stay cached.
ProxyKill(h) ==
  /\ At(h, "kill")
  /\ proxy' = [proxy EXCEPT ![h] = FALSE]
  /\ CutLinks(h)
  /\ GotoStep(h, "done")
  /\ UNCHANGED <<phase, crashed>>

\* It raises, before or after the proxy is gone; the hook's loop over the hosts
\* ends there.
ProxyKillRaises(h) ==
  /\ At(h, "kill")
  /\ \/ UNCHANGED <<proxy, conn, tunnels, clients>>
     \/ proxy' = [proxy EXCEPT ![h] = FALSE] /\ CutLinks(h)
  /\ step' = [g \in Hosts |-> IF At(g, "kill") THEN "failed" ELSE step[g]]
  /\ UNCHANGED <<phase, crashed>>

HostStep(h) ==
  \/ DropPlugins(h) \/ ClearTunnels(h)
  \/ ProxyRun(h) \/ ProxyRunRaises(h)
  \/ Connect(h) \/ ConnectTimesOut(h)
  \/ ProxyKill(h) \/ ProxyKillRaises(h)

-----------------------------------------------------------------------------
(* What the installer and a test do on one host.                           *)

\* TunnelManager.get_or_create(s): the cached tunnel, or one over the current
\* connection, which has to be live for that.
Tunnel(h, s) ==
  IF tunnels[h][s] # "none" THEN tunnels[h][s]
  ELSE IF conn[h] = "live" THEN "live" ELSE "none"

\* A plugin that fetches its tunnel at every use.
UseTunnel(h, s) ==
  /\ tunnels' = [tunnels EXCEPT ![h][s] = Tunnel(h, s)]
  /\ UNCHANGED <<phase, step, proxy, conn, clients, crashed>>

\* A plugin that connects through its tunnel once and keeps the connection.
UseClient(h, c) ==
  /\ clients[h][c] = "none"
  /\ tunnels' = [tunnels EXCEPT ![h][c] = Tunnel(h, c)]
  /\ clients' = [clients EXCEPT ![h][c] = IF Tunnel(h, c) = "live" THEN "live" ELSE @]
  /\ UNCHANGED <<phase, step, proxy, conn, crashed>>

\* The proxy exits by itself.
Crash(h) ==
  /\ proxy[h]
  /\ proxy' = [proxy EXCEPT ![h] = FALSE]
  /\ crashed' = [crashed EXCEPT ![h] = TRUE]
  /\ CutLinks(h)
  /\ UNCHANGED <<phase, step>>

-----------------------------------------------------------------------------
(* The session.                                                            *)

Over == \A h \in Hosts : step[h] \in {"done", "failed"}
Succeeded == \A h \in Hosts : At(h, "done")

Enter(p, label) ==
  /\ phase' = p
  /\ step' = [h \in Hosts |-> label]
  /\ UNCHANGED <<proxy, conn, tunnels, clients, crashed>>

\* The hook ran on every host: pytest_after_proxy_container, session_install.
Deployed == phase = "deploy" /\ Succeeded /\ Enter("install", "done")

SomeFailed == \E h \in Hosts : At(h, "failed")

\* A host that cannot be deployed ends the session, whatever has been done on
\* the others.
DeployFailed == phase = "deploy" /\ SomeFailed /\ Enter("aborted", "done")

Ended == phase = "aborted" /\ UNCHANGED vars

FirstSetupStep ==
  IF DropsPlugins THEN "drop" ELSE IF Lifecycle = "pytest" THEN "clear" ELSE "run"

\* The installer has pinged its services, and the setup of a test begins.
Installed == phase = "install" /\ Enter("setup", FirstSetupStep)

SetUp == phase = "setup" /\ Succeeded /\ Enter("test", "done")

FirstTeardownStep == IF Lifecycle = "pytest" THEN "kill" ELSE "done"

TestOver == phase = "test" /\ Enter("teardown", FirstTeardownStep)

\* A test whose setup failed is not run; it is torn down.
SetupFailed == phase = "setup" /\ Over /\ SomeFailed /\ Enter("teardown", FirstTeardownStep)

\* The next test, whether the teardown raised or not.
NextTest == phase = "teardown" /\ Over /\ Enter("setup", FirstSetupStep)

Next ==
  /\ UNCHANGED session
  /\ \/ \E h \in Hosts : HostStep(h)
     \/ \E h \in Hosts : Crash(h)
     \/ phase = "install" /\ \E s \in Services : UseTunnel(First, s)
     \/ phase = "install" /\ \E c \in Cachers : UseClient(First, c)
     \/ phase = "test" /\ \E h \in Hosts, s \in Services : UseTunnel(h, s)
     \/ phase = "test" /\ \E h \in Hosts, c \in Cachers : UseClient(h, c)
     \/ Deployed \/ DeployFailed \/ Ended \/ Installed
     \/ SetUp \/ SetupFailed \/ TestOver \/ NextTest

Spec == Init /\ [][Next]_vars

-----------------------------------------------------------------------------
(* Properties.                                                             *)

\* Every variable has the type its declaration says.
TypeOK ==
  /\ session \in Sessions
  /\ phase \in Phases
  /\ step \in [Hosts -> Steps]
  /\ proxy \in [Hosts -> BOOLEAN]
  /\ conn \in [Hosts -> Link]
  /\ tunnels \in [Hosts -> [Services -> Link]]
  /\ clients \in [Hosts -> [Cachers -> Link]]
  /\ crashed \in [Hosts -> BOOLEAN]

\* "Called after proxy container is running and connected to" (hooks.py): while
\* the installer or a test runs, every host, not only the one used first, has
\* its proxy and an SSH connection to that very proxy, unless the proxy has
\* exited by itself.
ConnectedWhileInUse ==
  phase \in {"install", "test"} => \A h \in Hosts :
    crashed[h] \/ (proxy[h] /\ conn[h] = "live")

\* A test is never handed a tunnel to a proxy of an earlier test, unless the
\* proxy it has exits by itself.  installers/docker.py clears no tunnels, so
\* there it takes a framework that drops the plugin objects.
NoStaleTunnel ==
  Lifecycle = "pytest" \/ DropsPlugins =>
    (phase = "test" => \A h \in Hosts, s \in Services :
       tunnels[h][s] = "stale" => crashed[h])

\* If the framework drops the plugin objects, no test uses a connection cached
\* in an earlier one or by the installer's pings either.  Nothing in the hooks
\* sees to that: TunnelManager.clear() stops the tunnel below a cached
\* connection and the plugin is not told.
NoStaleClient ==
  DropsPlugins =>
    (phase = "test" => \A h \in Hosts, c \in Cachers :
       clients[h][c] = "stale" => crashed[h])

\* What a test is given is of its own proxy: neither tunnels nor cached connections are
\* left over, nor is any variable of a value it should not have.
NothingStale == TypeOK /\ NoStaleTunnel /\ NoStaleClient
=============================================================================
