--------------------------- MODULE ProxyContainer ---------------------------
(***************************************************************************)
(* The ProxyContainer plugin of one host (plugins/proxy_container.py): how *)
(* run() and kill() drive the container automation_proxy through docker    *)
(* commands sent over SSH.                                                 *)
(*                                                                         *)
(* The docker daemon is a second actor.  The container is started with     *)
(* --rm, so the daemon removes it, and frees its name, some time after it  *)
(* has exited; a container that exits by itself may leave its endpoint     *)
(* behind in the host network.  A docker command may fail before or after  *)
(* it took effect.  Faults of all these kinds are drawn from a budget,     *)
(* MaxFaults, so that liveness can ask what happens once they stop.        *)
(***************************************************************************)
EXTENDS Integers

CONSTANT MaxFaults

ASSUME FaultsAssumption == MaxFaults \in Nat

VARIABLES
  container,   \* automation_proxy at the daemon: "none", "running", or
               \* "exited" (stopped, or being removed: the name is still taken)
  endpoint,    \* a stale endpoint automation_proxy in network host
  fresh,       \* history: the last call has started a container
  crashed,     \* history: the last container started has exited by itself
  loggedIn,    \* Docker._logged_in
  call,        \* the method the client is in: "none", "run" or "kill"
  pc,          \* where in it the client is
  outcome,     \* how the last call ended
  faults       \* faults still to come

daemonVars == <<container, endpoint, crashed>>
vars == <<container, endpoint, fresh, crashed, loggedIn, call, pc, outcome, faults>>

Labels == {"idle", "look", "kill", "wait_gone", "legacy", "login",
           "docker_run", "wait_up", "disconnect", "rerun"}

Init ==
  /\ container \in {"none", "running", "exited"}
  /\ endpoint \in BOOLEAN
  /\ fresh = FALSE
  /\ crashed = FALSE
  /\ loggedIn = FALSE
  /\ call = "none"
  /\ pc = "idle"
  /\ outcome = "none"
  /\ faults = MaxFaults

-----------------------------------------------------------------------------
(* The client's calls.                                                     *)

\* The property running: docker ps -aq lists the container in any state.
running == container # "none"

Fault == faults > 0 /\ faults' = faults - 1

Finish(how) ==
  /\ pc' = "idle"
  /\ call' = "none"
  /\ outcome' = how

\* run() and restart(), and kill() and clear(), both start with kill()'s test.
Call(method) ==
  /\ pc = "idle"
  /\ call' = method
  /\ pc' = "look"
  /\ outcome' = "none"
  /\ fresh' = FALSE
  /\ UNCHANGED <<daemonVars, loggedIn, faults>>

\* kill() returns, to its caller or into the rest of run().
KillReturns ==
  IF call = "kill" THEN Finish("killed")
                   ELSE pc' = "legacy" /\ UNCHANGED <<call, outcome>>

\* kill(): if not self.running: return.
Look ==
  /\ pc = "look"
  /\ IF running THEN pc' = "kill" /\ UNCHANGED <<call, outcome>> ELSE KillReturns
  /\ UNCHANGED <<daemonVars, fresh, loggedIn, faults>>

\* Mutant of Kill: kill() returns without waiting for the removal.
KillNoWait ==
  /\ pc = "kill"
  /\ IF container = "running"
     THEN container' = "exited" /\ KillReturns
     ELSE Finish("raised") /\ UNCHANGED container
  /\ UNCHANGED <<endpoint, crashed, fresh, loggedIn, faults>>

\* docker kill automation_proxy: an error unless the container is running.
Kill ==
  /\ pc = "kill"
  /\ IF container = "running"
     THEN container' = "exited" /\ pc' = "wait_gone" /\ UNCHANGED <<call, outcome>>
     ELSE Finish("raised") /\ UNCHANGED container
  /\ UNCHANGED <<endpoint, crashed, fresh, loggedIn, faults>>

\* The command fails on the way there or on the way back.
KillLost ==
  /\ pc = "kill"
  /\ Fault
  /\ container' \in {container, IF container = "running" THEN "exited" ELSE container}
  /\ Finish("raised")
  /\ UNCHANGED <<endpoint, crashed, fresh, loggedIn>>

\* wait_for_predicate(not self.running) succeeds ...
WaitGone ==
  /\ pc = "wait_gone"
  /\ ~running
  /\ KillReturns
  /\ UNCHANGED <<daemonVars, fresh, loggedIn, faults>>

\* ... or gives up on a daemon that takes too long.
WaitGoneTimeout ==
  /\ pc = "wait_gone"
  /\ running
  /\ Fault
  /\ Finish("raised")
  /\ UNCHANGED <<daemonVars, fresh, loggedIn>>

\* check_for_legacy_containers() returns, or finds containers of several
\* compose projects and raises.
CheckForLegacyContainers ==
  /\ pc = "legacy"
  /\ \/ pc' = "login" /\ UNCHANGED <<call, outcome, faults>>
     \/ Fault /\ Finish("raised")
  /\ UNCHANGED <<daemonVars, fresh, loggedIn>>

\* Docker.login(): done once per plugin object.
Login ==
  /\ pc = "login"
  /\ \/ pc' = "docker_run" /\ loggedIn' = TRUE /\ UNCHANGED <<call, outcome, faults>>
     \/ ~loggedIn /\ Fault /\ Finish("raised") /\ UNCHANGED loggedIn
  /\ UNCHANGED <<daemonVars, fresh>>

\* The daemon creates and starts the container if it can.
CanStart == ~running /\ ~endpoint

Started ==
  /\ CanStart
  /\ container' = "running"
  /\ fresh' = TRUE
  /\ crashed' = FALSE

NotStarted == UNCHANGED <<container, fresh, crashed>>

\* docker run: the container starts, or its endpoint exists already, which the
\* handler recovers from, or its name is taken, which is raised (NameIsFree says
\* that this client never meets it).
DockerRun ==
  /\ pc = "docker_run"
  /\ IF CanStart
     THEN Started /\ pc' = "wait_up" /\ UNCHANGED <<call, outcome>>
     ELSE /\ NotStarted
          /\ IF running THEN Finish("raised")
                        ELSE pc' = "disconnect" /\ UNCHANGED <<call, outcome>>
  /\ UNCHANGED <<endpoint, loggedIn, faults>>

\* Mutant of DockerRunFails: the handler logs the error and does not raise it.
DockerRunFailsQuietly ==
  /\ pc = "docker_run"
  /\ Fault
  /\ Started \/ NotStarted
  /\ Finish("ok")
  /\ UNCHANGED <<endpoint, loggedIn>>

\* Mutant of DockerRunFails: any failure is taken for the stale endpoint, also one
\* that has started the container.
DockerRunFailsIntoHandler ==
  /\ pc = "docker_run"
  /\ Fault
  /\ Started \/ NotStarted
  /\ pc' = "disconnect"
  /\ UNCHANGED <<endpoint, loggedIn, call, outcome>>

\* docker run fails otherwise (no such image, a lost connection), possibly
\* after the container has started.
DockerRunFails ==
  /\ pc = "docker_run"
  /\ Fault
  /\ Started \/ NotStarted
  /\ Finish("raised")
  /\ UNCHANGED <<endpoint, loggedIn>>

\* wait_for_predicate(self.running): a container in any state will do; with
\* none, TimeoutError, which run() does not catch.
WaitUp ==
  /\ pc = "wait_up"
  /\ Finish(IF running THEN "ok" ELSE "raised")
  /\ UNCHANGED <<daemonVars, fresh, loggedIn, faults>>

\* Mutant of NetworkDisconnect: the stale endpoint is left alone.
NoDisconnect ==
  /\ pc = "disconnect"
  /\ pc' = "rerun"
  /\ UNCHANGED <<daemonVars, fresh, loggedIn, call, outcome, faults>>

\* The handler: docker network disconnect --force host automation_proxy.
NetworkDisconnect ==
  /\ pc = "disconnect"
  /\ \/ endpoint' = FALSE /\ pc' = "rerun" /\ UNCHANGED <<call, outcome, faults>>
     \/ Fault /\ Finish("raised") /\ UNCHANGED endpoint
  /\ UNCHANGED <<container, crashed, fresh, loggedIn>>

\* The handler's second docker run.  Whether it starts a container or not, both
\* branches of the if that follows it raise the first error.
Rerun ==
  /\ pc = "rerun"
  /\ \/ Started /\ UNCHANGED faults
     \/ NotStarted /\ IF CanStart THEN Fault ELSE UNCHANGED faults
  /\ Finish("raised")
  /\ UNCHANGED <<endpoint, loggedIn>>

-----------------------------------------------------------------------------
(* The daemon.                                                             *)

\* --rm: an exited container is removed.
AutoRemove ==
  /\ container = "exited"
  /\ container' = "none"
  /\ UNCHANGED <<endpoint, crashed, fresh, loggedIn, call, pc, outcome, faults>>

\* The proxy exits by itself, with or without its endpoint.
Crash ==
  /\ container = "running"
  /\ Fault
  /\ container' = "exited"
  /\ crashed' = TRUE
  /\ endpoint' \in {endpoint, TRUE}
  /\ UNCHANGED <<fresh, loggedIn, call, pc, outcome>>

-----------------------------------------------------------------------------
Client ==
  \/ Look \/ Kill \/ KillLost \/ WaitGone \/ WaitGoneTimeout
  \/ CheckForLegacyContainers \/ Login
  \/ DockerRun \/ DockerRunFails \/ WaitUp
  \/ NetworkDisconnect \/ Rerun

Next ==
  \/ \E method \in {"run", "kill"} : Call(method)
  \/ Client
  \/ AutoRemove
  \/ Crash

Spec == Init /\ [][Next]_vars

\* A call that has begun goes on, and the daemon removes what has exited; new
\* calls and faults are free not to happen.
FairSpec == Spec /\ WF_vars(Client) /\ WF_vars(AutoRemove)

-----------------------------------------------------------------------------
(* Properties.                                                             *)

\* Every variable has the type its declaration says.
TypeOK ==
  /\ container \in {"none", "running", "exited"}
  /\ endpoint \in BOOLEAN /\ fresh \in BOOLEAN /\ crashed \in BOOLEAN
  /\ loggedIn \in BOOLEAN
  /\ call \in {"none", "run", "kill"}
  /\ pc \in Labels
  /\ outcome \in {"none", "ok", "killed", "raised"}
  /\ faults \in 0..MaxFaults

\* run() never issues a docker run while the name automation_proxy is taken:
\* kill() does not return before --rm has taken effect, so the asynchronous
\* removal of the old proxy cannot collide with the start of the new one.
NameIsFree == pc \in {"docker_run", "disconnect", "rerun"} => ~running

\* What a call that returned normally tells its caller: after kill() the host has
\* no proxy; after run() it has the one this very call started, unless that one
\* has exited by itself since, which run() does not notice.
OutcomeTellsState ==
  /\ outcome = "killed" => ~running
  /\ outcome = "ok" => fresh /\ (container = "running" \/ crashed)

\* Whatever earlier calls, crashes and lost commands left behind, a caller that
\* keeps calling run() keeps getting proxies once faults stop: no leftover makes
\* run() fail for ever, although a run() that meets a stale endpoint removes it
\* and raises all the same, and one that meets an exited container raises too.
RunsKeepSucceeding ==
  []<>(pc = "look" /\ call = "run") => []<>(outcome = "ok")

\* What the hooks rely on: however docker commands are lost and containers crash
\* or are removed late, every call is one of ProxyService.  run() takes the old
\* proxy away before it starts one of its own, and starts no second one, although
\* it issues docker run twice when it meets a stale endpoint.
Service == INSTANCE ProxyService WITH proxy <- container, busy <- call, own <- fresh
ImplementsProxyService == Service!Spec
=============================================================================
