---------------------------- MODULE DockerService ----------------------------
(***************************************************************************)
(* The containers of a service on a host and the calls of plugins/docker.py*)
(* that stop, start and replace them.  A service is named by a regular     *)
(* expression which may match several containers: some calls take all of   *)
(* them, others the first in the order of docker ps, the newest.           *)
(*                                                                         *)
(* The daemon is a second actor: a container it has stopped may leave its  *)
(* port to a docker-proxy for a while, so that the next start cannot bind  *)
(* it, containers crash, and those are started again.  Failing commands,   *)
(* lingering ports and crashes come from a budget, MaxFaults.              *)
(***************************************************************************)
EXTENDS Integers, Sequences, FiniteSets, Functions

CONSTANTS
  Names,     \* containers the expression matches
  MaxFaults

ASSUME DockerAssumption == IsFiniteSet(Names) /\ MaxFaults \in Nat

VARIABLES
  order,     \* the containers there are, the newest first
  up,        \* those that run
  crashed,   \* those that have exited by themselves
  lingering, \* those whose port is still held by a docker-proxy of the past
  op,        \* the method called last
  pc,        \* where it is
  todo,      \* containers its command has still to act on
  listed,    \* history: all containers the command acts on
  errors,    \* kinds of errors on the command's stderr
  handled,   \* history: did _handle_docker_start_failure start a container?
  outcome,   \* how the call ended
  faults     \* faults still to come

daemonVars == <<order, up, crashed, lingering>>
callVars == <<op, pc, todo, listed, errors, handled, outcome>>
vars == <<daemonVars, callVars, faults>>

OnAll == {"restart", "kill", "start"}
OnFirst == {"stop_container", "start_container", "overwrite"}
Labels == {"idle", "list", "command", "start", "failed", "handle", "handle_stop",
           "handle_start", "remove", "run"}

Init ==
  /\ order \in Bijection(1..Cardinality(Names), Names)
  /\ up \in SUBSET Names
  /\ crashed = {}
  /\ lingering = {}
  /\ op = "restart"
  /\ pc = "idle"
  /\ todo = {}
  /\ listed = {}
  /\ errors = {}
  /\ handled = FALSE
  /\ outcome = "none"
  /\ faults = MaxFaults

Fault == faults > 0 /\ faults' = faults - 1

-----------------------------------------------------------------------------
(* What docker does to a container.                                        *)

\* Stopped by hand, it is not started again; its port may linger.
Stop(n) ==
  /\ up' = up \ {n}
  /\ crashed' = crashed \ {n}
  /\ \/ UNCHANGED <<lingering, faults>>
     \/ n \in up /\ Fault /\ lingering' = lingering \cup {n}
  /\ UNCHANGED order

Start(n) ==
  /\ up' = up \cup {n}
  /\ crashed' = crashed \ {n}
  /\ UNCHANGED <<order, lingering, faults>>

\* Its port is taken.
CannotBind(n) == n \in lingering /\ n \notin up

-----------------------------------------------------------------------------
(* The calls.                                                              *)

Goto(label) == pc' = label /\ UNCHANGED <<op, todo, listed, errors, handled, outcome>>

Return(how) ==
  /\ pc' = "idle"
  /\ outcome' = how
  /\ todo' = {}
  /\ UNCHANGED <<op, listed, errors>>

Raise == Return("raised") /\ UNCHANGED handled

\* Mutant of Call: what the last command has printed is not forgotten.
CallKeepsErrors(method) ==
  /\ pc = "idle"
  /\ op' = method
  /\ pc' = "list"
  /\ listed' = {}
  /\ handled' = FALSE
  /\ outcome' = "none"
  /\ UNCHANGED <<daemonVars, todo, errors, faults>>

Call(method) ==
  /\ pc = "idle"
  /\ op' = method
  /\ pc' = "list"
  /\ listed' = {}
  /\ errors' = {}
  /\ handled' = FALSE
  /\ outcome' = "none"
  /\ UNCHANGED <<daemonVars, todo, faults>>

\* docker ps, with -a or without.
Matching == IF op = "kill" THEN up ELSE Range(order)

\* It lists the newest first, and this is how a command goes through them.
Before(n, m) == \E i, j \in DOMAIN order : i < j /\ order[i] = n /\ order[j] = m
IsNext(n) == n \in todo /\ \A m \in todo \ {n} : Before(n, m)

\* Mutant of ListAll: the command is given the first container only.
ListAllFirst ==
  /\ pc = "list" /\ op \in OnAll
  /\ todo' = {n \in Matching : \A m \in Matching \ {n} : Before(n, m)}
  /\ listed' = Matching
  /\ pc' = "command"
  /\ UNCHANGED <<daemonVars, op, errors, handled, outcome, faults>>

\* xargs takes all that match, without any there is nothing to do.
ListAll ==
  /\ pc = "list" /\ op \in OnAll
  /\ todo' = Matching
  /\ listed' = Matching
  /\ pc' = "command"
  /\ UNCHANGED <<daemonVars, op, errors, handled, outcome, faults>>

\* A pipe ends as its last command does: when docker ps fails xargs is given
\* nothing, and the call goes on as if nothing matched.
ListFailsSilently ==
  /\ pc = "list" /\ op \in OnAll
  /\ Fault
  /\ Goto("command")
  /\ UNCHANGED daemonVars

\* container_by_name; without any, docker is given the name None, and
\* _first_network_by_name raises.
ListFirst ==
  /\ pc = "list" /\ op \in OnFirst
  /\ IF order = <<>>
     THEN Raise
     ELSE /\ todo' = {Head(order)}
          /\ listed' = {Head(order)}
          /\ pc' = IF op = "overwrite" THEN "remove" ELSE "command"
          /\ UNCHANGED <<op, errors, handled, outcome>>
  /\ UNCHANGED <<daemonVars, faults>>

\* The command goes on to its next container, with an error or without.
Advance(n, error) ==
  /\ pc' = "command"
  /\ todo' = todo \ {n}
  /\ errors' = errors \cup error
  /\ UNCHANGED <<op, listed, handled, outcome>>

\* docker restart, kill and stop.
StopNext(n) ==
  /\ pc = "command" /\ IsNext(n) /\ op \in {"restart", "kill", "stop_container"}
  /\ IF op = "kill" /\ n \notin up
     THEN Advance(n, {"other"}) /\ UNCHANGED <<daemonVars, faults>>
     ELSE Stop(n) /\ IF op = "restart" THEN Goto("start") ELSE Advance(n, {})

\* docker start, and the second half of docker restart.
Starting(n) ==
  /\ IsNext(n)
  /\ pc = "start" \/ (pc = "command" /\ op \in {"start", "start_container"})

StartNext(n) == Starting(n) /\ ~CannotBind(n) /\ Start(n) /\ Advance(n, {})

\* Mutant of StartFails: the output of the command is not looked at.
StartIgnored(n) ==
  /\ Starting(n)
  /\ CannotBind(n)
  /\ Advance(n, {})
  /\ UNCHANGED <<daemonVars, faults>>

StartFails(n) ==
  /\ Starting(n)
  /\ CannotBind(n)
  /\ Advance(n, {"bind"})
  /\ UNCHANGED <<daemonVars, faults>>

\* A container fails for another reason; docker goes on to the next.
CommandFails(n) ==
  /\ pc \in {"command", "start"} /\ IsNext(n)
  /\ Fault
  /\ Advance(n, {"other"})
  /\ UNCHANGED daemonVars

CommandEnds ==
  /\ pc = "command" /\ todo = {}
  /\ IF errors = {} THEN Return("ok") /\ UNCHANGED handled ELSE Goto("failed")
  /\ UNCHANGED <<daemonVars, faults>>

\* try_executing_and_verbosely_log_error: netstat | grep docker fails, and hides
\* the error of the command, when no docker-proxy listens.  Other services may
\* have one.
Diagnose ==
  /\ pc = "failed"
  /\ \/ IF op = "restart" /\ "bind" \in errors THEN Goto("handle") ELSE Raise
     \/ up = {} /\ lingering = {} /\ Raise
  /\ UNCHANGED <<daemonVars, faults>>

\* _handle_docker_start_failure: the first container only.
Handle ==
  /\ pc = "handle"
  /\ Goto(IF Head(order) \in up THEN "handle_stop" ELSE "handle_start")
  /\ UNCHANGED <<daemonVars, faults>>

HandleStop == pc = "handle_stop" /\ Stop(Head(order)) /\ Goto("handle_start")

HandleStart ==
  /\ pc = "handle_start"
  /\ IF CannotBind(Head(order))
     THEN Raise /\ UNCHANGED <<daemonVars, faults>>
     ELSE Start(Head(order)) /\ Return("ok") /\ handled' = TRUE

\* A command of the handler or of overwrite_and_run... fails.
HandlerFails ==
  /\ pc \in {"list", "handle", "handle_stop", "handle_start", "remove", "run"}
  /\ Fault
  /\ Raise
  /\ UNCHANGED daemonVars

\* Mutant of Remove: rm -f of all that match.
RemoveAll(n) ==
  /\ pc = "remove" /\ n \in todo
  /\ order' = <<>>
  /\ up' = {}
  /\ crashed' = {}
  /\ UNCHANGED <<lingering, faults>>
  /\ Goto("run")

\* rm -f, after all has been read that is needed to run the container again.
Remove(n) ==
  /\ pc = "remove" /\ n \in todo
  /\ \E i \in DOMAIN order :
       order[i] = n /\ order' = SubSeq(order, 1, i - 1) \o SubSeq(order, i + 1, Len(order))
  /\ up' = up \ {n}
  /\ crashed' = crashed \ {n}
  /\ \/ UNCHANGED <<lingering, faults>>
     \/ n \in up /\ Fault /\ lingering' = lingering \cup {n}
  /\ Goto("run")

\* docker run under the old name; it leaves a container it cannot start.
Run(n) ==
  /\ pc = "run" /\ n \in todo
  /\ order' = <<n>> \o order
  /\ IF CannotBind(n)
     THEN Raise /\ UNCHANGED up
     ELSE up' = up \cup {n} /\ Return("ok") /\ UNCHANGED handled
  /\ UNCHANGED <<crashed, lingering, faults>>

CallStep ==
  \/ ListAll \/ ListFailsSilently \/ ListFirst
  \/ \E n \in Names :
       \/ StopNext(n) \/ StartNext(n) \/ StartFails(n) \/ CommandFails(n)
       \/ Remove(n) \/ Run(n)
  \/ CommandEnds \/ Diagnose \/ Handle \/ HandleStop \/ HandleStart \/ HandlerFails

-----------------------------------------------------------------------------
(* The daemon.                                                             *)

Crash(n) ==
  /\ n \in up
  /\ Fault
  /\ up' = up \ {n}
  /\ crashed' = crashed \cup {n}
  /\ UNCHANGED <<order, lingering, callVars>>

\* By its restart policy, if it has one.
Revive(n) ==
  /\ n \in crashed
  /\ ~CannotBind(n)
  /\ Start(n)
  /\ UNCHANGED callVars

Release(n) ==
  /\ n \in lingering
  /\ lingering' = lingering \ {n}
  /\ UNCHANGED <<order, up, crashed, callVars, faults>>

Next ==
  \/ \E method \in OnAll \cup OnFirst : Call(method)
  \/ CallStep
  \/ \E n \in Names : Crash(n) \/ Revive(n) \/ Release(n)

Spec == Init /\ [][Next]_vars

\* Commands return and ports are released; nobody has to call.
FairSpec ==
  /\ Spec
  /\ WF_vars(CallStep)
  /\ \A n \in Names : WF_vars(Release(n))

-----------------------------------------------------------------------------
(* Properties.                                                             *)

\* Every variable has the type its declaration says; nothing runs or has crashed
\* that is not there.
TypeOK ==
  /\ order \in Seq(Names) /\ IsInjective(order)
  /\ up \in SUBSET Range(order)
  /\ crashed \in SUBSET (Range(order) \ up)
  /\ lingering \in SUBSET Names
  /\ op \in OnAll \cup OnFirst
  /\ pc \in Labels
  /\ todo \in SUBSET Names /\ listed \in SUBSET Names
  /\ errors \in SUBSET {"bind", "other"}
  /\ handled \in BOOLEAN
  /\ outcome \in {"none", "ok", "raised"}
  /\ faults \in 0..MaxFaults

Started == op \in {"restart", "start", "start_container", "overwrite"}

\* After a restart or start that returned normally every container it listed runs
\* or has crashed since.  Where the handler of start failures had to help, this is
\* promised of the newest container only: the others it had listed may be down.
\* It has listed all containers there are, unless docker ps failed.
OkMeansStarted ==
  outcome = "ok" /\ Started =>
    /\ \A n \in listed : n \in up \cup crashed \/ (handled /\ n # Head(order))
    /\ op \in OnAll => listed = Range(order) \/ faults < MaxFaults

\* After a stop or kill that returned normally no container it listed runs, also
\* not by its restart policy.
OkMeansStopped ==
  outcome = "ok" /\ op \in {"kill", "stop_container"} => listed \cap (up \cup crashed) = {}

\* A container is lost only by a fault, each fault loses at most one, and one that
\* was replaced is the newest: a retry after a loss does not meet the container it
\* was called for but the next that matches, and replaces that one.
LossIsBounded ==
  /\ pc = "idle" => Cardinality(Names \ Range(order)) <= MaxFaults - faults
  /\ op = "overwrite" /\ outcome = "ok" => listed = {Head(order)}

\* Once faults stop, restarts go on succeeding, whatever ports the commands before
\* have left bound or errors they have met.
RestartsKeepSucceeding ==
  []<>(op = "restart" /\ pc = "list") => []<>(op = "restart" /\ outcome = "ok")

-----------------------------------------------------------------------------
(* What is always so between the steps of a call.                          *)

Handling == {"failed", "handle", "handle_stop", "handle_start"}

\* A command acts on containers there are.
CallsKnow ==
  /\ pc = "idle" \/ outcome = "none"
  /\ pc \in {"idle", "list"} \cup Handling => todo = {}
  /\ pc = "list" => listed = {}
  /\ pc \in {"command", "start"} \cup Handling => todo \subseteq listed /\ listed \subseteq Range(order)
  /\ errors # {} => listed # {}
  /\ pc = "start" \/ pc \in Handling \ {"failed"} => op = "restart"
  /\ pc \in Handling \ {"failed"} => order # <<>>
  /\ pc = "command" => op # "overwrite"

\* A container that is to be replaced is the only one that is listed, and is there until
\* it is removed.
Replacing ==
  pc \in {"remove", "run"} =>
    /\ op = "overwrite"
    /\ \E n \in Names : todo = {n} /\ listed = {n} /\ (n \in Range(order) <=> pc = "remove")

\* Without an error so far, the containers the command has passed are what it makes them.
Passed ==
  pc \in {"command", "start"} /\ errors = {} =>
    IF op \in {"kill", "stop_container"}
    THEN (listed \ todo) \cap (up \cup crashed) = {}
    ELSE listed \ todo \subseteq up \cup crashed

AllListed ==
  op \in {"restart", "start"} /\ pc # "list" /\ (pc = "idle" => outcome = "ok") =>
    listed = Range(order) \/ faults < MaxFaults

\* While a container is being replaced it is missing without a fault.
Missing ==
  Cardinality(Names \ Range(order)) <= MaxFaults - faults + IF pc = "run" THEN 1 ELSE 0

Inv ==
  /\ TypeOK /\ CallsKnow /\ Replacing /\ Passed /\ AllListed /\ Missing
  /\ OkMeansStarted /\ OkMeansStopped /\ LossIsBounded
=============================================================================
