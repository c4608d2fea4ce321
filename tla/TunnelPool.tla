------------------------------ MODULE TunnelPool ------------------------------
(***************************************************************************)
(* What the callers of TunnelManager may rely on, without its dictionary   *)
(* and its jobs, when stop() and clear() have the manager for themselves:  *)
(* a service is connected, by a tunnel that is open, or it is not.  A      *)
(* get_or_create that returns leaves its service connected; only one that  *)
(* found it unconnected connects it, once, by a tunnel of its own, or      *)
(* raises with nothing done.  Only stop() and clear() take a connection    *)
(* away, and it never comes back.                                          *)
(***************************************************************************)

CONSTANTS Threads, Services, Tunnels, None

VARIABLES
  connection,  \* the tunnel a service is connected by, or None
  given,       \* the tunnels that have been connections
  call,        \* where a thread is: a get that seeks or is served, a stop, a clear
  service,     \* the service it asks for
  outcome      \* how its last call ended

vars == <<connection, given, call, service, outcome>>

Init ==
  /\ connection = [s \in Services |-> None]
  /\ given = {}
  /\ call = [t \in Threads |-> "none"]
  /\ service = [t \in Threads |-> None]
  /\ outcome = [t \in Threads |-> "none"]

Quiet == \A u \in Threads : call[u] \notin {"stop", "clear"}
Alone == \A u \in Threads : call[u] = "none"

Becomes(t, step, s) == call' = [call EXCEPT ![t] = step] /\ service' = [service EXCEPT ![t] = s]
Ends(t, how) == Becomes(t, "none", None) /\ outcome' = [outcome EXCEPT ![t] = how]

Ask(t, s) ==
  /\ call[t] = "none" /\ Quiet
  /\ Becomes(t, IF connection[s] = None THEN "seeking" ELSE "served", s)
  /\ UNCHANGED <<connection, given, outcome>>

\* Another thread that was seeking too may have been first.
Connect(t, k) ==
  /\ call[t] = "seeking" /\ k \notin given
  /\ connection' = [connection EXCEPT ![service[t]] = k]
  /\ given' = given \cup {k}
  /\ Becomes(t, "served", service[t])
  /\ UNCHANGED outcome

GiveUp(t) == call[t] = "seeking" /\ Ends(t, "OpenFailed") /\ UNCHANGED <<connection, given>>

Return(t) ==
  /\ call[t] = "served" /\ connection[service[t]] # None
  /\ Ends(t, "ok")
  /\ UNCHANGED <<connection, given>>

Stop(t, s) ==
  /\ Alone
  /\ connection' = [connection EXCEPT ![s] = None]
  /\ IF connection[s] = None
     THEN Ends(t, "ok")
     ELSE Becomes(t, "stop", None) /\ UNCHANGED outcome
  /\ UNCHANGED given

StopEnds(t) == call[t] = "stop" /\ Ends(t, "ok") /\ UNCHANGED <<connection, given>>

Clear(t) ==
  /\ Alone
  /\ IF \A s \in Services : connection[s] = None
     THEN Ends(t, "ok")
     ELSE Becomes(t, "clear", None) /\ UNCHANGED outcome
  /\ UNCHANGED <<connection, given>>

Drop(t, s) ==
  /\ call[t] = "clear"
  /\ connection' = [connection EXCEPT ![s] = None]
  /\ UNCHANGED <<given, call, service, outcome>>

ClearEnds(t) ==
  /\ call[t] = "clear"
  /\ connection' = [s \in Services |-> None]
  /\ Ends(t, "ok")
  /\ UNCHANGED given

Step(t) ==
  \/ \E s \in Services : Ask(t, s) \/ Stop(t, s) \/ Drop(t, s)
  \/ \E k \in Tunnels : Connect(t, k)
  \/ GiveUp(t) \/ Return(t) \/ StopEnds(t) \/ Clear(t) \/ ClearEnds(t)

Next == \E t \in Threads : Step(t)

Spec == Init /\ [][Next]_vars
=============================================================================
