----------------------------- MODULE ProxyService -----------------------------
(***************************************************************************)
(* What the callers of ProxyContainer may rely on, without its docker      *)
(* commands: run() takes the proxy there is away and then starts at most   *)
(* one of its own, never two and never beside the old one; kill() only     *)
(* takes away.  A call ends in an outcome that tells the truth, or raises  *)
(* with any part of its work done.  The hooks of a session are modelled    *)
(* on these promises (ProxySession).                                       *)
(***************************************************************************)

VARIABLES
  proxy,   \* the container at the daemon: "none", "running" or "exited"
  busy,    \* the call under way: "none", "run" or "kill"
  own,     \* has the last call started a proxy?
  outcome  \* how it ended

vars == <<proxy, busy, own, outcome>>

Init ==
  /\ proxy \in {"none", "running", "exited"}
  /\ busy = "none"
  /\ own = FALSE
  /\ outcome = "none"

Begin(method) ==
  /\ busy = "none"
  /\ busy' = method
  /\ own' = FALSE
  /\ outcome' = "none"
  /\ UNCHANGED proxy

TakeAway == ~own /\ proxy = "running" /\ proxy' = "exited" /\ UNCHANGED own

StartOwn == busy = "run" /\ ~own /\ proxy = "none" /\ proxy' = "running" /\ own'

\* The outcomes a call may end with.
Truthful(how) ==
  \/ how = "raised"
  \/ how = "ok" /\ busy = "run" /\ own' /\ proxy' # "none"
  \/ how = "killed" /\ busy = "kill" /\ proxy' = "none"

Work ==
  /\ busy # "none"
  /\ TakeAway \/ StartOwn \/ UNCHANGED <<proxy, own>>
  /\ \/ UNCHANGED <<busy, outcome>>
     \/ busy' = "none" /\ \E how \in {"ok", "killed", "raised"} : Truthful(how) /\ outcome' = how

\* A proxy exits by itself, and one that has exited is removed.
Decay ==
  /\ \/ proxy = "running" /\ proxy' = "exited"
     \/ proxy = "exited" /\ proxy' = "none"
  /\ UNCHANGED <<busy, own, outcome>>

Next == (\E method \in {"run", "kill"} : Begin(method)) \/ Work \/ Decay

Spec == Init /\ [][Next]_vars
=============================================================================
