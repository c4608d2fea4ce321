---------------------------- MODULE TunnelManager ----------------------------
(***************************************************************************)
(* The TunnelManager plugin of one host: a dictionary from service names   *)
(* to SSH tunnels, shared by every thread of the test process that uses    *)
(* the host (plugins/tunnel_manager.py).                                   *)
(*                                                                         *)
(* The plugin takes no lock, so a step of the model is one access to the   *)
(* dictionary or one call on a tunnel; threads interleave between steps.   *)
(* A tunnel is an identity: opening one uses up an element of Tunnels,     *)
(* which bounds how many a behaviour opens.                                *)
(*                                                                         *)
(* Isolated says how the calls are scheduled.  TRUE: stop() and clear()    *)
(* run while no other call is in flight, as the session hooks do, on the   *)
(* main thread and after a test has joined its workers.  FALSE: anybody    *)
(* may call anything at any time.                                          *)
(***************************************************************************)
EXTENDS Naturals, FiniteSets

CONSTANTS
  Threads,    \* threads that share the manager of this host
  Services,   \* the names tunnels are cached under
  Tunnels,    \* identities of the tunnels that may be opened
  None,       \* no tunnel, no service, no thread
  Uses,       \* Uses[t]: the services that the code run by thread t asks for
  Isolated    \* are stop() and clear() called with no other call in flight?

ASSUME ConstantsAssumption ==
  /\ None \notin Tunnels \cup Services \cup Threads
  /\ IsFiniteSet(Services)
  /\ Uses \in [Threads -> SUBSET Services]
  /\ Isolated \in BOOLEAN

VARIABLES
  tunnels,      \* the dictionary: service -> tunnel, None where there is no key
  tunnelState,  \* whether a tunnel is unborn, open or stopped
  opener,       \* history: the thread that opened a tunnel
  pc,           \* where a thread is inside the manager's code
  arg,          \* the service_name a call is about
  opened,       \* the started tunnel _init_tunnel has not stored yet
  size,         \* the size of the dictionary when clear() began to iterate
  todo,         \* the keys that clear()'s iterator has not reached
  jobs,         \* the tunnels _do_stop is still to be called on
  outcome,      \* how the last call of a thread ended
  failed,       \* history: tunnels whose stop() raised (a logged warning)
  overwritten   \* history: <<k, t>> when thread t overwrote tunnel k in the dictionary

vars == <<tunnels, tunnelState, opener, pc, arg, opened, size, todo, jobs,
          outcome, failed, overwritten>>

\* The pc labels of the calls that take tunnels away, and all of them.
Maintenance == {"do_stop", "collect", "run_jobs", "empty"}
Labels == {"idle", "init", "store", "return"} \cup Maintenance
Outcomes == {"none", "ok", "KeyError", "RuntimeError", "OpenFailed"}

Keys == {s \in Services : tunnels[s] # None}
Cached == {tunnels[s] : s \in Keys}

Init ==
  /\ tunnels = [s \in Services |-> None]
  /\ tunnelState = [k \in Tunnels |-> "unborn"]
  /\ opener = [k \in Tunnels |-> None]
  /\ pc = [t \in Threads |-> "idle"]
  /\ arg = [t \in Threads |-> None]
  /\ opened = [t \in Threads |-> None]
  /\ size = [t \in Threads |-> 0]
  /\ todo = [t \in Threads |-> {}]
  /\ jobs = [t \in Threads |-> {}]
  /\ outcome = [t \in Threads |-> "none"]
  /\ failed = {}
  /\ overwritten = {}

-----------------------------------------------------------------------------
(* How calls begin and end.                                                *)

Idle(t) == pc[t] = "idle"

MayGet(t) ==
  /\ Idle(t)
  /\ Isolated => \A u \in Threads : pc[u] \notin Maintenance

MayMaintain(t) ==
  /\ Idle(t)
  /\ Isolated => \A u \in Threads : Idle(u)

\* Thread t leaves the manager's code; its locals are gone.
Finish(t, how) ==
  /\ pc' = [pc EXCEPT ![t] = "idle"]
  /\ arg' = [arg EXCEPT ![t] = None]
  /\ opened' = [opened EXCEPT ![t] = None]
  /\ size' = [size EXCEPT ![t] = 0]
  /\ outcome' = [outcome EXCEPT ![t] = how]

Goto(t, label) == pc' = [pc EXCEPT ![t] = label]

-----------------------------------------------------------------------------
(* get_or_create(service_name, ...).                                       *)

\* Mutant of GetCheck: the membership test is missing.
GetWithoutCheck(t, s) ==
  /\ MayGet(t)
  /\ s \in Uses[t]
  /\ Goto(t, "init")
  /\ arg' = [arg EXCEPT ![t] = s]
  /\ UNCHANGED <<tunnels, tunnelState, opener, opened, size, todo, jobs,
                 outcome, failed, overwritten>>

\* The membership test.
GetCheck(t, s) ==
  /\ MayGet(t)
  /\ s \in Uses[t]
  /\ Goto(t, IF tunnels[s] = None THEN "init" ELSE "return")
  /\ arg' = [arg EXCEPT ![t] = s]
  /\ UNCHANGED <<tunnels, tunnelState, opener, opened, size, todo, jobs,
                 outcome, failed, overwritten>>

\* _init_tunnel up to tunnel.start(): a new tunnel runs, still unknown to the
\* dictionary.
InitTunnel(t, k) ==
  /\ pc[t] = "init"
  /\ tunnelState[k] = "unborn"
  /\ tunnelState' = [tunnelState EXCEPT ![k] = "open"]
  /\ opener' = [opener EXCEPT ![k] = t]
  /\ opened' = [opened EXCEPT ![t] = k]
  /\ Goto(t, "store")
  /\ UNCHANGED <<tunnels, arg, size, todo, jobs, outcome, failed, overwritten>>

\* Mutant of InitFails: the exception is swallowed, as _do_stop does.
InitSwallows(t) ==
  /\ pc[t] = "init"
  /\ Goto(t, "return")
  /\ UNCHANGED <<tunnels, tunnelState, opener, arg, opened, size, todo, jobs,
                 outcome, failed, overwritten>>

\* get_transport(), Tunnel(...) or start() raises: nothing is running.
InitFails(t) ==
  /\ pc[t] = "init"
  /\ Finish(t, "OpenFailed")
  /\ UNCHANGED <<tunnels, tunnelState, opener, todo, jobs, failed, overwritten>>

\* self.tunnels[service_name] = tunnel.  A new key is appended to the
\* dictionary, so iterators under way will reach it; a key that is there keeps
\* its place and loses the tunnel it had.
Store(t) ==
  LET s == arg[t] IN
  /\ pc[t] = "store"
  /\ tunnels' = [tunnels EXCEPT ![s] = opened[t]]
  /\ overwritten' = overwritten \cup
       (IF tunnels[s] = None THEN {} ELSE {<<tunnels[s], t>>})
  /\ todo' = [u \in Threads |-> IF pc[u] = "collect" /\ tunnels[s] = None
                                THEN todo[u] \cup {s} ELSE todo[u]]
  /\ opened' = [opened EXCEPT ![t] = None]
  /\ Goto(t, "return")
  /\ UNCHANGED <<tunnelState, opener, arg, size, jobs, outcome, failed>>

\* return self.tunnels[service_name]: a second look at the dictionary.
GetReturn(t) ==
  /\ pc[t] = "return"
  /\ Finish(t, IF tunnels[arg[t]] = None THEN "KeyError" ELSE "ok")
  /\ UNCHANGED <<tunnels, tunnelState, opener, todo, jobs, failed, overwritten>>

-----------------------------------------------------------------------------
(* stop(service_name) and clear().                                         *)

\* Mutant of StopPop: the tunnel is looked up and not popped.
StopLooksUp(t, s) ==
  /\ MayMaintain(t)
  /\ s \in Uses[t] \cap Keys
  /\ jobs' = [jobs EXCEPT ![t] = {tunnels[s]}]
  /\ Goto(t, "do_stop")
  /\ UNCHANGED <<tunnels, tunnelState, opener, arg, opened, size, todo, outcome,
                 failed, overwritten>>

\* self.tunnels.pop(service_name, None) and the early return.
StopPop(t, s) ==
  /\ MayMaintain(t)
  /\ s \in Uses[t]
  /\ IF tunnels[s] = None
     THEN /\ outcome' = [outcome EXCEPT ![t] = "ok"]
          /\ UNCHANGED <<tunnels, todo, jobs, pc>>
     ELSE /\ tunnels' = [tunnels EXCEPT ![s] = None]
          /\ todo' = [u \in Threads |-> todo[u] \ {s}]
          /\ jobs' = [jobs EXCEPT ![t] = {tunnels[s]}]
          /\ Goto(t, "do_stop")
          /\ UNCHANGED outcome
  /\ UNCHANGED <<tunnelState, opener, arg, opened, size, failed, overwritten>>

\* _do_stop(k), for stop() or as one of clear()'s jobs: either the tunnel is
\* stopped or the exception is logged and the tunnel left as it was.
DoStop(t, k) ==
  /\ pc[t] \in {"do_stop", "run_jobs"}
  /\ k \in jobs[t]
  /\ \/ /\ tunnelState' = [tunnelState EXCEPT ![k] = "stopped"]
        /\ UNCHANGED failed
     \/ /\ failed' = failed \cup {k}
        /\ UNCHANGED tunnelState
  /\ jobs' = [jobs EXCEPT ![t] = @ \ {k}]
  /\ UNCHANGED <<tunnels, opener, pc, arg, opened, size, todo, outcome, overwritten>>

StopReturn(t) ==
  /\ pc[t] = "do_stop"
  /\ jobs[t] = {}
  /\ Finish(t, "ok")
  /\ UNCHANGED <<tunnels, tunnelState, opener, todo, jobs, failed, overwritten>>

\* clear(): the emptiness test, and an iterator over the dictionary's values.
ClearBegin(t) ==
  /\ MayMaintain(t)
  /\ IF Keys = {}
     THEN /\ outcome' = [outcome EXCEPT ![t] = "ok"]
          /\ UNCHANGED <<pc, size, todo>>
     ELSE /\ Goto(t, "collect")
          /\ size' = [size EXCEPT ![t] = Cardinality(Keys)]
          /\ todo' = [todo EXCEPT ![t] = Keys]
          /\ UNCHANGED outcome
  /\ UNCHANGED <<tunnels, tunnelState, opener, arg, opened, jobs, failed, overwritten>>

\* Mutant of ClearVisit: every job has the same key, so the last one wins.
ClearKeepsLast(t, s) ==
  /\ pc[t] = "collect"
  /\ Cardinality(Keys) = size[t]
  /\ s \in todo[t]
  /\ jobs' = [jobs EXCEPT ![t] = {tunnels[s]}]
  /\ todo' = [todo EXCEPT ![t] = @ \ {s}]
  /\ UNCHANGED <<tunnels, tunnelState, opener, pc, arg, opened, size, outcome,
                 failed, overwritten>>

\* One round of the comprehension that builds the jobs.
ClearVisit(t, s) ==
  /\ pc[t] = "collect"
  /\ Cardinality(Keys) = size[t]
  /\ s \in todo[t]
  /\ jobs' = [jobs EXCEPT ![t] = @ \cup {tunnels[s]}]
  /\ todo' = [todo EXCEPT ![t] = @ \ {s}]
  /\ UNCHANGED <<tunnels, tunnelState, opener, pc, arg, opened, size, outcome,
                 failed, overwritten>>

\* The iterator is exhausted; concurrently.run starts the jobs.
ClearRun(t) ==
  /\ pc[t] = "collect"
  /\ Cardinality(Keys) = size[t]
  /\ todo[t] = {}
  /\ Goto(t, "run_jobs")
  /\ UNCHANGED <<tunnels, tunnelState, opener, arg, opened, size, todo, jobs,
                 outcome, failed, overwritten>>

\* "dictionary changed size during iteration": clear() raises, nothing is stopped.
ClearRaises(t) ==
  /\ pc[t] = "collect"
  /\ Cardinality(Keys) # size[t]
  /\ Finish(t, "RuntimeError")
  /\ todo' = [todo EXCEPT ![t] = {}]
  /\ jobs' = [jobs EXCEPT ![t] = {}]
  /\ UNCHANGED <<tunnels, tunnelState, opener, failed, overwritten>>

\* Mutant of ClearJoin: it waits until every tunnel is really stopped.
ClearJoinStopped(t) ==
  /\ pc[t] = "run_jobs"
  /\ jobs[t] = {}
  /\ failed = {}
  /\ Goto(t, "empty")
  /\ UNCHANGED <<tunnels, tunnelState, opener, arg, opened, size, todo, jobs,
                 outcome, failed, overwritten>>

\* concurrently.run returns when every job has.
ClearJoin(t) ==
  /\ pc[t] = "run_jobs"
  /\ jobs[t] = {}
  /\ Goto(t, "empty")
  /\ UNCHANGED <<tunnels, tunnelState, opener, arg, opened, size, todo, jobs,
                 outcome, failed, overwritten>>

\* Mutant of ClearEmpty: the dictionary is not emptied.
ClearKeeps(t) ==
  /\ pc[t] = "empty"
  /\ Finish(t, "ok")
  /\ UNCHANGED <<tunnels, tunnelState, opener, todo, jobs, failed, overwritten>>

\* self.tunnels.clear() forgets whatever is cached by now.
ClearEmpty(t) ==
  /\ pc[t] = "empty"
  /\ tunnels' = [s \in Services |-> None]
  /\ todo' = [u \in Threads |-> {}]
  /\ Finish(t, "ok")
  /\ UNCHANGED <<tunnelState, opener, jobs, failed, overwritten>>

-----------------------------------------------------------------------------
Get(t) ==
  \/ \E s \in Services : GetCheck(t, s)
  \/ \E k \in Tunnels : InitTunnel(t, k)
  \/ InitFails(t)
  \/ Store(t)
  \/ GetReturn(t)

Stop(t) ==
  \/ \E s \in Services : StopPop(t, s)
  \/ \E k \in Tunnels : DoStop(t, k)
  \/ StopReturn(t)

Clear(t) ==
  \/ ClearBegin(t)
  \/ \E s \in Services : ClearVisit(t, s)
  \/ ClearRun(t)
  \/ ClearRaises(t)
  \/ ClearJoin(t)
  \/ ClearEmpty(t)

Next == \E t \in Threads : Get(t) \/ Stop(t) \/ Clear(t)

Spec == Init /\ [][Next]_vars

\* Every thread inside the manager's code is scheduled, and the calls it makes
\* on a tunnel return; nobody has to make a new call.
Fairness == \A t \in Threads : WF_vars(~Idle(t) /\ (Get(t) \/ Stop(t) \/ Clear(t)))

FairSpec == Spec /\ Fairness

-----------------------------------------------------------------------------
(* Properties.                                                             *)

\* Every variable has the type its declaration says.
TypeOK ==
  /\ tunnels \in [Services -> Tunnels \cup {None}]
  /\ tunnelState \in [Tunnels -> {"unborn", "open", "stopped"}]
  /\ opener \in [Tunnels -> Threads \cup {None}]
  /\ pc \in [Threads -> Labels]
  /\ arg \in [Threads -> Services \cup {None}]
  /\ opened \in [Threads -> Tunnels \cup {None}]
  /\ size \in [Threads -> Nat]
  /\ todo \in [Threads -> SUBSET Services]
  /\ jobs \in [Threads -> SUBSET Tunnels]
  /\ outcome \in [Threads -> Outcomes]
  /\ failed \in SUBSET Tunnels
  /\ overwritten \in SUBSET (Tunnels \X Threads)

Clearing(t) == pc[t] \in {"run_jobs", "empty"}

\* The dictionary names a stopped tunnel only while a clear() that has stopped
\* tunnels is still under way: whatever the threads do, no dead tunnel stays
\* cached once every clear() has returned, so a later get_or_create cannot be
\* handed one.
StaleOnlyDuringClear ==
  \A s \in Keys : tunnelState[tunnels[s]] = "stopped" => \E t \in Threads : Clearing(t)

\* With maintenance isolated, a get_or_create about to return finds its service
\* in the dictionary, and the tunnel it hands out is open, whichever of the
\* threads racing on the service stored it.
HandedOutIsOpen ==
  Isolated => \A t \in Threads : pc[t] = "return" =>
    /\ tunnels[arg[t]] # None
    /\ tunnelState[tunnels[arg[t]]] = "open"

\* With maintenance isolated, the second look of get_or_create never raises
\* KeyError and clear() never sees the dictionary change under its iterator.
NoCallRaises ==
  Isolated => \A t \in Threads : outcome[t] \notin {"KeyError", "RuntimeError"}

\* A thread that has the tunnel in its locals: just started, or to be stopped.
InHands(k) == \E t \in Threads : opened[t] = k \/ k \in jobs[t]

\* What accounts for an open tunnel: the dictionary or a thread has it, its
\* stop() raised, which _do_stop logs, or a racing get_or_create overwrote it.
Accounted(k) ==
  \/ k \in Cached
  \/ InHands(k)
  \/ k \in failed
  \/ \E t \in Threads : <<k, t>> \in overwritten

\* With maintenance isolated, an open tunnel nobody can reach any more has one
\* of two known causes, a stop() that raised or a racing get_or_create.  In
\* particular the final tunnels.clear() of clear() drops no tunnel that was not
\* given to _do_stop.
NoTunnelLost ==
  Isolated => \A k \in Tunnels : tunnelState[k] = "open" => Accounted(k)

\* A tunnel is overwritten, and left running for good, only when two different
\* threads ask for the same service; a service used by one thread never leaks.
OverwriteNeedsSharedService ==
  \A k \in Tunnels, t \in Threads : <<k, t>> \in overwritten =>
    \E u \in Threads \ {t} : opener[k] = u /\ Uses[t] \cap Uses[u] # {}

\* With maintenance isolated, stop() is never called on a tunnel that has been
\* stopped, by whichever of stop() and clear() came first.
NoDoubleStop ==
  Isolated => \A t \in Threads : \A k \in jobs[t] : tunnelState[k] = "open"

\* Every call returns or raises: neither the iteration of clear() nor the jobs
\* it waits for can hold a thread for ever.
CallsReturn == \A t \in Threads : ~Idle(t) ~> Idle(t)
-----------------------------------------------------------------------------
(* What callers see of it: TunnelPool.                                     *)

\* A tunnel that is cached and open connects its service; one that a thread has opened and
\* not stored yet has not been a connection.
Connection ==
  [s \in Services |-> IF s \in Keys /\ tunnelState[tunnels[s]] = "open" THEN tunnels[s] ELSE None]
Given == {k \in Tunnels : tunnelState[k] # "unborn" /\ \A t \in Threads : opened[t] # k}

CallOf(t) ==
  CASE pc[t] = "idle" -> "none"
    [] pc[t] \in {"init", "store"} -> "seeking"
    [] pc[t] = "return" -> "served"
    [] pc[t] = "do_stop" -> "stop"
    [] OTHER -> "clear"
Calls == [t \in Threads |-> CallOf(t)]

AskedBy(t) == IF pc[t] \in {"init", "store", "return"} THEN arg[t] ELSE None
Asked == [t \in Threads |-> AskedBy(t)]

Pool == INSTANCE TunnelPool WITH
  connection <- Connection, given <- Given, call <- Calls, service <- Asked

\* With maintenance isolated, whatever threads race on a service and whichever
\* tunnel fails to open or to stop, the calls are those of TunnelPool: get_or_create
\* returns with its service connected or raises with nothing done, a connection is
\* taken away by stop() and clear() only, and clear() leaves none.
ImplementsTunnelPool == Pool!Spec
=============================================================================
