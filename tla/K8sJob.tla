-------------------------------- MODULE K8sJob --------------------------------
(***************************************************************************)
(* A job of kubernetes and re_run_job of plugins/k8s.py, which reads it,   *)
(* replaces it by force, that is deletes it and creates it again, and      *)
(* waits until it has succeeded.  Other callers may do so at the same      *)
(* time.  MaxFaults bounds the commands that fail.                         *)
(***************************************************************************)
EXTENDS Naturals

CONSTANTS Callers, MaxFaults

JobStates == {"none", "running", "succeeded"}

VARIABLES
  job,    \* one of JobStates
  call,   \* caller -> [at, fresh: the job is not one from before it began]
  faults

vars == <<job, call, faults>>

Calls == [at : {"idle", "get job", "delete job", "create job", "succeeded", "ok", "raised"},
          fresh : BOOLEAN]

Idle == [at |-> "idle", fresh |-> FALSE]

Init ==
  /\ job \in JobStates
  /\ call = [c \in Callers |-> Idle]
  /\ faults = MaxFaults

At(c, label) == call[c].at = label
Goto(c, label) == call' = [call EXCEPT ![c].at = label]
Raise(c) == call' = [call EXCEPT ![c] = [Idle EXCEPT !.at = "raised"]]
Returned(c) == call[c].at \in {"idle", "ok", "raised"}

JobSucceeds ==
  /\ job = "running"
  /\ job' = "succeeded"
  /\ UNCHANGED <<call, faults>>

\* A command that fails: with an error that says so, and then it has changed nothing.
CommandFails(c) ==
  /\ ~Returned(c) /\ faults > 0
  /\ faults' = faults - 1
  /\ Raise(c)
  /\ UNCHANGED job

get_job(c) ==
  /\ At(c, "get job")
  /\ IF job = "none" THEN Raise(c) ELSE Goto(c, "delete job")
  /\ UNCHANGED <<job, faults>>

\* Mutant of ReplaceJobDeletes: a job that runs is left alone.
ReplaceKeepsRunning(c) ==
  /\ At(c, "delete job")
  /\ job' = IF job = "running" THEN job ELSE "none"
  /\ Goto(c, IF job = "running" THEN "succeeded" ELSE "create job")
  /\ UNCHANGED faults

\* replace --force deletes and then creates.
ReplaceJobDeletes(c) ==
  /\ At(c, "delete job")
  /\ job' = "none"
  /\ Goto(c, "create job")
  /\ UNCHANGED faults

\* What is created is new for every call that is under way.
ReplaceJobCreates(c) ==
  /\ At(c, "create job")
  /\ IF job = "none"
     THEN /\ job' = "running"
          /\ call' = [d \in Callers |->
               IF d = c THEN [at |-> "succeeded", fresh |-> TRUE]
               ELSE [call[d] EXCEPT !.fresh = @ \/ ~Returned(d)]]
     ELSE Raise(c) /\ UNCHANGED job
  /\ UNCHANGED faults

\* wait_for_predicate_nothrow: errors are not, and after 180 seconds it raises itself.
AwaitJob(c) ==
  /\ At(c, "succeeded")
  /\ IF job = "succeeded" THEN Goto(c, "ok") ELSE Raise(c)
  /\ UNCHANGED <<job, faults>>

\* What it has returned before is forgotten: the property is about the call under way.
re_run_job(c) ==
  /\ Returned(c)
  /\ call' = [call EXCEPT ![c] = [at |-> "get job", fresh |-> FALSE]]
  /\ UNCHANGED <<job, faults>>

Next ==
  \/ JobSucceeds
  \/ \E c \in Callers :
       \/ re_run_job(c) \/ get_job(c) \/ ReplaceJobDeletes(c) \/ ReplaceJobCreates(c)
       \/ AwaitJob(c) \/ CommandFails(c)

Spec == Init /\ [][Next]_vars

-----------------------------------------------------------------------------
\* Every variable has the type its declaration says.
TypeOK ==
  /\ job \in JobStates
  /\ call \in [Callers -> Calls]
  /\ faults \in 0..MaxFaults

\* The job whose success ends re_run_job is not one there was before it began.
WaitsForNewJob == \A c \in Callers : At(c, "ok") => call[c].fresh

-----------------------------------------------------------------------------
(* Why it holds.                                                           *)

\* Who waits has created the job, and those that others create later are new for it, too.
Inv == TypeOK /\ \A c \in Callers : At(c, "succeeded") \/ At(c, "ok") => call[c].fresh
==============================================================================
