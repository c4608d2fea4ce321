--------------------------- MODULE DeploymentData ---------------------------
(***************************************************************************)
(* A deployment of one replica that keeps its data in a volume claim, as   *)
(* utils/kubectl.py resets it: delete_deployment_data scales to zero,      *)
(* deletes the claim and scales back, recycle_pvc empties the volume with  *)
(* a pod of its own.                                                       *)
(*                                                                         *)
(* A claim goes away when no pod holds it any more, a pod cannot start on  *)
(* a claim that is going or gone, and nothing of the deployment creates it *)
(* again.  MaxFaults bounds requests that fail and waits that time out.    *)
(***************************************************************************)
EXTENDS Naturals

CONSTANTS Callers, MaxFaults

VARIABLES
  volumes,  \* does the template name volumes?  One of them is of the claim then
  spec,     \* spec.replicas
  status,   \* status.replicas: of pods that are not going
  pod,      \* "none", "pending" or "running"
  ending,   \* an earlier pod still holds the claim
  claim,    \* "bound", "going" or "none"
  cleaner,  \* caller -> its pv-cleaner pod: "none", "pending", "succeeded"
  call,
  faults

deployment == <<volumes, spec, status>>
vars == <<volumes, spec, status, pod, ending, claim, cleaner, call, faults>>

Calls == [op : {"none", "delete_data", "recycle"},
          at : {"ok", "raised", "spec", "down", "wait down", "claim", "up",
                "wait up", "check", "create", "wait cleaner", "delete cleaner"},
          replicas : {0, 1},
          old : BOOLEAN,      \* history: the claim is the one there was when it began
          cleaned : BOOLEAN,  \* history: its cleaner has run on the volume
          excused : BOOLEAN]  \* history: overtaken by another call, or began unsettled

Idle == [op |-> "none", at |-> "ok", replicas |-> 0,
         old |-> FALSE, cleaned |-> FALSE, excused |-> FALSE]

Init ==
  /\ volumes \in BOOLEAN
  /\ spec = 1 /\ status = 1 /\ pod = "running" /\ ending = FALSE
  /\ claim = "bound"
  /\ cleaner = [c \in Callers |-> "none"]
  /\ call = [c \in Callers |-> Idle]
  /\ faults = MaxFaults

At(c, label) == call[c].at = label
Returned(c) == At(c, "ok") \/ At(c, "raised")
Fault == faults > 0 /\ faults' = faults - 1
Goto(c, label) == call' = [call EXCEPT ![c].at = label]
Raise(c) == call' = [call EXCEPT ![c] = [Idle EXCEPT !.at = "raised"]]

-----------------------------------------------------------------------------
(* Kubernetes.                                                             *)

CreatePod ==
  /\ spec = 1 /\ pod = "none"
  /\ pod' = "pending"
  /\ UNCHANGED <<deployment, ending, claim, cleaner, call, faults>>

StartPod ==
  /\ pod = "pending" /\ (volumes => claim = "bound")
  /\ pod' = "running"
  /\ UNCHANGED <<deployment, ending, claim, cleaner, call, faults>>

DeletePod ==
  /\ spec = 0 /\ pod # "none"
  /\ pod' = "none"
  /\ ending' = (ending \/ pod = "running")
  /\ UNCHANGED <<deployment, claim, cleaner, call, faults>>

PodEnds ==
  /\ ending
  /\ ending' = FALSE
  /\ UNCHANGED <<deployment, pod, claim, cleaner, call, faults>>

WriteStatus ==
  LET replicas == IF pod = "none" THEN 0 ELSE 1
  IN  /\ status # replicas
      /\ status' = replicas
      /\ UNCHANGED <<volumes, spec, pod, ending, claim, cleaner, call, faults>>

ReleaseClaim ==
  /\ claim = "going" /\ (volumes => ~ending /\ pod # "running")
  /\ claim' = "none"
  /\ call' = [d \in Callers |-> [call[d] EXCEPT !.old = FALSE]]
  /\ UNCHANGED <<deployment, pod, ending, cleaner, faults>>

\* Whoever deploys the application creates the claim.
CreateClaim ==
  /\ claim = "none"
  /\ claim' = "bound"
  /\ UNCHANGED <<deployment, pod, ending, cleaner, call, faults>>

Clean(c) ==
  /\ cleaner[c] = "pending" /\ claim = "bound"
  /\ cleaner' = [cleaner EXCEPT ![c] = "succeeded"]
  /\ call' = [call EXCEPT ![c].cleaned = TRUE]
  /\ UNCHANGED <<deployment, pod, ending, claim, faults>>

-----------------------------------------------------------------------------
(* The requests.                                                           *)

RequestFails(c) ==
  /\ ~Returned(c) /\ call[c].at \notin {"wait down", "wait up", "check", "wait cleaner"}
  /\ Fault
  /\ Raise(c)
  /\ UNCHANGED <<deployment, pod, ending, claim, cleaner>>

WaitTimesOut(c) ==
  /\ \/ At(c, "wait down") /\ status # 0
     \/ At(c, "wait up") /\ status # call[c].replicas
     \/ At(c, "wait cleaner") /\ cleaner[c] # "succeeded"
  /\ Fault
  /\ Raise(c)
  /\ UNCHANGED <<deployment, pod, ending, claim, cleaner>>

ReadSpec(c) ==
  /\ At(c, "spec")
  /\ call' = [call EXCEPT ![c].at = "down", ![c].replicas = spec, ![c].old = claim # "none",
                          ![c].excused = @ \/ status # spec \/ (spec = 0) # (pod = "none")]
  /\ UNCHANGED <<deployment, pod, ending, claim, cleaner, faults>>

Scale(c, label, n, then) ==
  /\ At(c, label)
  /\ spec' = n
  /\ Goto(c, then)
  /\ UNCHANGED <<volumes, status, pod, ending, claim, cleaner, faults>>

ScaleDown(c) == Scale(c, "down", 0, "wait down")
ScaleUp(c) == Scale(c, "up", call[c].replicas, "wait up")

\* A template without volumes has None there, and None is not iterable.
WaitDown(c) ==
  /\ At(c, "wait down") /\ status = 0
  /\ IF volumes THEN Goto(c, "claim") ELSE Raise(c)
  /\ UNCHANGED <<deployment, pod, ending, claim, cleaner, faults>>

\* Mutant of DeleteClaim: a claim is not deleted while a pod that ends holds it.
DeleteUnheldClaim(c) ==
  /\ At(c, "claim")
  /\ IF claim = "none" THEN Raise(c) ELSE Goto(c, "up")
  /\ claim' = IF claim = "bound" /\ ~ending THEN "going" ELSE claim
  /\ UNCHANGED <<deployment, pod, ending, cleaner, faults>>

\* The request returns at once, whether or not the claim is held.
DeleteClaim(c) ==
  /\ At(c, "claim")
  /\ IF claim = "none" THEN Raise(c) ELSE Goto(c, "up")
  /\ claim' = IF claim = "bound" THEN "going" ELSE claim
  /\ UNCHANGED <<deployment, pod, ending, cleaner, faults>>

WaitUp(c) ==
  /\ At(c, "wait up") /\ status = call[c].replicas
  /\ Goto(c, "ok")
  /\ UNCHANGED <<deployment, pod, ending, claim, cleaner, faults>>

\* Only "not found" is raised: after any other error the call goes on.
CheckClaim(c) ==
  /\ At(c, "check")
  /\ \/ UNCHANGED faults /\ IF claim = "none" THEN Raise(c) ELSE Goto(c, "create")
     \/ Fault /\ Goto(c, "create")
  /\ UNCHANGED <<deployment, pod, ending, claim, cleaner>>

\* Its name is new: a cleaner that an earlier call has left is not in its way, and is
\* forgotten here.
CreateCleaner(c) ==
  /\ At(c, "create")
  /\ cleaner' = [cleaner EXCEPT ![c] = "pending"]
  /\ Goto(c, "wait cleaner")
  /\ UNCHANGED <<deployment, pod, ending, claim, faults>>

\* Mutant of AwaitCleaner: it is deleted as soon as it is there.
AwaitNothing(c) ==
  /\ At(c, "wait cleaner")
  /\ Goto(c, "delete cleaner")
  /\ UNCHANGED <<deployment, pod, ending, claim, cleaner, faults>>

AwaitCleaner(c) ==
  /\ At(c, "wait cleaner") /\ cleaner[c] = "succeeded"
  /\ Goto(c, "delete cleaner")
  /\ UNCHANGED <<deployment, pod, ending, claim, cleaner, faults>>

DeleteCleaner(c) ==
  /\ At(c, "delete cleaner")
  /\ cleaner' = [cleaner EXCEPT ![c] = "none"]
  /\ Goto(c, "ok")
  /\ UNCHANGED <<deployment, pod, ending, claim, faults>>

-----------------------------------------------------------------------------
(* The calls.                                                              *)

\* What others have returned is forgotten now.  A call is excused when another one on
\* replicas and claims is under way.
Begin(c, op, label) ==
  /\ Returned(c)
  /\ LET Scales(d) == call[d].op = "delete_data" /\ ~Returned(d)
     IN  call' = [d \in Callers |->
           IF d = c THEN [Idle EXCEPT !.op = op, !.at = label,
                            !.excused = op = "delete_data" /\ \E e \in Callers \ {c} : Scales(e)]
           ELSE IF Returned(d) THEN Idle
           ELSE [call[d] EXCEPT !.excused = @ \/ (call[d].op = "delete_data" /\ op = "delete_data")]]
  /\ UNCHANGED <<deployment, pod, ending, claim, cleaner, faults>>

delete_deployment_data(c) == Begin(c, "delete_data", "spec")
recycle_pvc(c) == Begin(c, "recycle", "check")

Next ==
  \/ CreatePod \/ StartPod \/ DeletePod \/ PodEnds \/ WriteStatus \/ ReleaseClaim \/ CreateClaim
  \/ \E c \in Callers :
       \/ delete_deployment_data(c) \/ recycle_pvc(c)
       \/ ReadSpec(c) \/ ScaleDown(c) \/ WaitDown(c) \/ DeleteClaim(c) \/ ScaleUp(c) \/ WaitUp(c)
       \/ CheckClaim(c) \/ CreateCleaner(c) \/ AwaitCleaner(c) \/ DeleteCleaner(c) \/ Clean(c)
       \/ RequestFails(c) \/ WaitTimesOut(c)

Spec == Init /\ [][Next]_vars

-----------------------------------------------------------------------------
\* Every variable has the type its declaration says.
TypeOK ==
  /\ volumes \in BOOLEAN
  /\ spec \in {0, 1} /\ status \in {0, 1}
  /\ pod \in {"none", "pending", "running"}
  /\ ending \in BOOLEAN
  /\ claim \in {"bound", "going", "none"}
  /\ cleaner \in [Callers -> {"none", "pending", "succeeded"}]
  /\ call \in [Callers -> Calls]
  /\ faults \in 0..MaxFaults

\* After delete_deployment_data no pod runs with the data there was, unless another such
\* call was under way, or the status was not yet that of the last one when it began: the
\* pod that comes back waits for a new claim.  It waits for ever if nobody creates one,
\* which the call does not look at.
DataIsDeleted ==
  \A c \in Callers :
    call[c].op = "delete_data" /\ At(c, "ok") /\ ~call[c].excused /\ pod = "running" =>
      ~call[c].old

\* When recycle_pvc returns, rm -rf /scrub/* has run on the volume, and has left nothing but
\* files that begin with a dot.
RecycleHasCleaned ==
  \A c \in Callers : call[c].op = "recycle" /\ At(c, "ok") => call[c].cleaned

-----------------------------------------------------------------------------
(* Why they hold.                                                          *)

\* The labels each call goes through.
LabelsOf(c) ==
  /\ call[c].op = "none" => Returned(c)
  /\ call[c].op = "delete_data" =>
       call[c].at \in {"spec", "down", "wait down", "claim", "up", "wait up", "ok"}
  /\ call[c].op = "recycle" =>
       call[c].at \in {"check", "create", "wait cleaner", "delete cleaner", "ok"}

\* A call that is not excused is the only one on replicas and claims, and each of its
\* steps finds the deployment as the one before has left it: no pod when the claim is
\* deleted, and from then on the old claim is one that goes.
Deletes(c) == call[c].op = "delete_data" /\ ~call[c].excused

DeletesAlone ==
  \A c, d \in Callers : Deletes(c) /\ d # c /\ call[d].op = "delete_data" => Returned(d)

AsLeft(c) ==
  /\ At(c, "down") => status = spec /\ (spec = 0 <=> pod = "none")
  /\ At(c, "wait down") => spec = 0 /\ (status = 0 => pod = "none")
  /\ At(c, "claim") \/ At(c, "up") => spec = 0 /\ pod = "none"
  /\ At(c, "claim") \/ At(c, "up") \/ At(c, "wait up") \/ At(c, "ok") => volumes
  /\ (At(c, "up") \/ At(c, "wait up") \/ At(c, "ok")) /\ call[c].old =>
       claim = "going" /\ pod # "running"

\* A cleaner a call waits for is its own.
OwnCleaner(c) ==
  call[c].op = "recycle" =>
    /\ At(c, "wait cleaner") /\ cleaner[c] = "succeeded" => call[c].cleaned
    /\ At(c, "delete cleaner") \/ At(c, "ok") => call[c].cleaned

Inv ==
  /\ TypeOK
  /\ DeletesAlone
  /\ \A c \in Callers : LabelsOf(c) /\ (Deletes(c) => AsLeft(c)) /\ OwnCleaner(c)
==============================================================================
