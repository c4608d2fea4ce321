---------------------------- MODULE DockerRegistry ----------------------------
(***************************************************************************)
(* plugins/docker_registry.py: threads bring an image of the machine that  *)
(* runs the tests to one host, through a registry container on the host    *)
(* and a temporary tag on either side (utils/docker.py does the local      *)
(* part).  Threads that deploy the same image share both tags.             *)
(*                                                                         *)
(* The image is rebuilt from time to time.  The registry is removed some   *)
(* time after it was killed and forgets what it stored; failing commands   *)
(* come from a budget, MaxFaults.                                          *)
(***************************************************************************)
EXTENDS Naturals

CONSTANTS Deployers, MaxBuilds, MaxFaults

VARIABLES
  image,     \* the build the local name stands for
  temp,      \* the one under the local temporary tag, 0 without the tag
  registry,  \* "none", "up" or "removing"
  stored,    \* what the registry has
  pulled,    \* under the temporary tag on the host
  deployed,  \* under the remote name
  deploy,    \* thread -> [at, failing: an exception is under way, since: history, the
             \*            build when it began, excused: history]
  untidy,    \* history: a command that removes a tag has failed
  faults

images == <<image, temp, stored, pulled, deployed>>
vars == <<images, registry, deploy, untidy, faults>>

Init ==
  /\ image = 1 /\ temp = 0 /\ stored = 0 /\ pulled = 0 /\ deployed = 0
  /\ registry = "none"
  /\ deploy = [d \in Deployers |-> [at |-> "ok", failing |-> FALSE, since |-> 0, excused |-> FALSE]]
  /\ untidy = FALSE
  /\ faults = MaxFaults

At(d, label) == deploy[d].at = label
Returned(d) == deploy[d].at \in {"ok", "raised"}
Excuse(ds) == [d \in Deployers |-> IF d \in ds THEN [deploy[d] EXCEPT !.excused = TRUE] ELSE deploy[d]]
UnderWay == {d \in Deployers : ~Returned(d)}

-----------------------------------------------------------------------------
Rebuild ==
  /\ image < MaxBuilds
  /\ image' = image + 1
  /\ UNCHANGED <<temp, stored, pulled, deployed, registry, deploy, untidy, faults>>

\* stop: docker kill of the registry, which was run with --rm.
stop ==
  /\ registry = "up"
  /\ registry' = "removing"
  /\ stored' = 0
  /\ deploy' = Excuse(UnderWay)
  /\ UNCHANGED <<image, temp, pulled, deployed, untidy, faults>>

AutoRemove ==
  /\ registry = "removing"
  /\ registry' = "none"
  /\ UNCHANGED <<images, deploy, untidy, faults>>

Begin(d) ==
  /\ Returned(d)
  /\ deploy' = [Excuse(UnderWay) EXCEPT
       ![d] = [at |-> "start", failing |-> FALSE, since |-> image, excused |-> UnderWay # {}]]
  /\ UNCHANGED <<images, registry, untidy, faults>>

\* A command of d that works when can holds; without, or by a fault, it goes to "rmi" with
\* an exception under way, or out of the call if that was before the try.
Command(d, can, next) ==
  LET otherwise == IF deploy[d].at \in {"start", "run", "tag", "rmi"} THEN "raised" ELSE "rmi"
  IN  \/ can /\ deploy' = [deploy EXCEPT ![d].at = next] /\ UNCHANGED faults
      \/ ~can /\ deploy' = [deploy EXCEPT ![d].at = otherwise, ![d].failing = TRUE]
         /\ UNCHANGED faults
      \/ /\ faults > 0
         /\ faults' = faults - 1
         /\ deploy' = [deploy EXCEPT ![d].at = otherwise, ![d].failing = TRUE, ![d].excused = TRUE]

Done(d, next) == deploy'[d].at = next /\ ~deploy'[d].failing

\* Mutant of Start: the registry is taken to be there.
StartNothing(d) ==
  /\ At(d, "start")
  /\ Command(d, TRUE, "tag")
  /\ UNCHANGED <<images, registry, untidy>>

\* is_container_up.
Start(d) ==
  /\ At(d, "start")
  /\ Command(d, TRUE, IF registry = "up" THEN "tag" ELSE "run")
  /\ UNCHANGED <<images, registry, untidy>>

\* docker run --name: refused while the name is taken.
RunRegistry(d) ==
  /\ At(d, "run") /\ registry # "removing"
  /\ Command(d, registry = "none", "tag")
  /\ registry' = IF Done(d, "tag") THEN "up" ELSE registry
  /\ UNCHANGED <<images, untidy>>

\* Just after a stop the container that was killed still has the name.
NameStillTaken(d) ==
  /\ At(d, "run") /\ registry = "removing"
  /\ deploy' = [deploy EXCEPT ![d].at = "raised", ![d].failing = TRUE, ![d].excused = TRUE]
  /\ UNCHANGED <<images, registry, untidy, faults>>

Tag(d) ==
  /\ At(d, "tag")
  /\ Command(d, TRUE, "push")
  /\ temp' = IF Done(d, "push") THEN image ELSE temp
  /\ UNCHANGED <<image, stored, pulled, deployed, registry, untidy>>

\* Mutant of Push: what the registry has already is not sent again.
PushOnce(d) ==
  /\ At(d, "push")
  /\ Command(d, temp # 0 /\ registry = "up", "pull")
  /\ stored' = IF Done(d, "pull") /\ stored = 0 THEN temp ELSE stored
  /\ UNCHANGED <<image, temp, pulled, deployed, registry, untidy>>

Push(d) ==
  /\ At(d, "push")
  /\ Command(d, temp # 0 /\ registry = "up", "pull")
  /\ stored' = IF Done(d, "pull") THEN temp ELSE stored
  /\ UNCHANGED <<image, temp, pulled, deployed, registry, untidy>>

Pull(d) ==
  /\ At(d, "pull")
  /\ Command(d, stored # 0 /\ registry = "up", "rename")
  /\ pulled' = IF Done(d, "rename") THEN stored ELSE pulled
  /\ UNCHANGED <<image, temp, stored, deployed, registry, untidy>>

TagOnRemote(d) ==
  /\ At(d, "rename")
  /\ Command(d, pulled # 0, "untag")
  /\ deployed' = IF Done(d, "untag") THEN pulled ELSE deployed
  /\ UNCHANGED <<image, temp, stored, pulled, registry, untidy>>

RemoveOnRemote(d) ==
  /\ At(d, "untag")
  /\ Command(d, pulled # 0, "rmi")
  /\ pulled' = IF Done(d, "rmi") THEN 0 ELSE pulled
  /\ UNCHANGED <<image, temp, stored, deployed, registry, untidy>>

\* finally.
RemoveTemp(d) ==
  /\ At(d, "rmi")
  /\ Command(d, temp # 0, IF deploy[d].failing THEN "raised" ELSE "ok")
  /\ temp' = IF faults' < faults THEN temp ELSE 0
  /\ untidy' = (untidy \/ faults' < faults)
  /\ UNCHANGED <<image, stored, pulled, deployed, registry>>

Next ==
  \/ Rebuild \/ stop \/ AutoRemove
  \/ \E d \in Deployers :
       \/ Begin(d) \/ Start(d) \/ RunRegistry(d) \/ NameStillTaken(d) \/ Tag(d) \/ Push(d)
       \/ Pull(d) \/ TagOnRemote(d) \/ RemoveOnRemote(d) \/ RemoveTemp(d)

Spec == Init /\ [][Next]_vars

-----------------------------------------------------------------------------
\* Every variable has the type its declaration says.
TypeOK ==
  /\ image \in 1..MaxBuilds
  /\ {temp, stored, pulled, deployed} \subseteq 0..image
  /\ registry \in {"none", "up", "removing"}
  /\ deploy \in [Deployers ->
       [at : {"ok", "raised", "start", "run", "tag", "push", "pull", "rename", "untag", "rmi"},
        failing : BOOLEAN, since : 0..image, excused : BOOLEAN]]
  /\ untidy \in BOOLEAN
  /\ faults \in 0..MaxFaults

\* A deploy that returns has left the host with the image of the time it began or a later
\* build, never with what an earlier deploy had put in the registry; it fails only when
\* something was in its way: another deploy, a stop of the registry, or a command that
\* failed; and between calls the temporary tag is gone unless its removal has failed.
DeploysAreCurrent ==
  /\ \A d \in Deployers : At(d, "ok") => deployed >= deploy[d].since
  /\ \A d \in Deployers : At(d, "raised") => deploy[d].excused
  /\ UnderWay = {} => temp = 0 \/ untidy

-----------------------------------------------------------------------------
(* Why it holds.                                                           *)

InTry(d) == deploy[d].at \in {"push", "pull", "rename", "untag", "rmi"}

\* Wherever the image is on its way to the host, what is there is none that was built
\* before a deploy that has passed the place began: the others bring later builds only.
Current(d) ==
  ~deploy[d].failing =>
    /\ InTry(d) \/ At(d, "ok") => temp = 0 \/ temp >= deploy[d].since
    /\ deploy[d].at \in {"pull", "rename", "untag", "rmi", "ok"} =>
         stored = 0 \/ stored >= deploy[d].since
    /\ deploy[d].at \in {"rename", "untag", "rmi", "ok"} =>
         pulled = 0 \/ pulled >= deploy[d].since
    /\ deploy[d].at \in {"untag", "rmi", "ok"} => deployed >= deploy[d].since

\* A deploy that nothing has disturbed is alone, and finds what its last step has left.
Alone(d) == ~deploy[d].excused /\ ~Returned(d)

Undisturbed(d) ==
  /\ \A e \in Deployers : e # d => Returned(e)
  /\ At(d, "run") => registry # "up"
  /\ deploy[d].at \in {"tag", "push", "pull"} => registry = "up"
  /\ InTry(d) => temp # 0
  /\ At(d, "pull") => stored # 0
  /\ deploy[d].at \in {"rename", "untag"} => pulled # 0

\* Where there is a tag there is a deploy that will remove it.
TagIsRemoved == temp = 0 \/ untidy \/ \E d \in Deployers : InTry(d)

Inv ==
  /\ TypeOK
  /\ TagIsRemoved
  /\ \A d \in Deployers :
       /\ Current(d)
       /\ Alone(d) => Undisturbed(d)
       /\ deploy[d].failing \/ At(d, "raised") => deploy[d].excused
       /\ At(d, "ok") => ~deploy[d].failing
==============================================================================
