---------------------------- MODULE ComposeService ----------------------------
(***************************************************************************)
(* One service of a docker-compose project and the calls of                *)
(* plugins/docker_compose.py and compose_util/compose_manager.py that      *)
(* create, replace and remove its containers.  up and create make the      *)
(* regular container, with the environment and the restart policy of the   *)
(* file; run makes a further one beside it, whose policy is set by a       *)
(* second command.                                                         *)
(*                                                                         *)
(* Containers exit by themselves.  A command may be lost before or after   *)
(* it has been executed; MaxFaults bounds how often.                       *)
(***************************************************************************)
EXTENDS Naturals, FiniteSets, Functions

CONSTANTS
  Boxes,     \* ids of containers
  Tries,     \* of compose_pull
  MaxFaults

VARIABLES
  box,      \* id -> [regular, policy: "always" as in the file or "no", given: has the
            \*        environment of the last call, up]
  pulled,   \* the image is there
  op, at,
  wanted,   \* the restart policy the call will set, or "unknown"
  mine,     \* the containers the call has made with run
  tries,
  excuse,   \* history: why containers may be gone or have lost the policy of the file
  faults

call == <<op, at, wanted, mine, tries>>
vars == <<box, pulled, call, excuse, faults>>

Ids == DOMAIN box
Regular == {b \in Ids : box[b].regular}
NewBox(regular, up) ==
  [regular |-> regular, policy |-> IF regular THEN "always" ELSE "no", given |-> ~regular,
   up |-> up]
With(b, x) == [c \in Ids \cup {b} |-> IF c = b THEN x ELSE box[c]]
Empty == [b \in {} |-> NewBox(TRUE, TRUE)]

Init ==
  /\ box = Empty
  /\ pulled \in BOOLEAN
  /\ op = "none" /\ at = "ok" /\ wanted = "unknown" /\ mine = {} /\ tries = 0
  /\ excuse = {"gone"}
  /\ faults = MaxFaults

Returned == at \in {"ok", "raised"}

\* A command that makes the containers box2: its answer may be lost, and so may be the
\* whole command.  Either way the call raises.
Command(box2, next, excuse2) ==
  \/ box' = box2 /\ at' = next /\ excuse' = excuse2 /\ UNCHANGED faults
  \/ /\ faults > 0
     /\ faults' = faults - 1
     /\ box' \in {box, box2}
     /\ at' = "raised"
     /\ excuse' = excuse \cup {"gone", "policy"}

-----------------------------------------------------------------------------
\* The process of a container ends; docker starts it again if the policy says so.
Exit(b) ==
  /\ box[b].up /\ box[b].policy = "no"
  /\ box' = [box EXCEPT ![b].up = FALSE]
  /\ UNCHANGED <<pulled, call, excuse, faults>>

Call(method, label, policy) ==
  /\ Returned
  /\ op' = method /\ at' = label /\ wanted' = policy /\ mine' = {} /\ tries' = 0
  /\ box' = [b \in Ids |-> [box[b] EXCEPT !.given = FALSE]]
  /\ excuse' = IF policy = "no" THEN excuse \cup {"policy"} ELSE excuse
  /\ UNCHANGED <<pulled, faults>>

compose_down == Call("compose_down", "down", "unknown")
compose_up == Call("compose_up", "up", "unknown")
pull_and_up == Call("pull_and_up", "down", "unknown")
restart_services == Call("restart_services", "restart", "unknown")
recreate_service == Call("recreate_service", "purge", "unknown")
run_sevice_with_environment == Call("run_sevice_with_environment", "run", "no")
adjust_service_environment ==
  \/ Call("adjust_service_environment", "inspect", "unknown")
  \/ \E policy \in {"always", "no"} : Call("adjust_service_environment", "purge", policy)

\* down takes the regular containers and those of run.
Down ==
  /\ at = "down"
  /\ Command(Empty, IF op = "pull_and_up" THEN "pull" ELSE "ok", {"gone"})
  /\ UNCHANGED <<pulled, op, wanted, mine, tries>>

\* @retry(tries=5).
Pull ==
  /\ at = "pull"
  /\ \/ pulled' = TRUE /\ at' = "up" /\ UNCHANGED <<tries, faults>>
     \/ /\ faults > 0
        /\ faults' = faults - 1
        /\ tries' = tries + 1
        /\ at' = IF tries' = Tries THEN "raised" ELSE "pull"
        /\ UNCHANGED pulled
  /\ UNCHANGED <<box, op, wanted, mine, excuse>>

\* The regular container is created unless there is one, and started.
UpBoxes(b) ==
  IF Regular = {} THEN With(b, NewBox(TRUE, TRUE))
  ELSE [c \in Ids |-> IF c \in Regular THEN [box[c] EXCEPT !.up = TRUE] ELSE box[c]]

Up ==
  /\ at = "up"
  /\ \E b \in Boxes : b \notin Ids /\ Command(UpBoxes(b), "ok", excuse \ {"gone"})
  /\ UNCHANGED <<pulled, op, wanted, mine, tries>>

\* restart, and of a service without containers nothing.
Restart ==
  /\ at = "restart"
  /\ Command([b \in Ids |-> [box[b] EXCEPT !.up = TRUE]], "ok", excuse)
  /\ UNCHANGED <<pulled, op, wanted, mine, tries>>

\* Mutant of InspectPolicy: the policy is not figured out.
InspectNoPolicy ==
  /\ at = "inspect"
  /\ wanted' = "no"
  /\ at' = IF Cardinality(Ids) # 1 THEN "raised" ELSE "purge"
  /\ UNCHANGED <<box, pulled, op, mine, tries, excuse, faults>>

\* service_docker_id prints no id or several when there is not one container, and docker
\* inspect fails.
InspectPolicy ==
  /\ at = "inspect"
  /\ \/ /\ Cardinality(Ids) = 1
        /\ wanted' = box[CHOOSE b \in Ids : TRUE].policy
        /\ at' = "purge"
        /\ UNCHANGED faults
     \/ Cardinality(Ids) # 1 /\ at' = "raised" /\ UNCHANGED <<wanted, faults>>
     \/ faults > 0 /\ faults' = faults - 1 /\ at' = "raised" /\ UNCHANGED wanted
  /\ UNCHANGED <<box, pulled, op, mine, tries, excuse>>

\* rm -s -f: all containers of the service, run or not.
Purge ==
  /\ at = "purge"
  /\ Command(Empty, IF op = "recreate_service" THEN "create" ELSE "run", excuse)
  /\ UNCHANGED <<pulled, op, wanted, mine, tries>>

\* up --no-start --force-recreate.
Create ==
  /\ at = "create"
  /\ \E b \in Boxes : b \notin Ids /\ Command(With(b, NewBox(TRUE, FALSE)), "ok", {})
  /\ UNCHANGED <<pulled, op, wanted, mine, tries>>

\* docker-compose run without --rm, under the policy "no".
Run ==
  /\ at = "run"
  /\ \E b \in Boxes :
       /\ b \notin Ids
       /\ Command(With(b, NewBox(FALSE, TRUE)), "policy", excuse \ {"gone"})
       /\ mine' = {b}
  /\ UNCHANGED <<pulled, op, wanted, tries>>

\* docker update --restart.  A container that has exited may be refused as "a stopped
\* container", which is passed over; the policy stays as it is.
ChangeRestartPolicy ==
  /\ at = "policy"
  /\ LET updated == [b \in Ids |-> IF b \in mine THEN [box[b] EXCEPT !.policy = wanted] ELSE box[b]]
     IN  \/ Command(updated, "ok", excuse)
         \/ /\ \E b \in mine : ~box[b].up
            /\ at' = "ok"
            /\ excuse' = excuse \cup {"policy"}
            /\ UNCHANGED <<box, faults>>
  /\ UNCHANGED <<pulled, op, wanted, mine, tries>>

Next ==
  \/ \E b \in Ids : Exit(b)
  \/ compose_down \/ compose_up \/ pull_and_up \/ restart_services \/ recreate_service
  \/ Cardinality(Ids) < 2 /\ run_sevice_with_environment
  \/ adjust_service_environment
  \/ Down \/ Pull \/ Up \/ Restart \/ InspectPolicy \/ Purge \/ Create \/ Run
  \/ ChangeRestartPolicy

Spec == Init /\ [][Next]_vars

-----------------------------------------------------------------------------
\* Every variable has the type its declaration says.
TypeOK ==
  /\ Ids \subseteq Boxes
  /\ \A b \in Ids : box[b] \in [regular : BOOLEAN, policy : {"always", "no"}, given : BOOLEAN, up : BOOLEAN]
  /\ pulled \in BOOLEAN
  /\ op \in {"none", "compose_down", "compose_up", "pull_and_up", "restart_services", "recreate_service",
             "run_sevice_with_environment", "adjust_service_environment"}
  /\ at \in {"ok", "raised", "down", "pull", "up", "restart", "inspect", "purge", "create", "run", "policy"}
  /\ wanted \in {"always", "no", "unknown"}
  /\ mine \subseteq Boxes
  /\ tries \in 0..Tries
  /\ excuse \subseteq {"gone", "policy"}
  /\ faults \in 0..MaxFaults

\* Replacing a service loses neither its container nor its restart policy unseen: between
\* calls, a service without containers was taken down or a call on it has failed, and a
\* container is under the policy "no" only if somebody has asked for it, a call has
\* failed, or a container had exited before its policy could be set, since the service
\* was last made as in the file.  adjust_service_environment leaves one container, with
\* the environment it was given.
ServiceKept ==
  /\ Returned /\ Ids = {} => "gone" \in excuse
  /\ Returned /\ (\E b \in Ids : box[b].policy = "no") => "policy" \in excuse
  /\ at = "ok" /\ op = "adjust_service_environment" =>
       Ids = mine /\ \E b \in mine : mine = {b} /\ box[b].given
-----------------------------------------------------------------------------
(* Why it holds.                                                           *)

\* The labels each call goes through.
LabelsOfCall ==
  /\ at = "down" => op \in {"compose_down", "pull_and_up"}
  /\ at = "pull" => op = "pull_and_up"
  /\ at \in {"down", "pull"} => tries < Tries
  /\ at = "up" => op \in {"compose_up", "pull_and_up"}
  /\ at = "restart" => op = "restart_services"
  /\ at = "inspect" => op = "adjust_service_environment"
  /\ at = "purge" => op \in {"recreate_service", "adjust_service_environment"}
  /\ at = "create" => op = "recreate_service"
  /\ at \in {"run", "policy"} => op \in {"run_sevice_with_environment", "adjust_service_environment"}

\* Only while a call replaces the containers may they be gone, or have a policy, for no
\* reason outside the call.
Excused ==
  at \notin {"purge", "create", "run", "policy"} =>
    /\ Ids = {} => "gone" \in excuse
    /\ (\E b \in Ids : box[b].policy = "no") => "policy" \in excuse

\* Then the policy it will set is that of the file, or excused.
WantedIsExcused ==
  at \in {"purge", "run", "policy"} /\ op # "recreate_service" =>
    wanted # "unknown" /\ (wanted = "no" => "policy" \in excuse)

\* What it replaces is gone before the new container comes.
Replaced ==
  /\ at = "create" \/ (at = "run" /\ op = "adjust_service_environment") => Ids = {}
  /\ at \in {"run", "policy"} /\ op = "run_sevice_with_environment" => wanted = "no"
  /\ at = "policy" => \E b \in Ids : mine = {b} /\ box[b].given
  /\ at = "policy" /\ op = "adjust_service_environment" => Ids = mine

Inv == TypeOK /\ LabelsOfCall /\ Excused /\ WantedIsExcused /\ Replaced /\ ServiceKept
==============================================================================
