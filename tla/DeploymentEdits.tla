--------------------------- MODULE DeploymentEdits ---------------------------
(***************************************************************************)
(* The environment and the liveness probe of a deployment or a stateful    *)
(* set, as utils/kubectl.py edits them: it reads the whole object, changes *)
(* it and replaces it.  The API refuses a replacement that was read before *)
(* the last change of any part of the object, with a conflict, and nobody  *)
(* tries again.                                                            *)
(*                                                                         *)
(* Each caller sets a variable named like it.  MaxFaults bounds requests   *)
(* that fail.                                                              *)
(***************************************************************************)
EXTENDS Naturals, Sequences

CONSTANTS Callers, Base, MaxFaults  \* Base: a variable there is from the start

VARIABLES
  env,    \* the names of the first container's variables, in order
  probe,  \* does it have a liveness probe?
  call,   \* caller -> where its call is
  faults

vars == <<env, probe, call, faults>>

Calls == [op : {"none", "add_env", "change_env", "disable_probe"},
          at : {"ok", "raised", "read", "replace"},
          name : Callers \cup {Base},  \* the variable change_env looks for
          read : Seq(Callers \cup {Base}),
          probe : BOOLEAN,
          fresh : BOOLEAN,             \* the object is as it was read
          excused : BOOLEAN]           \* history: change_env has overwritten its variable

Idle == [op |-> "none", at |-> "ok", name |-> Base, read |-> <<>>, probe |-> TRUE,
         fresh |-> FALSE, excused |-> FALSE]

Init ==
  /\ env = <<Base>>
  /\ probe = TRUE
  /\ call = [c \in Callers |-> Idle]
  /\ faults = MaxFaults

At(c, label) == call[c].at = label
Returned(c) == At(c, "ok") \/ At(c, "raised")
Sets == {env[i] : i \in 1..Len(env)}
Raise(c) == call' = [call EXCEPT ![c] = [Idle EXCEPT !.at = "raised"]]

\* The object has changed: what others have read of it is not fresh.
Changed(now) == [d \in Callers |-> [now[d] EXCEPT !.fresh = FALSE]]

\* A controller writes the status, or somebody scales: a version like any other.
OtherChange ==
  /\ \E c \in Callers : call[c].fresh
  /\ call' = Changed(call)
  /\ UNCHANGED <<env, probe, faults>>

RequestFails(c) ==
  /\ ~Returned(c)
  /\ faults > 0 /\ faults' = faults - 1
  /\ Raise(c)
  /\ UNCHANGED <<env, probe>>

ReadWorkload(c) ==
  /\ At(c, "read")
  /\ call' = [call EXCEPT ![c].at = "replace", ![c].read = env, ![c].probe = probe,
                          ![c].fresh = TRUE]
  /\ UNCHANGED <<env, probe, faults>>

\* The index of the variable that is to be changed: that of the first one with its name,
\* and -1, the last one, if none has it.
Index(vs, name) ==
  IF \E i \in 1..Len(vs) : vs[i] = name
  THEN CHOOSE i \in 1..Len(vs) : vs[i] = name /\ \A j \in 1..(i - 1) : vs[j] # name
  ELSE Len(vs)

\* What was read, with the change made to it, takes the place of the object.
Replace(c) ==
  LET vs == call[c].read
      i == Index(vs, call[c].name)
      change == call[c].op = "change_env"
  IN  /\ env' = CASE call[c].op = "add_env" -> Append(vs, c)
                  [] change -> [vs EXCEPT ![i] = c]
                  [] OTHER -> vs
      /\ probe' = (call[c].probe /\ call[c].op # "disable_probe")
      /\ call' = Changed([d \in Callers |->
           IF d = c THEN [call[d] EXCEPT !.at = "ok", !.read = <<>>]
           ELSE [call[d] EXCEPT !.excused = @ \/ (change /\ vs[i] = d)]])

\* Mutant of ReplaceWorkload: the object goes without the version that was read.
ReplaceAnyVersion(c) ==
  /\ At(c, "replace")
  /\ Replace(c)
  /\ UNCHANGED faults

\* A conflict if the object has changed.
ReplaceWorkload(c) ==
  /\ At(c, "replace")
  /\ IF call[c].fresh THEN Replace(c) ELSE Raise(c) /\ UNCHANGED <<env, probe>>
  /\ UNCHANGED faults

\* What others have returned is forgotten now.
Begin(c, op, name) ==
  /\ Returned(c)
  /\ call' = [d \in Callers |->
       IF d = c THEN [Idle EXCEPT !.op = op, !.at = "read", !.name = name]
       ELSE IF Returned(d) THEN Idle ELSE call[d]]
  /\ UNCHANGED <<env, probe, faults>>

add_env_to_workload(c) == c \notin Sets /\ Begin(c, "add_env", Base)
change_env_from_deployment(c) ==
  c \notin Sets /\ \E name \in Callers \cup {Base} : Begin(c, "change_env", name)
disable_liveness_probe(c) == probe /\ Begin(c, "disable_probe", Base)

Next ==
  \/ OtherChange
  \/ \E c \in Callers :
       \/ add_env_to_workload(c) \/ change_env_from_deployment(c) \/ disable_liveness_probe(c)
       \/ ReadWorkload(c) \/ ReplaceWorkload(c) \/ RequestFails(c)

Spec == Init /\ [][Next]_vars

-----------------------------------------------------------------------------
\* Every variable has the type its declaration says.
TypeOK ==
  /\ env \in Seq(Callers \cup {Base})
  /\ probe \in BOOLEAN
  /\ call \in [Callers -> Calls]
  /\ faults \in 0..MaxFaults

\* An edit that returns is not lost to another one: its variable stays, and a probe that
\* was disabled does not come back, unless change_env has overwritten the variable, which
\* it does by name or, when no variable has the name, to the last.
EditsAreKept ==
  \A c \in Callers : At(c, "ok") /\ ~call[c].excused =>
    /\ call[c].op \in {"add_env", "change_env"} => c \in Sets
    /\ call[c].op = "disable_probe" => ~probe

-----------------------------------------------------------------------------
(* Why it holds.                                                           *)

\* What is fresh is the object there is: it will lose no variable but the one it names.
ReadIsCurrent(c) ==
  At(c, "replace") /\ call[c].fresh => call[c].read = env /\ call[c].probe = probe

Inv ==
  /\ TypeOK
  /\ env # <<>>
  /\ \A c \in Callers : ReadIsCurrent(c)
  /\ EditsAreKept
==============================================================================
