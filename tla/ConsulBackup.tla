---------------------------- MODULE ConsulBackup ----------------------------
(***************************************************************************)
(* backup_consul_keys (utils/consul.py): before a session the keys of each *)
(* host's Consul are compared with the backup a session before has left on *)
(* the host, and backed up again.  The calls for several hosts may overlap *)
(* and share one local file, keys.tmp.  Commands fail, and the process     *)
(* dies between any two of them, from a budget, MaxFaults.                 *)
(*                                                                         *)
(* The default keys of a host are named by the host: all other contents    *)
(* of its store are "changed".                                             *)
(***************************************************************************)
EXTENDS Naturals, FiniteSets

CONSTANTS Hosts, MaxFaults

ASSUME BackupAssumption ==
  /\ MaxFaults \in Nat
  /\ Hosts \cap {"changed", "none", "torn"} = {}

Contents == Hosts \cup {"changed"}
Files == Contents \cup {"none", "torn"}
Labels == {"idle", "list", "download", "load", "remove_loaded", "compare", "forget",
           "open", "dump", "upload", "sending", "remove_dumped"}

VARIABLES
  store,      \* the keys in a host's Consul
  backup,     \* all_default_keys.pickle on the host
  keys,       \* keys.tmp
  saved,      \* what the call has last read from keys.tmp
  pc,         \* where the call for a host is
  outcome,    \* how the last call of this process has ended
  overlapped, \* history: calls for two hosts were under way at once
  faults      \* faults still to come

vars == <<store, backup, keys, saved, pc, outcome, overlapped, faults>>

Init ==
  /\ store = [h \in Hosts |-> h]
  /\ backup = [h \in Hosts |-> "none"]
  /\ keys = "none"
  /\ saved = [h \in Hosts |-> "changed"]
  /\ pc = [h \in Hosts |-> "idle"]
  /\ outcome = [h \in Hosts |-> "none"]
  /\ overlapped = FALSE
  /\ faults = MaxFaults

Goto(h, label) == pc' = [pc EXCEPT ![h] = label] /\ UNCHANGED outcome

Return(h, how) ==
  /\ pc' = [pc EXCEPT ![h] = "idle"]
  /\ outcome' = [outcome EXCEPT ![h] = how]

Raise(h) == Return(h, "raised")

\* A step of the call for h that stands at a label.
Step(h, label) == pc[h] = label /\ UNCHANGED <<store, overlapped, faults>>

-----------------------------------------------------------------------------
(* The call.                                                               *)

\* mkdir of the directory of the backup.
Begin(h) ==
  /\ pc[h] = "idle"
  /\ pc' = [pc EXCEPT ![h] = "list"]
  /\ outcome' = [outcome EXCEPT ![h] = "none"]
  /\ overlapped' = (overlapped \/ \E g \in Hosts \ {h} : pc[g] # "idle")
  /\ UNCHANGED <<store, backup, keys, saved, faults>>

\* "No such file or directory" is no error.
List(h) ==
  /\ Step(h, "list")
  /\ Goto(h, IF backup[h] = "none" THEN "open" ELSE "download")
  /\ UNCHANGED <<backup, keys, saved>>

\* Mutant of Download: the backup is moved.
DownloadMoves(h) ==
  /\ Step(h, "download")
  /\ keys' = backup[h]
  /\ backup' = [backup EXCEPT ![h] = "none"]
  /\ Goto(h, "load")
  /\ UNCHANGED saved

Download(h) ==
  /\ Step(h, "download")
  /\ keys' = backup[h]
  /\ Goto(h, "load")
  /\ UNCHANGED <<backup, saved>>

\* Mutant of Load: a file that cannot be read is taken for no backup.
LoadSkips(h) ==
  /\ Step(h, "load")
  /\ saved' = [saved EXCEPT ![h] = IF keys \in Contents THEN keys ELSE @]
  /\ Goto(h, IF keys \in Contents THEN "remove_loaded" ELSE "open")
  /\ UNCHANGED <<backup, keys>>

\* pickle.load raises for half a file, open for none.
Load(h) ==
  /\ Step(h, "load")
  /\ IF keys \in Contents
     THEN saved' = [saved EXCEPT ![h] = keys] /\ Goto(h, "remove_loaded")
     ELSE Raise(h) /\ UNCHANGED saved
  /\ UNCHANGED <<backup, keys>>

\* os.remove raises when another call has removed the file.
Remove(h, Then) ==
  /\ keys' = "none"
  /\ IF keys = "none" THEN Raise(h) ELSE Then
  /\ UNCHANGED <<backup, saved>>

RemoveLoaded(h) == Step(h, "remove_loaded") /\ Remove(h, Goto(h, "compare"))

\* Mutant of Compare: a difference is not looked at.
CompareNothing(h) ==
  /\ Step(h, "compare")
  /\ Goto(h, "forget")
  /\ UNCHANGED <<backup, keys, saved>>

\* When the keys differ: consul.reset_state, which the plugin Consul does not have.
Compare(h) ==
  /\ Step(h, "compare")
  /\ IF store[h] = saved[h] THEN Goto(h, "forget") ELSE Raise(h)
  /\ UNCHANGED <<backup, keys, saved>>

\* rm -f of the backup.
Forget(h) ==
  /\ Step(h, "forget")
  /\ backup' = [backup EXCEPT ![h] = "none"]
  /\ Goto(h, "open")
  /\ UNCHANGED <<keys, saved>>

\* open(..., 'wb') truncates before the keys are asked for.
Open(h) ==
  /\ Step(h, "open")
  /\ keys' = "torn"
  /\ Goto(h, "dump")
  /\ UNCHANGED <<backup, saved>>

\* A file that another call has removed meanwhile is written to in vain.
Dump(h) ==
  /\ Step(h, "dump")
  /\ keys' = IF keys = "none" THEN "none" ELSE store[h]
  /\ Goto(h, "upload")
  /\ UNCHANGED <<backup, saved>>

\* The upload replaces the file on the host, first by half of it.
Upload(h) ==
  /\ Step(h, "upload")
  /\ IF keys = "none"
     THEN Raise(h) /\ UNCHANGED backup
     ELSE Goto(h, "sending") /\ backup' = [backup EXCEPT ![h] = "torn"]
  /\ UNCHANGED <<keys, saved>>

Sent(h) ==
  /\ Step(h, "sending")
  /\ backup' = [backup EXCEPT ![h] = IF keys = "none" THEN "torn" ELSE keys]
  /\ Goto(h, "remove_dumped")
  /\ UNCHANGED <<keys, saved>>

RemoveDumped(h) == Step(h, "remove_dumped") /\ Remove(h, Return(h, "ok"))

Call(h) ==
  \/ List(h) \/ Download(h) \/ Load(h) \/ RemoveLoaded(h) \/ Compare(h) \/ Forget(h)
  \/ Open(h) \/ Dump(h) \/ Upload(h) \/ Sent(h) \/ RemoveDumped(h)

-----------------------------------------------------------------------------
(* Everything else.                                                        *)

Fault == faults > 0 /\ faults' = faults - 1

\* A command on the host or a request to its Consul fails.
CommandFails(h) ==
  /\ pc[h] \in {"list", "download", "compare", "forget", "dump", "upload", "sending"}
  /\ Fault
  /\ Raise(h)
  /\ UNCHANGED <<store, backup, keys, saved, overlapped>>

\* The process dies, and the sessions after it start anew.
Crash ==
  /\ Fault
  /\ pc' = [h \in Hosts |-> "idle"]
  /\ outcome' = [h \in Hosts |-> "none"]
  /\ UNCHANGED <<store, backup, keys, saved, overlapped>>

\* The tests of a session leave keys behind, or set them back to the defaults.
Test(h) ==
  /\ pc[h] = "idle" /\ outcome[h] = "ok"
  /\ \E c \in {h, "changed"} : store' = [store EXCEPT ![h] = c]
  /\ UNCHANGED <<backup, keys, saved, pc, outcome, overlapped, faults>>

Next ==
  \/ \E h \in Hosts : Begin(h) \/ Call(h) \/ CommandFails(h) \/ Test(h)
  \/ Crash

Spec == Init /\ [][Next]_vars

-----------------------------------------------------------------------------
(* Properties.                                                             *)

\* Every variable has the type its declaration says.
TypeOK ==
  /\ store \in [Hosts -> Contents]
  /\ backup \in [Hosts -> Files]
  /\ keys \in Files
  /\ saved \in [Hosts -> Contents]
  /\ pc \in [Hosts -> Labels]
  /\ outcome \in [Hosts -> {"none", "ok", "raised"}]
  /\ overlapped \in BOOLEAN
  /\ faults \in 0..MaxFaults

\* The default keys of a host are never lost, whatever command fails and wherever
\* the process dies: they are in the store or, whole, in the backup.  Calls that
\* overlap may lose them, as they write each other's keys.tmp.
DefaultsKept ==
  ~overlapped => \A h \in Hosts : store[h] = h \/ backup[h] = h

\* A call that is about to return normally has found the default keys in the
\* store and has left them in the backup, so a session starts on them only.
OkMeansDefaults ==
  ~overlapped => \A h \in Hosts :
    pc[h] = "remove_dumped" => store[h] = h /\ backup[h] = h

\* A session has ended and its successor cannot read the backup or finds other
\* keys than in it.
Blocked(h) ==
  /\ pc[h] = "idle" /\ outcome[h] # "ok" /\ ~overlapped
  /\ \/ backup[h] = "torn"
     \/ backup[h] = h /\ store[h] # h

\* From then on no call returns normally: an interrupted upload, or one test that
\* leaves keys behind, stops all sessions until somebody repairs the host by hand.
BlockedForever ==
  \A h \in Hosts : [](Blocked(h) => [](overlapped \/ outcome[h] # "ok"))

\* "restore keys from backup file" (utils/consul.py): a call that has compared the
\* keys of a host with its backup goes on with the keys of the backup.
RestoresBackup ==
  [][\A h \in Hosts :
       pc[h] = "compare" /\ pc'[h] # "compare" /\ faults' = faults =>
         store'[h] = saved[h]]_vars
=============================================================================
