------------------------- MODULE ConsulBackupProofs -------------------------
(***************************************************************************)
(* Proofs about ConsulBackup, for any hosts and any number of faults.      *)
(***************************************************************************)
EXTENDS ConsulBackup, TLAPS

\* As long as no calls have overlapped, at most one is under way.
OneAtATime ==
  ~overlapped => \A h, g \in Hosts : h = g \/ pc[h] = "idle" \/ pc[g] = "idle"

\* A whole backup is one of the default keys.
BackupIsDefault == ~overlapped => \A h \in Hosts : backup[h] \in {"none", "torn", h}

\* A session that has started has its backup.
BackedUp == ~overlapped => \A h \in Hosts : outcome[h] = "ok" => backup[h] = h

\* What a call knows at each of its steps.
Progress(h) ==
  /\ pc[h] # "idle" => outcome[h] = "none"
  /\ pc[h] = "load" => keys = backup[h]
  /\ pc[h] \in {"remove_loaded", "compare"} => saved[h] = h /\ backup[h] = h
  /\ pc[h] \in {"forget", "open", "dump", "upload", "sending", "remove_dumped"} => store[h] = h
  /\ pc[h] = "dump" => keys # "none"
  /\ pc[h] \in {"upload", "sending"} => keys = h
  /\ pc[h] = "remove_dumped" => backup[h] = h

CallsKnow == ~overlapped => \A h \in Hosts : Progress(h)

SafetyInv ==
  /\ OneAtATime
  /\ BackupIsDefault
  /\ BackedUp
  /\ CallsKnow
  /\ DefaultsKept

Inv == TypeOK /\ SafetyInv

-----------------------------------------------------------------------------
(* Types.                                                                  *)

LEMMA TypeInit == Init => TypeOK
<1> SUFFICES ASSUME Init PROVE TypeOK
  OBVIOUS
<1>1. MaxFaults \in 0..MaxFaults
  BY BackupAssumption
<1>2. /\ store \in [Hosts -> Contents]
      /\ saved \in [Hosts -> Contents]
  BY DEF Init, Contents
<1>3. /\ backup \in [Hosts -> Files]
      /\ keys \in Files
  BY DEF Init, Files
<1> QED
  BY <1>1, <1>2, <1>3 DEF Init, TypeOK, Labels

LEMMA CallTypes ==
  ASSUME TypeOK, NEW h \in Hosts, Call(h)
  PROVE  TypeOK'
<1> USE DEF Step, Goto, Raise, Return
<1>1. CASE List(h)
  BY <1>1 DEF List, TypeOK, Labels
<1>2. CASE Download(h)
  BY <1>2 DEF Download, TypeOK, Labels
<1>3. CASE Load(h)
  BY <1>3 DEF Load, TypeOK, Labels
<1>4. CASE RemoveLoaded(h)
  BY <1>4 DEF RemoveLoaded, Remove, TypeOK, Labels, Files
<1>5. CASE Compare(h)
  BY <1>5 DEF Compare, TypeOK, Labels
<1>6. CASE Forget(h)
  BY <1>6 DEF Forget, TypeOK, Labels, Files
<1>7. CASE Open(h)
  BY <1>7 DEF Open, TypeOK, Labels, Files
<1>8. CASE Dump(h)
  BY <1>8 DEF Dump, TypeOK, Labels, Files
<1>9. CASE Upload(h)
  BY <1>9 DEF Upload, TypeOK, Labels, Files
<1>10. CASE Sent(h)
  BY <1>10 DEF Sent, TypeOK, Labels, Files
<1>11. CASE RemoveDumped(h)
  BY <1>11 DEF RemoveDumped, Remove, TypeOK, Labels, Files
<1> QED
  BY <1>1, <1>2, <1>3, <1>4, <1>5, <1>6, <1>7, <1>8, <1>9, <1>10, <1>11 DEF Call

LEMMA TypeStep == TypeOK /\ [Next]_vars => TypeOK'
<1> SUFFICES ASSUME TypeOK, [Next]_vars PROVE TypeOK'
  OBVIOUS
<1>1. CASE UNCHANGED vars
  BY <1>1 DEF vars, TypeOK
<1>2. ASSUME NEW h \in Hosts, Begin(h) PROVE TypeOK'
  BY <1>2 DEF Begin, TypeOK, Labels
<1>3. ASSUME NEW h \in Hosts, Call(h) PROVE TypeOK'
  BY <1>3, CallTypes
<1>4. ASSUME NEW h \in Hosts, CommandFails(h) PROVE TypeOK'
  BY <1>4, BackupAssumption DEF CommandFails, Fault, Raise, Return, TypeOK, Labels
<1>5. ASSUME NEW h \in Hosts, Test(h) PROVE TypeOK'
  BY <1>5 DEF Test, TypeOK, Contents
<1>6. CASE Crash
  BY <1>6, BackupAssumption DEF Crash, Fault, TypeOK, Labels
<1> QED
  BY <1>1, <1>2, <1>3, <1>4, <1>5, <1>6 DEF Next

\* Every variable keeps its type, whether calls overlap or not.
THEOREM TypeCorrect == Spec => []TypeOK
BY TypeInit, TypeStep, PTL DEF Spec

-----------------------------------------------------------------------------
(* The default keys.                                                       *)

LEMMA SafetyInit == Init => SafetyInv
BY DEF Init, SafetyInv, OneAtATime, BackupIsDefault, BackedUp, CallsKnow, Progress, DefaultsKept

LEMMA CallSafety ==
  ASSUME Inv, NEW h \in Hosts, Call(h)
  PROVE  SafetyInv'
<1> USE DEF Step, Goto, Raise, Return, Inv, TypeOK, SafetyInv, OneAtATime, BackupIsDefault,
           BackedUp, CallsKnow, Progress, DefaultsKept
<1>a. h \notin {"changed", "none", "torn"}
  BY BackupAssumption
<1>1. CASE List(h)
  BY <1>1, <1>a DEF List
<1>2. CASE Download(h)
  BY <1>2, <1>a DEF Download
<1>3. CASE Load(h)
  BY <1>3, <1>a, BackupAssumption DEF Load, Contents
<1>4. CASE RemoveLoaded(h)
  BY <1>4, <1>a DEF RemoveLoaded, Remove
<1>5. CASE Compare(h)
  BY <1>5, <1>a DEF Compare
<1>6. CASE Forget(h)
  BY <1>6, <1>a DEF Forget
<1>7. CASE Open(h)
  BY <1>7, <1>a DEF Open
<1>8. CASE Dump(h)
  BY <1>8, <1>a DEF Dump
<1>9. CASE Upload(h)
  BY <1>9, <1>a DEF Upload
<1>10. CASE Sent(h)
  BY <1>10, <1>a DEF Sent
<1>11. CASE RemoveDumped(h)
  BY <1>11, <1>a DEF RemoveDumped, Remove
<1> QED
  BY <1>1, <1>2, <1>3, <1>4, <1>5, <1>6, <1>7, <1>8, <1>9, <1>10, <1>11 DEF Call

LEMMA SafetyStep == Inv /\ [Next]_vars => SafetyInv'
<1> SUFFICES ASSUME Inv, [Next]_vars PROVE SafetyInv'
  OBVIOUS
<1> USE DEF Inv, TypeOK, SafetyInv, OneAtATime, BackupIsDefault, BackedUp, CallsKnow,
           Progress, DefaultsKept
<1>1. CASE UNCHANGED vars
  BY <1>1 DEF vars
<1>2. ASSUME NEW h \in Hosts, Begin(h) PROVE SafetyInv'
  <2> USE <1>2 DEF Begin
  <2>1. BackupIsDefault' /\ BackedUp' /\ DefaultsKept'
    OBVIOUS
  <2>2. OneAtATime'
    OBVIOUS
  <2>3. ASSUME ~overlapped', NEW g \in Hosts PROVE Progress(g)'
    <3>1. CASE g = h
      BY <2>3, <3>1
    <3>2. CASE g # h
      BY <2>3, <3>2
    <3> QED BY <3>1, <3>2
  <2> QED BY <2>1, <2>2, <2>3
<1>3. ASSUME NEW h \in Hosts, Call(h) PROVE SafetyInv'
  BY <1>3, CallSafety
<1>4. ASSUME NEW h \in Hosts, CommandFails(h) PROVE SafetyInv'
  BY <1>4 DEF CommandFails, Raise, Return
<1>5. ASSUME NEW h \in Hosts, Test(h) PROVE SafetyInv'
  BY <1>5 DEF Test
<1>6. CASE Crash
  BY <1>6 DEF Crash
<1> QED
  BY <1>1, <1>2, <1>3, <1>4, <1>5, <1>6 DEF Next

LEMMA InvAlways == Spec => []Inv
<1>1. Init => Inv
  BY TypeInit, SafetyInit DEF Inv
<1>2. Inv /\ [Next]_vars => Inv'
  BY TypeStep, SafetyStep DEF Inv
<1> QED BY <1>1, <1>2, PTL DEF Spec

\* Wherever a command fails or the process dies, the default keys are in the
\* store or in a whole backup, unless calls overlap.
THEOREM DefaultsAreNeverLost == Spec => []DefaultsKept
BY InvAlways, PTL DEF Inv, SafetyInv

\* A call returns normally only with the default keys in store and backup.
THEOREM SessionsStartOnDefaults == Spec => []OkMeansDefaults
<1>1. Inv => OkMeansDefaults
  BY DEF Inv, SafetyInv, CallsKnow, Progress, OkMeansDefaults
<1> QED BY <1>1, InvAlways, PTL
-----------------------------------------------------------------------------
(* A host whose sessions are stopped.                                      *)

\* No call for the host gets past the backup it cannot read, or past the comparison of
\* its keys with a backup they differ from.
Stopped(h) ==
  \/ backup[h] = "torn" /\ pc[h] \in {"idle", "list", "download", "load"}
  \/ /\ backup[h] = h /\ store[h] # h
     /\ pc[h] \in {"idle", "list", "download", "load", "remove_loaded", "compare"}

Stuck(h) == overlapped \/ (outcome[h] # "ok" /\ Stopped(h))

\* The call for the host itself ends in an exception, and leaves the backup as it was.
LEMMA StoppedCall ==
  ASSUME Inv, NEW h \in Hosts, ~overlapped, outcome[h] # "ok", Stopped(h), Call(h)
  PROVE  outcome'[h] # "ok" /\ Stopped(h)'
<1> USE DEF Step, Goto, Raise, Return, Inv, TypeOK, SafetyInv, CallsKnow, Progress, Stopped
<1>a. h \notin {"none", "torn"} /\ "torn" \notin Contents
  BY BackupAssumption DEF Contents
<1>1. CASE List(h)
  BY <1>1, <1>a DEF List
<1>2. CASE Download(h)
  BY <1>2, <1>a DEF Download
<1>3. CASE Load(h)
  BY <1>3, <1>a DEF Load
<1>4. CASE RemoveLoaded(h)
  BY <1>4, <1>a DEF RemoveLoaded, Remove
<1>5. CASE Compare(h)
  BY <1>5, <1>a DEF Compare
<1>6. ~(Forget(h) \/ Open(h) \/ Dump(h) \/ Upload(h) \/ Sent(h) \/ RemoveDumped(h))
  BY DEF Forget, Open, Dump, Upload, Sent, RemoveDumped
<1> QED
  BY <1>1, <1>2, <1>3, <1>4, <1>5, <1>6 DEF Call

\* Calls for other hosts do not touch its store or its backup.
LEMMA OthersKeepStopped ==
  ASSUME TypeOK, NEW h \in Hosts, NEW g \in Hosts, g # h, Call(g)
  PROVE  /\ backup'[h] = backup[h] /\ store'[h] = store[h]
         /\ pc'[h] = pc[h] /\ outcome'[h] = outcome[h]
<1> USE DEF Step, Goto, Raise, Return, TypeOK
<1>1. CASE List(g) \/ Download(g) \/ Load(g) \/ RemoveLoaded(g) \/ Compare(g)
  BY <1>1 DEF List, Download, Load, RemoveLoaded, Remove, Compare
<1>2. CASE Forget(g) \/ Open(g) \/ Dump(g) \/ Upload(g) \/ Sent(g) \/ RemoveDumped(g)
  BY <1>2 DEF Forget, Open, Dump, Upload, Sent, RemoveDumped, Remove
<1> QED
  BY <1>1, <1>2 DEF Call

LEMMA StuckStep ==
  ASSUME Inv, NEW h \in Hosts, Stuck(h), [Next]_vars
  PROVE  Stuck(h)'
<1> USE DEF Inv, TypeOK
<1>1. CASE UNCHANGED vars
  BY <1>1 DEF vars, Stuck, Stopped
<1>2. CASE overlapped
  <2>1. overlapped'
    BY <1>2, <1>1 DEF Next, Begin, Call, Step, List, Download, Load, RemoveLoaded, Compare, Forget,
       Open, Dump, Upload, Sent, RemoveDumped, CommandFails, Test, Crash, vars
  <2> QED BY <2>1 DEF Stuck
<1>3. CASE ~overlapped /\ ~UNCHANGED vars
  <2>1. outcome[h] # "ok" /\ Stopped(h)
    BY <1>3 DEF Stuck
  <2>2. ASSUME NEW g \in Hosts, Begin(g) PROVE Stuck(h)'
    BY <2>1, <2>2 DEF Begin, Stuck, Stopped
  <2>3. ASSUME NEW g \in Hosts, Call(g) PROVE Stuck(h)'
    <3>1. CASE g = h
      BY <1>3, <2>1, <2>3, <3>1, StoppedCall DEF Stuck
    <3>2. CASE g # h
      <4> HIDE DEF Inv, TypeOK
      <4>1. TypeOK
        BY DEF Inv
      <4> QED BY <2>1, <2>3, <3>2, <4>1, OthersKeepStopped DEF Stuck, Stopped
    <3> QED BY <3>1, <3>2
  <2>4. ASSUME NEW g \in Hosts, CommandFails(g) PROVE Stuck(h)'
    BY <2>1, <2>4 DEF CommandFails, Raise, Return, Stuck, Stopped
  <2>5. ASSUME NEW g \in Hosts, Test(g) PROVE Stuck(h)'
    BY <2>1, <2>5 DEF Test, Stuck, Stopped
  <2>6. CASE Crash
    BY <2>1, <2>6 DEF Crash, Stuck, Stopped
  <2> QED BY <1>3, <2>2, <2>3, <2>4, <2>5, <2>6 DEF Next
<1> QED
  BY <1>1, <1>2, <1>3

\* Once a session has left a backup that is torn, or other keys than those of the backup,
\* no call for that host ever returns normally, as long as no calls overlap.
THEOREM StoppedHostsStayStopped == Spec => BlockedForever
<1>1. ASSUME NEW h \in Hosts
      PROVE  Spec => [](Blocked(h) => [](overlapped \/ outcome[h] # "ok"))
  <2>1. Blocked(h) => Stuck(h)
    BY DEF Blocked, Stuck, Stopped
  <2>2. Stuck(h) => overlapped \/ outcome[h] # "ok"
    BY DEF Stuck
  <2>3. Inv /\ Stuck(h) /\ [Next]_vars => Stuck(h)'
    BY StuckStep
  <2> QED BY <2>1, <2>2, <2>3, InvAlways, PTL DEF Spec
<1> QED
  BY <1>1 DEF BlockedForever
=============================================================================
