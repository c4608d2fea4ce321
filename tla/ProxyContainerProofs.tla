------------------------ MODULE ProxyContainerProofs ------------------------
(***************************************************************************)
(* Proofs about ProxyContainer, for any number of faults.                  *)
(***************************************************************************)
EXTENDS ProxyContainer, TLAPS

\* The labels run() reaches once kill() has returned and before a container is
\* started.
AfterKill == {"legacy", "login", "docker_run", "disconnect", "rerun"}

\* The name is free from the return of kill() on, not only when docker run needs
\* it: nobody else starts a container, and an absent one cannot crash.
NameStaysFree == pc \in AfterKill => ~running

\* What run() knows about the container while it waits for it.
WaitsForItsOwn == pc = "wait_up" => fresh /\ (container = "running" \/ crashed)

\* Calls have an outcome only when they are over.
OutcomeIsLast == outcome # "none" => pc = "idle"

Inv ==
  /\ TypeOK
  /\ NameStaysFree
  /\ WaitsForItsOwn
  /\ OutcomeIsLast
  /\ OutcomeTellsState

\* A fault leaves the budget a budget.
LEMMA FaultBudget ==
  ASSUME TypeOK, Fault
  PROVE  faults' \in 0..MaxFaults
  BY FaultsAssumption DEF TypeOK, Fault

LEMMA InvInit == Init => Inv
<1> SUFFICES ASSUME Init PROVE Inv
  OBVIOUS
<1>1. faults \in 0..MaxFaults
  BY FaultsAssumption DEF Init
<1>2. TypeOK
  BY <1>1 DEF Init, TypeOK, Labels
<1> QED
  BY <1>2
     DEF Init, Inv, NameStaysFree, AfterKill, WaitsForItsOwn, OutcomeIsLast,
        OutcomeTellsState

LEMMA InvStep == Inv /\ [Next]_vars => Inv'
<1> SUFFICES ASSUME Inv, [Next]_vars PROVE Inv'
  OBVIOUS
<1>1. CASE UNCHANGED vars
  BY <1>1
     DEF vars, Inv, TypeOK, NameStaysFree, WaitsForItsOwn, OutcomeIsLast,
        OutcomeTellsState, running
<1>2. ASSUME NEW method \in {"run", "kill"}, Call(method) PROVE Inv'
  <2>1. TypeOK'
    BY <1>2 DEF Inv, Call, daemonVars, TypeOK, Labels
  <2>2. NameStaysFree'
    BY <1>2 DEF Call, NameStaysFree, AfterKill
  <2>3. WaitsForItsOwn'
    BY <1>2 DEF Call, WaitsForItsOwn
  <2>4. OutcomeIsLast'
    BY <1>2 DEF Call, OutcomeIsLast
  <2>5. OutcomeTellsState'
    BY <1>2 DEF Call, OutcomeTellsState
  <2> QED BY <2>1, <2>2, <2>3, <2>4, <2>5 DEF Inv
<1>3. CASE Look
  <2>1. TypeOK'
    BY <1>3 DEF Inv, Look, KillReturns, Finish, daemonVars, TypeOK, Labels
  <2>2. NameStaysFree'
    BY <1>3 DEF Look, daemonVars, NameStaysFree, AfterKill, running
  <2>3. WaitsForItsOwn'
    BY <1>3 DEF Look, KillReturns, Finish, WaitsForItsOwn
  <2>4. OutcomeIsLast'
    BY <1>3 DEF Inv, Look, KillReturns, Finish, OutcomeIsLast
  <2>5. OutcomeTellsState'
    BY <1>3
       DEF Inv, Look, KillReturns, Finish, daemonVars, OutcomeTellsState,
          running
  <2> QED BY <2>1, <2>2, <2>3, <2>4, <2>5 DEF Inv
<1>4. CASE Kill
  <2>1. TypeOK'
    BY <1>4 DEF Inv, Kill, Finish, TypeOK, Labels
  <2>2. NameStaysFree'
    BY <1>4 DEF Kill, Finish, NameStaysFree, AfterKill
  <2>3. WaitsForItsOwn'
    BY <1>4 DEF Kill, Finish, WaitsForItsOwn
  <2>4. OutcomeIsLast'
    BY <1>4 DEF Inv, Kill, Finish, OutcomeIsLast
  <2>5. OutcomeTellsState'
    BY <1>4 DEF Inv, Kill, Finish, OutcomeTellsState, OutcomeIsLast
  <2> QED BY <2>1, <2>2, <2>3, <2>4, <2>5 DEF Inv
<1>5. CASE KillLost
  <2>1. TypeOK'
    BY <1>5, FaultBudget DEF Inv, KillLost, Finish, TypeOK, Labels
  <2>2. NameStaysFree'
    BY <1>5 DEF KillLost, Finish, NameStaysFree, AfterKill
  <2>3. WaitsForItsOwn'
    BY <1>5 DEF KillLost, Finish, WaitsForItsOwn
  <2>4. OutcomeIsLast'
    BY <1>5 DEF KillLost, Finish, OutcomeIsLast
  <2>5. OutcomeTellsState'
    BY <1>5 DEF KillLost, Finish, OutcomeTellsState
  <2> QED BY <2>1, <2>2, <2>3, <2>4, <2>5 DEF Inv
<1>6. CASE WaitGone
  <2>1. TypeOK'
    BY <1>6 DEF Inv, WaitGone, KillReturns, Finish, daemonVars, TypeOK, Labels
  <2>2. NameStaysFree'
    BY <1>6 DEF WaitGone, daemonVars, NameStaysFree, running
  <2>3. WaitsForItsOwn'
    BY <1>6 DEF WaitGone, KillReturns, Finish, WaitsForItsOwn
  <2>4. OutcomeIsLast'
    BY <1>6 DEF Inv, WaitGone, KillReturns, Finish, OutcomeIsLast
  <2>5. OutcomeTellsState'
    BY <1>6
       DEF Inv, WaitGone, KillReturns, Finish, daemonVars, OutcomeTellsState,
          running
  <2> QED BY <2>1, <2>2, <2>3, <2>4, <2>5 DEF Inv
<1>7. CASE WaitGoneTimeout
  <2>1. TypeOK'
    BY <1>7, FaultBudget
       DEF Inv, WaitGoneTimeout, Finish, daemonVars, TypeOK, Labels
  <2>2. NameStaysFree'
    BY <1>7 DEF WaitGoneTimeout, Finish, NameStaysFree, AfterKill
  <2>3. WaitsForItsOwn'
    BY <1>7 DEF WaitGoneTimeout, Finish, WaitsForItsOwn
  <2>4. OutcomeIsLast'
    BY <1>7 DEF WaitGoneTimeout, Finish, OutcomeIsLast
  <2>5. OutcomeTellsState'
    BY <1>7 DEF WaitGoneTimeout, Finish, OutcomeTellsState
  <2> QED BY <2>1, <2>2, <2>3, <2>4, <2>5 DEF Inv
<1>8. CASE CheckForLegacyContainers
  <2>1. TypeOK'
    BY <1>8, FaultBudget
       DEF Inv, CheckForLegacyContainers, Finish, daemonVars, TypeOK, Labels
  <2>2. NameStaysFree'
    BY <1>8
       DEF Inv, CheckForLegacyContainers, daemonVars, NameStaysFree, AfterKill,
          running
  <2>3. WaitsForItsOwn'
    BY <1>8 DEF CheckForLegacyContainers, Finish, WaitsForItsOwn
  <2>4. OutcomeIsLast'
    BY <1>8 DEF Inv, CheckForLegacyContainers, Finish, OutcomeIsLast
  <2>5. OutcomeTellsState'
    BY <1>8
       DEF Inv, CheckForLegacyContainers, Finish, OutcomeTellsState,
          OutcomeIsLast
  <2> QED BY <2>1, <2>2, <2>3, <2>4, <2>5 DEF Inv
<1>9. CASE Login
  <2>1. TypeOK'
    BY <1>9, FaultBudget DEF Inv, Login, Finish, daemonVars, TypeOK, Labels
  <2>2. NameStaysFree'
    BY <1>9 DEF Inv, Login, daemonVars, NameStaysFree, AfterKill, running
  <2>3. WaitsForItsOwn'
    BY <1>9 DEF Login, Finish, WaitsForItsOwn
  <2>4. OutcomeIsLast'
    BY <1>9 DEF Inv, Login, Finish, OutcomeIsLast
  <2>5. OutcomeTellsState'
    BY <1>9 DEF Inv, Login, Finish, OutcomeTellsState, OutcomeIsLast
  <2> QED BY <2>1, <2>2, <2>3, <2>4, <2>5 DEF Inv
<1>10. CASE DockerRun
  <2>1. TypeOK'
    BY <1>10 DEF Inv, DockerRun, Started, NotStarted, Finish, TypeOK, Labels
  <2>2. NameStaysFree'
    BY <1>10
       DEF DockerRun, NotStarted, Finish, NameStaysFree, AfterKill, running
  <2>3. WaitsForItsOwn'
    BY <1>10 DEF DockerRun, Started, Finish, WaitsForItsOwn
  <2>4. OutcomeIsLast'
    BY <1>10 DEF Inv, DockerRun, Finish, OutcomeIsLast
  <2>5. OutcomeTellsState'
    BY <1>10 DEF Inv, DockerRun, Finish, OutcomeTellsState, OutcomeIsLast
  <2> QED BY <2>1, <2>2, <2>3, <2>4, <2>5 DEF Inv
<1>11. CASE DockerRunFails
  <2>1. TypeOK'
    BY <1>11, FaultBudget
       DEF Inv, DockerRunFails, Started, NotStarted, Finish, TypeOK, Labels
  <2>2. NameStaysFree'
    BY <1>11 DEF DockerRunFails, Finish, NameStaysFree, AfterKill
  <2>3. WaitsForItsOwn'
    BY <1>11 DEF DockerRunFails, Finish, WaitsForItsOwn
  <2>4. OutcomeIsLast'
    BY <1>11 DEF DockerRunFails, Finish, OutcomeIsLast
  <2>5. OutcomeTellsState'
    BY <1>11 DEF DockerRunFails, Finish, OutcomeTellsState
  <2> QED BY <2>1, <2>2, <2>3, <2>4, <2>5 DEF Inv
<1>12. CASE WaitUp
  <2>1. TypeOK'
    BY <1>12 DEF Inv, WaitUp, Finish, daemonVars, TypeOK, Labels
  <2>2. NameStaysFree'
    BY <1>12 DEF WaitUp, Finish, NameStaysFree, AfterKill
  <2>3. WaitsForItsOwn'
    BY <1>12 DEF WaitUp, Finish, WaitsForItsOwn
  <2>4. OutcomeIsLast'
    BY <1>12 DEF WaitUp, Finish, OutcomeIsLast
  <2>5. OutcomeTellsState'
    BY <1>12
       DEF Inv, WaitUp, Finish, daemonVars, OutcomeTellsState, WaitsForItsOwn
  <2> QED BY <2>1, <2>2, <2>3, <2>4, <2>5 DEF Inv
<1>13. CASE NetworkDisconnect
  <2>1. TypeOK'
    BY <1>13, FaultBudget DEF Inv, NetworkDisconnect, Finish, TypeOK, Labels
  <2>2. NameStaysFree'
    BY <1>13 DEF Inv, NetworkDisconnect, NameStaysFree, AfterKill, running
  <2>3. WaitsForItsOwn'
    BY <1>13 DEF NetworkDisconnect, Finish, WaitsForItsOwn
  <2>4. OutcomeIsLast'
    BY <1>13 DEF Inv, NetworkDisconnect, Finish, OutcomeIsLast
  <2>5. OutcomeTellsState'
    BY <1>13 DEF Inv, NetworkDisconnect, Finish, OutcomeTellsState, running
  <2> QED BY <2>1, <2>2, <2>3, <2>4, <2>5 DEF Inv
<1>14. CASE Rerun
  <2>1. TypeOK'
    BY <1>14, FaultBudget
       DEF Inv, Rerun, Started, NotStarted, Finish, TypeOK, Labels
  <2>2. NameStaysFree'
    BY <1>14 DEF Rerun, Finish, NameStaysFree, AfterKill
  <2>3. WaitsForItsOwn'
    BY <1>14 DEF Rerun, Finish, WaitsForItsOwn
  <2>4. OutcomeIsLast'
    BY <1>14 DEF Rerun, Finish, OutcomeIsLast
  <2>5. OutcomeTellsState'
    BY <1>14 DEF Rerun, Finish, OutcomeTellsState
  <2> QED BY <2>1, <2>2, <2>3, <2>4, <2>5 DEF Inv
<1>15. CASE AutoRemove
  <2>1. TypeOK'
    BY <1>15 DEF Inv, AutoRemove, TypeOK
  <2>2. NameStaysFree'
    BY <1>15 DEF AutoRemove, NameStaysFree, running
  <2>3. WaitsForItsOwn'
    BY <1>15 DEF Inv, AutoRemove, WaitsForItsOwn
  <2>4. OutcomeIsLast'
    BY <1>15 DEF Inv, AutoRemove, OutcomeIsLast
  <2>5. OutcomeTellsState'
    BY <1>15 DEF Inv, AutoRemove, OutcomeTellsState, running
  <2> QED BY <2>1, <2>2, <2>3, <2>4, <2>5 DEF Inv
<1>16. CASE Crash
  <2>1. TypeOK'
    BY <1>16, FaultBudget DEF Inv, TypeOK, Crash, Finish, daemonVars, TypeOK
  <2>2. NameStaysFree'
    BY <1>16 DEF Inv, Crash, NameStaysFree, running
  <2>3. WaitsForItsOwn'
    BY <1>16 DEF Inv, Crash, WaitsForItsOwn
  <2>4. OutcomeIsLast'
    BY <1>16 DEF Inv, Crash, OutcomeIsLast
  <2>5. OutcomeTellsState'
    BY <1>16 DEF Inv, Crash, OutcomeTellsState, running
  <2> QED BY <2>1, <2>2, <2>3, <2>4, <2>5 DEF Inv
<1> QED
  BY <1>1, <1>2, <1>3, <1>4, <1>5, <1>6, <1>7, <1>8, <1>9, <1>10, <1>11, <1>12,
     <1>13, <1>14, <1>15, <1>16 DEF Next, Client

LEMMA InvAlways == Spec => []Inv
  BY InvInit, InvStep, PTL DEF Spec

\* Every variable keeps its type.
THEOREM TypeCorrect == Spec => []TypeOK
  BY InvAlways, PTL DEF Inv

\* No docker run of run() meets its own old container, however long the daemon
\* takes to remove it and whichever commands are lost.
THEOREM NameIsAlwaysFree == Spec => []NameIsFree
<1>1. Inv => NameIsFree
  BY DEF Inv, NameStaysFree, AfterKill, NameIsFree
<1> QED BY <1>1, InvAlways, PTL

\* A run() that returns has started the proxy that is there, a kill() that
\* returns has removed it.
THEOREM OutcomesAreRight == Spec => []OutcomeTellsState
  BY InvAlways, PTL DEF Inv
-----------------------------------------------------------------------------
(* ProxyContainer implements ProxyService.                                 *)

BeforeStart == AfterKill \cup {"look", "kill", "wait_gone"}

\* What a call knows of itself at each of its labels.
CallKnows ==
  /\ pc = "idle" <=> call = "none"
  /\ pc \in AfterKill \cup {"wait_up"} => call = "run"
  /\ pc \in BeforeStart => ~fresh

LEMMA CallKnowsStep == TypeOK /\ CallKnows /\ [Next]_vars => CallKnows'
<1> SUFFICES ASSUME TypeOK, CallKnows, [Next]_vars PROVE CallKnows'
  OBVIOUS
<1> USE DEF TypeOK, CallKnows, BeforeStart, AfterKill
<1>1. CASE UNCHANGED vars
  BY <1>1 DEF vars
<1>2. ASSUME NEW method \in {"run", "kill"}, Call(method) PROVE CallKnows'
  BY <1>2 DEF Call
<1>3. CASE Look \/ Kill \/ KillLost
  BY <1>3 DEF Look, Kill, KillLost, KillReturns, Finish
<1>4. CASE WaitGone \/ WaitGoneTimeout
  BY <1>4 DEF WaitGone, WaitGoneTimeout, KillReturns, Finish
<1>5. CASE CheckForLegacyContainers \/ Login
  BY <1>5 DEF CheckForLegacyContainers, Login, Finish
<1>6. CASE DockerRun \/ DockerRunFails
  BY <1>6 DEF DockerRun, DockerRunFails, Started, NotStarted, Finish
<1>7. CASE WaitUp \/ NetworkDisconnect \/ Rerun
  BY <1>7 DEF WaitUp, NetworkDisconnect, Rerun, Finish
<1>8. CASE AutoRemove
  BY <1>8 DEF AutoRemove
<1>9. CASE Crash
  BY <1>9 DEF Crash
<1> QED
  BY <1>1, <1>2, <1>3, <1>4, <1>5, <1>6, <1>7, <1>8, <1>9 DEF Next, Client

LEMMA CallKnowsAlways == Spec => []CallKnows
<1>1. Init => CallKnows
  BY DEF Init, CallKnows, BeforeStart, AfterKill
<1> QED BY <1>1, CallKnowsStep, TypeCorrect, PTL DEF Spec

LEMMA ServiceStep == Inv /\ CallKnows /\ [Next]_vars => [Service!Next]_(Service!vars)
<1> SUFFICES ASSUME Inv, CallKnows, [Next]_vars, ~UNCHANGED Service!vars
             PROVE  Service!Next
  OBVIOUS
<1> USE DEF Service!vars, CallKnows, BeforeStart, AfterKill
<1>a. pc \in Labels /\ call \in {"none", "run", "kill"} /\ container \in {"none", "running", "exited"}
      /\ fresh \in BOOLEAN
  BY DEF Inv, TypeOK
<1>1. CASE UNCHANGED vars
  BY <1>1 DEF vars
<1>2. ASSUME NEW method \in {"run", "kill"}, Call(method) PROVE Service!Next
  <2>1. Service!Begin(method)
    BY <1>2, <1>a DEF Call, daemonVars, Service!Begin
  <2> QED BY <2>1 DEF Service!Next
<1>3. CASE Client
  <2> SUFFICES Service!Work
    BY DEF Service!Next
  <2> USE <1>a DEF Service!Work, Service!TakeAway, Service!StartOwn, Service!Truthful
  <2>1. CASE Look
    BY <2>1 DEF Look, KillReturns, Finish, daemonVars, running
  <2>2. CASE Kill
    BY <2>2 DEF Kill, KillReturns, Finish
  <2>3. CASE KillLost
    BY <2>3 DEF KillLost, Finish
  <2>4. CASE WaitGone \/ WaitGoneTimeout
    BY <2>4 DEF WaitGone, WaitGoneTimeout, KillReturns, Finish, daemonVars, running
  <2>5. CASE CheckForLegacyContainers \/ Login
    BY <2>5 DEF CheckForLegacyContainers, Login, Finish, daemonVars
  <2>6. CASE DockerRun
    BY <2>6 DEF DockerRun, CanStart, Started, NotStarted, Finish, running
  <2>7. CASE DockerRunFails
    BY <2>7 DEF DockerRunFails, CanStart, Started, NotStarted, Finish, running
  <2>8. CASE WaitUp
    BY <2>8 DEF WaitUp, Finish, daemonVars, running, Inv, WaitsForItsOwn
  <2>9. CASE NetworkDisconnect
    BY <2>9 DEF NetworkDisconnect, Finish
  <2>10. CASE Rerun
    BY <2>10 DEF Rerun, CanStart, Started, NotStarted, Finish, running
  <2> QED
    BY <1>3, <2>1, <2>2, <2>3, <2>4, <2>5, <2>6, <2>7, <2>8, <2>9, <2>10 DEF Client
<1>4. CASE AutoRemove \/ Crash
  BY <1>4 DEF AutoRemove, Crash, Service!Next, Service!Decay
<1> QED BY <1>1, <1>2, <1>3, <1>4 DEF Next

\* Whatever the daemon does and however many commands are lost, run() and kill()
\* are calls of ProxyService: the plugin implements what its callers rely on.
THEOREM Implements == Spec => ImplementsProxyService
<1>1. Init => Service!Init
  BY DEF Init, Service!Init
<1> QED
  BY <1>1, ServiceStep, InvAlways, CallKnowsAlways, PTL
     DEF Spec, ImplementsProxyService, Service!Spec
=============================================================================
