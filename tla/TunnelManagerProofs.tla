------------------------- MODULE TunnelManagerProofs -------------------------
(***************************************************************************)
(* Proofs about TunnelManager for any threads, services and tunnels.       *)
(***************************************************************************)
EXTENDS TunnelManager, FiniteSetTheorems, TLAPS

\* A tunnel is unborn exactly when no thread has opened it.
Births == \A k \in Tunnels : opener[k] = None <=> tunnelState[k] = "unborn"

\* A cached tunnel was opened by a thread that uses the service, and is cached
\* under that service alone.
CachedApart ==
  \A s \in Keys :
    /\ opener[tunnels[s]] \in Threads
    /\ s \in Uses[opener[tunnels[s]]]
    /\ \A r \in Keys : tunnels[r] = tunnels[s] => r = s

\* A tunnel that is started and not yet stored is open and known to its thread
\* alone.
OpenedApart ==
  \A t \in Threads : opened[t] # None =>
    /\ pc[t] = "store"
    /\ opener[opened[t]] = t
    /\ tunnelState[opened[t]] = "open"
    /\ opened[t] \notin Cached
    /\ \A u \in Threads : opened[t] \notin jobs[u]

\* What the locals of a thread hold at each label.
Locals ==
  \A t \in Threads :
    /\ pc[t] = "store" => opened[t] # None
    /\ pc[t] \in {"init", "store", "return"} => arg[t] \in Uses[t]
    /\ jobs[t] # {} => pc[t] \in {"do_stop", "collect", "run_jobs"}

\* Jobs are for tunnels that have been opened; the one stop() has popped is no
\* longer cached.
JobsApart ==
  \A t \in Threads : \A k \in jobs[t] :
    /\ opener[k] # None
    /\ pc[t] = "do_stop" => k \notin Cached

\* What an iterator has still to visit is in the dictionary.
TodoIsCached == \A t \in Threads : todo[t] \subseteq Keys

\* While a thread that found its service absent has not stored its tunnel, a
\* tunnel cached meanwhile is another thread's.
CheckedAbsent ==
  \A t \in Threads :
    pc[t] \in {"init", "store"} /\ arg[t] \in Keys => opener[tunnels[arg[t]]] # t

\* The inductive invariant that needs no isolation.
Inv ==
  /\ TypeOK
  /\ Births
  /\ CachedApart
  /\ OpenedApart
  /\ Locals
  /\ JobsApart
  /\ TodoIsCached
  /\ CheckedAbsent
  /\ StaleOnlyDuringClear
  /\ OverwriteNeedsSharedService

LEMMA GetCheckStep ==
  ASSUME Inv, NEW t \in Threads, NEW s \in Services, GetCheck(t, s)
  PROVE  Inv'
<1> USE ConstantsAssumption DEF Inv
<1>1. TypeOK'
  BY DEF GetCheck, Goto, TypeOK, Labels
<1>2. Births'
  BY DEF GetCheck, Births
<1>3. CachedApart'
  BY DEF GetCheck, CachedApart, Keys
<1>4. OpenedApart'
  BY DEF GetCheck, Goto, MayGet, Idle, OpenedApart, Cached, Keys
<1>5. Locals'
  BY DEF GetCheck, Goto, MayGet, Idle, TypeOK, Locals
<1>6. JobsApart'
  BY DEF GetCheck, Goto, JobsApart, Cached, Keys
<1>7. TodoIsCached'
  BY DEF GetCheck, TodoIsCached, Keys
<1>8. CheckedAbsent'
  BY DEF GetCheck, Goto, TypeOK, CheckedAbsent, Keys
<1>9. StaleOnlyDuringClear'
  BY DEF GetCheck, Goto, MayGet, Idle, StaleOnlyDuringClear, Keys, Clearing
<1>10. OverwriteNeedsSharedService'
  BY DEF GetCheck, OverwriteNeedsSharedService
<1> QED BY <1>1, <1>2, <1>3, <1>4, <1>5, <1>6, <1>7, <1>8, <1>9, <1>10

LEMMA InitTunnelStep ==
  ASSUME Inv, NEW t \in Threads, NEW k \in Tunnels, InitTunnel(t, k)
  PROVE  Inv'
<1> USE ConstantsAssumption DEF Inv
<1>1. TypeOK'
  BY DEF InitTunnel, Goto, TypeOK, Labels
<1>2. Births'
  BY DEF InitTunnel, TypeOK, Births
<1>3. CachedApart'
  BY DEF InitTunnel, CachedApart, Keys, Births
<1>4. OpenedApart'
  BY
     DEF InitTunnel, Goto, TypeOK, OpenedApart, Cached, Keys, CachedApart,
        Births, JobsApart
<1>5. Locals'
  BY DEF InitTunnel, Goto, TypeOK, Locals
<1>6. JobsApart'
  BY DEF InitTunnel, Goto, JobsApart, Cached, Keys
<1>7. TodoIsCached'
  BY DEF InitTunnel, TodoIsCached, Keys
<1>8. CheckedAbsent'
  BY DEF InitTunnel, Goto, CheckedAbsent, Keys, Births, CachedApart
<1>9. StaleOnlyDuringClear'
  BY DEF InitTunnel, Goto, StaleOnlyDuringClear, Keys, Clearing
<1>10. OverwriteNeedsSharedService'
  BY DEF InitTunnel, OverwriteNeedsSharedService, Births
<1> QED BY <1>1, <1>2, <1>3, <1>4, <1>5, <1>6, <1>7, <1>8, <1>9, <1>10

LEMMA InitFailsStep ==
  ASSUME Inv, NEW t \in Threads, InitFails(t)
  PROVE  Inv'
<1> USE ConstantsAssumption DEF Inv
<1>1. TypeOK'
  BY DEF InitFails, Finish, TypeOK, Labels, Outcomes
<1>2. Births'
  BY DEF InitFails, Births
<1>3. CachedApart'
  BY DEF InitFails, CachedApart, Keys
<1>4. OpenedApart'
  BY DEF InitFails, Finish, OpenedApart, Cached, Keys
<1>5. Locals'
  BY DEF InitFails, Finish, TypeOK, Locals
<1>6. JobsApart'
  BY DEF InitFails, Finish, JobsApart, Cached, Keys
<1>7. TodoIsCached'
  BY DEF InitFails, TodoIsCached, Keys
<1>8. CheckedAbsent'
  BY DEF InitFails, Finish, CheckedAbsent, Keys
<1>9. StaleOnlyDuringClear'
  BY DEF InitFails, Finish, StaleOnlyDuringClear, Keys, Clearing
<1>10. OverwriteNeedsSharedService'
  BY DEF InitFails, OverwriteNeedsSharedService
<1> QED BY <1>1, <1>2, <1>3, <1>4, <1>5, <1>6, <1>7, <1>8, <1>9, <1>10

LEMMA StoreStep ==
  ASSUME Inv, NEW t \in Threads, Store(t)
  PROVE  Inv'
<1> USE ConstantsAssumption DEF Inv
<1> DEFINE s == arg[t]
<1>a. s \in Services /\ opened[t] \in Tunnels
  BY DEF Store, TypeOK, Locals
<1>1. TypeOK'
  <2>1. tunnels' \in [Services -> Tunnels \cup {None}]
    BY <1>a DEF Store, TypeOK
  <2>2. overwritten' \in SUBSET (Tunnels \X Threads)
    BY <1>a DEF Store, TypeOK
  <2>3. todo' \in [Threads -> SUBSET Services]
    BY <1>a DEF Store, TypeOK
  <2> QED BY <2>1, <2>2, <2>3 DEF Store, Goto, TypeOK, Labels
<1>2. Births'
  BY DEF Store, Births
<1>3. CachedApart'
  BY DEF Store, CachedApart, Keys, OpenedApart, Locals, Cached
<1>4. OpenedApart'
  BY DEF Store, Goto, TypeOK, OpenedApart, Cached, Keys
<1>5. Locals'
  BY DEF Store, Goto, TypeOK, Locals
<1>6. JobsApart'
  BY DEF Store, Goto, JobsApart, Cached, Keys, OpenedApart
<1>7. TodoIsCached'
  <2>1. Keys' = Keys \cup {s}
    BY <1>a DEF Store, TypeOK, Keys
  <2>2. \A u \in Threads : todo'[u] \subseteq todo[u] \cup {s}
    BY DEF Store
  <2> QED BY <2>1, <2>2 DEF TodoIsCached
<1>8. CheckedAbsent'
  BY DEF Store, Goto, TypeOK, CheckedAbsent, Keys, OpenedApart
<1>9. StaleOnlyDuringClear'
  BY DEF Store, Goto, StaleOnlyDuringClear, Keys, Clearing, OpenedApart
<1>10. OverwriteNeedsSharedService'
  <2> SUFFICES ASSUME NEW k \in Tunnels, NEW v \in Threads, <<k, v>> \in overwritten'
               PROVE  \E u \in Threads \ {v} : opener[k] = u /\ Uses[v] \cap Uses[u] # {}
    BY DEF OverwriteNeedsSharedService, Store
  <2>1. CASE <<k, v>> \in overwritten
    BY <2>1 DEF OverwriteNeedsSharedService
  <2>2. CASE <<k, v>> \notin overwritten
    <3>1. tunnels[s] # None /\ k = tunnels[s] /\ v = t
      BY <2>2 DEF Store
    <3>2. opener[k] \in Threads /\ s \in Uses[opener[k]] /\ opener[k] # t /\ s \in Uses[t]
      BY <1>a, <3>1 DEF CachedApart, CheckedAbsent, Locals, Keys, Store
    <3> QED BY <3>1, <3>2
  <2> QED BY <2>1, <2>2
<1> QED BY <1>1, <1>2, <1>3, <1>4, <1>5, <1>6, <1>7, <1>8, <1>9, <1>10

LEMMA GetReturnStep ==
  ASSUME Inv, NEW t \in Threads, GetReturn(t)
  PROVE  Inv'
<1> USE ConstantsAssumption DEF Inv
<1>1. TypeOK'
  BY DEF GetReturn, Finish, TypeOK, Labels, Outcomes
<1>2. Births'
  BY DEF GetReturn, Births
<1>3. CachedApart'
  BY DEF GetReturn, CachedApart, Keys
<1>4. OpenedApart'
  BY DEF GetReturn, Finish, OpenedApart, Cached, Keys
<1>5. Locals'
  BY DEF GetReturn, Finish, TypeOK, Locals
<1>6. JobsApart'
  BY DEF GetReturn, Finish, JobsApart, Cached, Keys
<1>7. TodoIsCached'
  BY DEF GetReturn, TodoIsCached, Keys
<1>8. CheckedAbsent'
  BY DEF GetReturn, Finish, CheckedAbsent, Keys
<1>9. StaleOnlyDuringClear'
  BY DEF GetReturn, Finish, StaleOnlyDuringClear, Keys, Clearing
<1>10. OverwriteNeedsSharedService'
  BY DEF GetReturn, OverwriteNeedsSharedService
<1> QED BY <1>1, <1>2, <1>3, <1>4, <1>5, <1>6, <1>7, <1>8, <1>9, <1>10

LEMMA StopPopStep ==
  ASSUME Inv, NEW t \in Threads, NEW s \in Services, StopPop(t, s)
  PROVE  Inv'
<1> USE ConstantsAssumption DEF Inv
<1>1. TypeOK'
  BY DEF StopPop, Goto, TypeOK, Labels, Maintenance, Outcomes
<1>2. Births'
  BY DEF StopPop, Births
<1>3. CachedApart'
  BY DEF StopPop, TypeOK, CachedApart, Keys
<1>4. OpenedApart'
  BY
     DEF StopPop, Goto, MayMaintain, Idle, TypeOK, OpenedApart, Cached, Keys,
        Locals, CachedApart, Births, JobsApart
<1>5. Locals'
  BY DEF StopPop, Goto, TypeOK, Locals
<1>6. JobsApart'
  <2>1. CASE tunnels[s] = None
    BY <2>1 DEF StopPop, JobsApart, Cached, Keys
  <2>2. CASE tunnels[s] # None
    <3>1. tunnels[s] \in Tunnels /\ s \in Keys
      BY <2>2 DEF TypeOK, Keys
    <3>2. Cached' = Cached \ {tunnels[s]}
      BY <2>2, <3>1 DEF StopPop, TypeOK, Cached, Keys, CachedApart
    <3>3. opener' = opener /\ jobs' = [jobs EXCEPT ![t] = {tunnels[s]}]
          /\ pc' = [pc EXCEPT ![t] = "do_stop"]
      BY <2>2 DEF StopPop, Goto
    <3> QED BY <3>1, <3>2, <3>3 DEF TypeOK, JobsApart, CachedApart
  <2> QED BY <2>1, <2>2
<1>7. TodoIsCached'
  BY DEF StopPop, TypeOK, TodoIsCached, Keys
<1>8. CheckedAbsent'
  BY DEF StopPop, Goto, TypeOK, CheckedAbsent, Keys
<1>9. StaleOnlyDuringClear'
  BY
     DEF StopPop, Goto, MayMaintain, Idle, TypeOK, StaleOnlyDuringClear, Keys,
        Clearing
<1>10. OverwriteNeedsSharedService'
  BY DEF StopPop, OverwriteNeedsSharedService
<1> QED BY <1>1, <1>2, <1>3, <1>4, <1>5, <1>6, <1>7, <1>8, <1>9, <1>10

LEMMA DoStopStep ==
  ASSUME Inv, NEW t \in Threads, NEW k \in Tunnels, DoStop(t, k)
  PROVE  Inv'
<1> USE ConstantsAssumption DEF Inv
<1>1. TypeOK'
  BY DEF DoStop, TypeOK
<1>2. Births'
  BY DEF DoStop, TypeOK, Births, JobsApart
<1>3. CachedApart'
  BY DEF DoStop, CachedApart, Keys
<1>4. OpenedApart'
  BY DEF DoStop, TypeOK, OpenedApart, Cached, Keys
<1>5. Locals'
  BY DEF DoStop, Locals
<1>6. JobsApart'
  BY DEF DoStop, JobsApart, Cached, Keys
<1>7. TodoIsCached'
  BY DEF DoStop, TodoIsCached, Keys
<1>8. CheckedAbsent'
  BY DEF DoStop, CheckedAbsent, Keys
<1>9. StaleOnlyDuringClear'
  BY DEF DoStop, TypeOK, StaleOnlyDuringClear, Keys, Clearing, JobsApart, Cached
<1>10. OverwriteNeedsSharedService'
  BY DEF DoStop, OverwriteNeedsSharedService
<1> QED BY <1>1, <1>2, <1>3, <1>4, <1>5, <1>6, <1>7, <1>8, <1>9, <1>10

LEMMA StopReturnStep ==
  ASSUME Inv, NEW t \in Threads, StopReturn(t)
  PROVE  Inv'
<1> USE ConstantsAssumption DEF Inv
<1>1. TypeOK'
  BY DEF StopReturn, Finish, TypeOK, Labels, Outcomes
<1>2. Births'
  BY DEF StopReturn, Births
<1>3. CachedApart'
  BY DEF StopReturn, CachedApart, Keys
<1>4. OpenedApart'
  BY DEF StopReturn, Finish, OpenedApart, Cached, Keys
<1>5. Locals'
  BY DEF StopReturn, Finish, Locals
<1>6. JobsApart'
  BY DEF StopReturn, Finish, JobsApart, Cached, Keys
<1>7. TodoIsCached'
  BY DEF StopReturn, TodoIsCached, Keys
<1>8. CheckedAbsent'
  BY DEF StopReturn, Finish, CheckedAbsent, Keys
<1>9. StaleOnlyDuringClear'
  BY DEF StopReturn, Finish, StaleOnlyDuringClear, Keys, Clearing
<1>10. OverwriteNeedsSharedService'
  BY DEF StopReturn, OverwriteNeedsSharedService
<1> QED BY <1>1, <1>2, <1>3, <1>4, <1>5, <1>6, <1>7, <1>8, <1>9, <1>10

LEMMA ClearBeginStep ==
  ASSUME Inv, NEW t \in Threads, ClearBegin(t)
  PROVE  Inv'
<1> USE ConstantsAssumption DEF Inv
<1>1. TypeOK'
  <2>1. Keys \subseteq Services /\ Cardinality(Keys) \in Nat
    BY FS_CardinalityType, FS_Subset DEF Keys
  <2> QED BY <2>1 DEF ClearBegin, Goto, TypeOK, Labels, Maintenance, Outcomes
<1>2. Births'
  BY DEF ClearBegin, Births
<1>3. CachedApart'
  BY DEF ClearBegin, CachedApart, Keys
<1>4. OpenedApart'
  BY DEF ClearBegin, Goto, MayMaintain, Idle, TypeOK, OpenedApart, Cached, Keys
<1>5. Locals'
  BY DEF ClearBegin, Goto, TypeOK, Locals
<1>6. JobsApart'
  BY DEF ClearBegin, Goto, TypeOK, JobsApart, Cached, Keys
<1>7. TodoIsCached'
  BY DEF ClearBegin, TypeOK, TodoIsCached, Keys
<1>8. CheckedAbsent'
  BY DEF ClearBegin, Goto, TypeOK, CheckedAbsent, Keys
<1>9. StaleOnlyDuringClear'
  BY
     DEF ClearBegin, Goto, MayMaintain, Idle, TypeOK, StaleOnlyDuringClear,
        Keys, Clearing
<1>10. OverwriteNeedsSharedService'
  BY DEF ClearBegin, OverwriteNeedsSharedService
<1> QED BY <1>1, <1>2, <1>3, <1>4, <1>5, <1>6, <1>7, <1>8, <1>9, <1>10

LEMMA ClearVisitStep ==
  ASSUME Inv, NEW t \in Threads, NEW s \in Services, ClearVisit(t, s)
  PROVE  Inv'
<1> USE ConstantsAssumption DEF Inv
<1>1. TypeOK'
  BY DEF ClearVisit, TypeOK, Keys, TodoIsCached
<1>2. Births'
  BY DEF ClearVisit, Births
<1>3. CachedApart'
  BY DEF ClearVisit, CachedApart, Keys
<1>4. OpenedApart'
  BY DEF ClearVisit, OpenedApart, Cached, Keys
<1>5. Locals'
  BY DEF ClearVisit, Locals
<1>6. JobsApart'
  BY DEF ClearVisit, JobsApart, Cached, Keys, CachedApart, TodoIsCached
<1>7. TodoIsCached'
  BY DEF ClearVisit, TodoIsCached, Keys
<1>8. CheckedAbsent'
  BY DEF ClearVisit, CheckedAbsent, Keys
<1>9. StaleOnlyDuringClear'
  BY DEF ClearVisit, StaleOnlyDuringClear, Keys, Clearing
<1>10. OverwriteNeedsSharedService'
  BY DEF ClearVisit, OverwriteNeedsSharedService
<1> QED BY <1>1, <1>2, <1>3, <1>4, <1>5, <1>6, <1>7, <1>8, <1>9, <1>10

LEMMA ClearRunStep ==
  ASSUME Inv, NEW t \in Threads, ClearRun(t)
  PROVE  Inv'
<1> USE ConstantsAssumption DEF Inv
<1>1. TypeOK'
  BY DEF ClearRun, Goto, TypeOK, Labels, Maintenance
<1>2. Births'
  BY DEF ClearRun, Births
<1>3. CachedApart'
  BY DEF ClearRun, CachedApart, Keys
<1>4. OpenedApart'
  BY DEF ClearRun, Goto, OpenedApart, Cached, Keys
<1>5. Locals'
  BY DEF ClearRun, Goto, Locals
<1>6. JobsApart'
  BY DEF ClearRun, Goto, JobsApart, Cached, Keys
<1>7. TodoIsCached'
  BY DEF ClearRun, TodoIsCached, Keys
<1>8. CheckedAbsent'
  BY DEF ClearRun, Goto, CheckedAbsent, Keys
<1>9. StaleOnlyDuringClear'
  BY DEF ClearRun, Goto, StaleOnlyDuringClear, Keys, Clearing
<1>10. OverwriteNeedsSharedService'
  BY DEF ClearRun, OverwriteNeedsSharedService
<1> QED BY <1>1, <1>2, <1>3, <1>4, <1>5, <1>6, <1>7, <1>8, <1>9, <1>10

LEMMA ClearRaisesStep ==
  ASSUME Inv, NEW t \in Threads, ClearRaises(t)
  PROVE  Inv'
<1> USE ConstantsAssumption DEF Inv
<1>1. TypeOK'
  BY DEF ClearRaises, Finish, TypeOK, Labels, Outcomes
<1>2. Births'
  BY DEF ClearRaises, Births
<1>3. CachedApart'
  BY DEF ClearRaises, CachedApart, Keys
<1>4. OpenedApart'
  BY DEF ClearRaises, Finish, OpenedApart, Cached, Keys
<1>5. Locals'
  BY DEF ClearRaises, Finish, TypeOK, Locals
<1>6. JobsApart'
  BY DEF ClearRaises, Finish, JobsApart, Cached, Keys
<1>7. TodoIsCached'
  BY DEF ClearRaises, TodoIsCached, Keys
<1>8. CheckedAbsent'
  BY DEF ClearRaises, Finish, CheckedAbsent, Keys
<1>9. StaleOnlyDuringClear'
  BY DEF ClearRaises, Finish, StaleOnlyDuringClear, Keys, Clearing
<1>10. OverwriteNeedsSharedService'
  BY DEF ClearRaises, OverwriteNeedsSharedService
<1> QED BY <1>1, <1>2, <1>3, <1>4, <1>5, <1>6, <1>7, <1>8, <1>9, <1>10

LEMMA ClearJoinStep ==
  ASSUME Inv, NEW t \in Threads, ClearJoin(t)
  PROVE  Inv'
<1> USE ConstantsAssumption DEF Inv
<1>1. TypeOK'
  BY DEF ClearJoin, Goto, TypeOK, Labels, Maintenance
<1>2. Births'
  BY DEF ClearJoin, Births
<1>3. CachedApart'
  BY DEF ClearJoin, CachedApart, Keys
<1>4. OpenedApart'
  BY DEF ClearJoin, Goto, OpenedApart, Cached, Keys
<1>5. Locals'
  BY DEF ClearJoin, Goto, Locals
<1>6. JobsApart'
  BY DEF ClearJoin, Goto, JobsApart, Cached, Keys
<1>7. TodoIsCached'
  BY DEF ClearJoin, TodoIsCached, Keys
<1>8. CheckedAbsent'
  BY DEF ClearJoin, Goto, CheckedAbsent, Keys
<1>9. StaleOnlyDuringClear'
  BY DEF ClearJoin, Goto, StaleOnlyDuringClear, Clearing
<1>10. OverwriteNeedsSharedService'
  BY DEF ClearJoin, OverwriteNeedsSharedService
<1> QED BY <1>1, <1>2, <1>3, <1>4, <1>5, <1>6, <1>7, <1>8, <1>9, <1>10

LEMMA ClearEmptyStep ==
  ASSUME Inv, NEW t \in Threads, ClearEmpty(t)
  PROVE  Inv'
<1> USE ConstantsAssumption DEF Inv
<1>1. TypeOK'
  BY DEF ClearEmpty, Finish, TypeOK, Labels, Outcomes
<1>2. Births'
  BY DEF ClearEmpty, Births
<1>3. CachedApart'
  BY DEF ClearEmpty, CachedApart, Keys
<1>4. OpenedApart'
  BY DEF ClearEmpty, Finish, OpenedApart, Cached, Keys
<1>5. Locals'
  BY DEF ClearEmpty, Finish, Locals
<1>6. JobsApart'
  BY DEF ClearEmpty, JobsApart, Cached, Keys
<1>7. TodoIsCached'
  BY DEF ClearEmpty, TodoIsCached
<1>8. CheckedAbsent'
  BY DEF ClearEmpty, CheckedAbsent, Keys
<1>9. StaleOnlyDuringClear'
  BY DEF ClearEmpty, StaleOnlyDuringClear, Keys
<1>10. OverwriteNeedsSharedService'
  BY DEF ClearEmpty, OverwriteNeedsSharedService
<1> QED BY <1>1, <1>2, <1>3, <1>4, <1>5, <1>6, <1>7, <1>8, <1>9, <1>10

LEMMA InvInit == Init => Inv
  BY ConstantsAssumption
     DEF Init, Inv, TypeOK, Births, CachedApart, OpenedApart, Locals, JobsApart,
        TodoIsCached, CheckedAbsent, StaleOnlyDuringClear,
        OverwriteNeedsSharedService, Keys, Labels, Outcomes

LEMMA InvStep == Inv /\ [Next]_vars => Inv'
<1> SUFFICES ASSUME Inv, [Next]_vars PROVE Inv'
  OBVIOUS
<1>1. CASE UNCHANGED vars
  BY <1>1
     DEF vars, Inv, TypeOK, Births, CachedApart, OpenedApart, Locals, JobsApart,
        TodoIsCached, CheckedAbsent, StaleOnlyDuringClear,
        OverwriteNeedsSharedService, Keys, Cached, Clearing
<1>2. ASSUME NEW t \in Threads, Get(t) PROVE Inv'
  BY <1>2, GetCheckStep, InitTunnelStep, InitFailsStep, StoreStep, GetReturnStep
     DEF Get
<1>3. ASSUME NEW t \in Threads, Stop(t) PROVE Inv'
  BY <1>3, StopPopStep, DoStopStep, StopReturnStep DEF Stop
<1>4. ASSUME NEW t \in Threads, Clear(t) PROVE Inv'
  BY <1>4, ClearBeginStep, ClearVisitStep, ClearRunStep, ClearRaisesStep,
     ClearJoinStep, ClearEmptyStep DEF Clear
<1> QED BY <1>1, <1>2, <1>3, <1>4 DEF Next

LEMMA InvAlways == Spec => []Inv
  BY InvInit, InvStep, PTL DEF Spec

\* Every variable keeps its type.
THEOREM TypeCorrect == Spec => []TypeOK
  BY InvAlways, PTL DEF Inv

\* However the calls interleave, once no clear() is stopping tunnels the
\* dictionary holds no stopped tunnel.
THEOREM NoStaleTunnelStaysCached == Spec => []StaleOnlyDuringClear
  BY InvAlways, PTL DEF Inv

\* However the calls interleave, get_or_create overwrites a tunnel only in a
\* race of two threads on a service both of them use.
THEOREM OverwriteOnlyByRace == Spec => []OverwriteNeedsSharedService
  BY InvAlways, PTL DEF Inv

-----------------------------------------------------------------------------
(* With maintenance isolated.                                              *)

\* A thread inside stop() or clear() is alone in the manager's code.
MaintenanceAlone ==
  Isolated => \A t \in Threads : pc[t] \in Maintenance =>
    \A u \in Threads \ {t} : Idle(u)

\* The dictionary keeps its size while clear() iterates.
SizeKept == Isolated => \A t \in Threads : pc[t] = "collect" => Cardinality(Keys) = size[t]

\* clear() has a job for every cached tunnel it has visited, and until it
\* empties the dictionary every cached tunnel is a job, stopped, or failed to stop.
Claimed ==
  Isolated => \A t \in Threads, s \in Keys :
    /\ pc[t] = "collect" /\ s \notin todo[t] => tunnels[s] \in jobs[t]
    /\ Clearing(t) => \/ tunnels[s] \in jobs[t]
                      \/ tunnelState[tunnels[s]] = "stopped"
                      \/ tunnels[s] \in failed

\* The inductive invariant under isolation, on top of Inv.
IsolatedInv ==
  /\ MaintenanceAlone
  /\ HandedOutIsOpen
  /\ NoCallRaises
  /\ SizeKept
  /\ Claimed
  /\ NoTunnelLost
  /\ NoDoubleStop

\* A step that touches no tunnel and no thread's hold on one loses none.
LEMMA QuietStep ==
  ASSUME NoTunnelLost,
         UNCHANGED <<tunnels, tunnelState, opened, jobs, failed, overwritten>>
  PROVE  NoTunnelLost'
  BY DEF NoTunnelLost, Accounted, InHands, Cached, Keys

LEMMA GetCheckIsolated ==
  ASSUME Inv, IsolatedInv, NEW t \in Threads, NEW s \in Services, GetCheck(t, s)
  PROVE  IsolatedInv'
<1> USE ConstantsAssumption DEF Inv, IsolatedInv
<1>1. MaintenanceAlone'
  BY DEF GetCheck, Goto, MayGet, MaintenanceAlone, Maintenance
<1>2. HandedOutIsOpen'
  BY
     DEF GetCheck, Goto, MayGet, TypeOK, HandedOutIsOpen, Maintenance,
        StaleOnlyDuringClear, Clearing, Keys, CachedApart, Births
<1>3. NoCallRaises'
  BY DEF GetCheck, NoCallRaises
<1>4. SizeKept'
  BY DEF GetCheck, Goto, SizeKept, Keys
<1>5. Claimed'
  BY DEF GetCheck, Goto, Claimed, Clearing, Keys
<1>6. NoTunnelLost'
  BY QuietStep DEF GetCheck
<1>7. NoDoubleStop'
  BY DEF GetCheck, NoDoubleStop
<1> QED BY <1>1, <1>2, <1>3, <1>4, <1>5, <1>6, <1>7

LEMMA InitTunnelIsolated ==
  ASSUME Inv, IsolatedInv, NEW t \in Threads, NEW k \in Tunnels, InitTunnel(t, k)
  PROVE  IsolatedInv'
<1> USE ConstantsAssumption DEF Inv, IsolatedInv
<1>1. MaintenanceAlone'
  BY DEF InitTunnel, Goto, MaintenanceAlone, Maintenance, Idle
<1>2. HandedOutIsOpen'
  BY DEF InitTunnel, Goto, HandedOutIsOpen
<1>3. NoCallRaises'
  BY DEF InitTunnel, NoCallRaises
<1>4. SizeKept'
  BY DEF InitTunnel, Goto, SizeKept, Keys
<1>5. Claimed'
  BY DEF InitTunnel, Goto, Claimed, Clearing, Keys
<1>6. NoTunnelLost'
  <2> SUFFICES ASSUME Isolated, NEW h \in Tunnels, tunnelState'[h] = "open"
               PROVE  Accounted(h)'
    BY DEF NoTunnelLost
  <2>1. opened[t] = None /\ opened'[t] = k
    BY DEF InitTunnel, TypeOK, OpenedApart
  <2>2. CASE h = k
    BY <2>1, <2>2 DEF Accounted, InHands
  <2>3. CASE h # k
    <3>1. Accounted(h)
      BY <2>3 DEF InitTunnel, NoTunnelLost
    <3>2. Cached' = Cached
      BY DEF InitTunnel, Cached, Keys
    <3>3. InHands(h) => InHands(h)'
      BY <2>1, ConstantsAssumption DEF InitTunnel, InHands
    <3> QED BY <3>1, <3>2, <3>3 DEF Accounted, InitTunnel
  <2> QED BY <2>2, <2>3
<1>7. NoDoubleStop'
  BY DEF InitTunnel, NoDoubleStop
<1> QED BY <1>1, <1>2, <1>3, <1>4, <1>5, <1>6, <1>7

LEMMA InitFailsIsolated ==
  ASSUME Inv, IsolatedInv, NEW t \in Threads, InitFails(t)
  PROVE  IsolatedInv'
<1> USE ConstantsAssumption DEF Inv, IsolatedInv
<1>1. MaintenanceAlone'
  BY DEF InitFails, Finish, MaintenanceAlone, Maintenance, Idle
<1>2. HandedOutIsOpen'
  BY DEF InitFails, Finish, HandedOutIsOpen
<1>3. NoCallRaises'
  BY DEF InitFails, Finish, NoCallRaises
<1>4. SizeKept'
  BY DEF InitFails, Finish, SizeKept, MaintenanceAlone, Idle, Keys
<1>5. Claimed'
  BY DEF InitFails, Finish, Claimed, Clearing, Keys
<1>6. NoTunnelLost'
  <2>1. opened' = opened
    BY DEF InitFails, Finish, TypeOK, OpenedApart
  <2> QED BY <2>1, QuietStep DEF InitFails
<1>7. NoDoubleStop'
  BY DEF InitFails, NoDoubleStop
<1> QED BY <1>1, <1>2, <1>3, <1>4, <1>5, <1>6, <1>7

LEMMA StoreIsolated ==
  ASSUME Inv, IsolatedInv, NEW t \in Threads, Store(t)
  PROVE  IsolatedInv'
<1> USE ConstantsAssumption DEF Inv, IsolatedInv
<1>1. MaintenanceAlone'
  BY DEF Store, Goto, MaintenanceAlone, Maintenance, Idle
<1>2. HandedOutIsOpen'
  <2> SUFFICES ASSUME Isolated, NEW u \in Threads, pc'[u] = "return"
               PROVE  /\ tunnels'[arg'[u]] # None
                      /\ tunnelState'[tunnels'[arg'[u]]] = "open"
    BY DEF HandedOutIsOpen
  <2>1. /\ arg[t] \in Services /\ opened[t] \in Tunnels /\ tunnelState[opened[t]] = "open"
        /\ tunnels' = [tunnels EXCEPT ![arg[t]] = opened[t]]
        /\ arg' = arg /\ tunnelState' = tunnelState
    <3>1. opened[t] \in Tunnels /\ tunnelState[opened[t]] = "open"
      BY DEF Store, TypeOK, Locals, OpenedApart
    <3>2. arg[t] \in Services
      BY DEF Store, Locals
    <3> QED BY <3>1, <3>2 DEF Store
  <2>2. CASE arg[u] = arg[t]
    BY <2>1, <2>2 DEF TypeOK
  <2>3. CASE arg[u] # arg[t]
    <3>1. pc[u] = "return" /\ arg[u] \in Services
      BY <2>3 DEF Store, Goto, Locals
    <3> QED BY <2>1, <2>3, <3>1 DEF HandedOutIsOpen
  <2> QED BY <2>2, <2>3
<1>3. NoCallRaises'
  BY DEF Store, NoCallRaises
<1>4. SizeKept'
  BY DEF Store, Goto, SizeKept, MaintenanceAlone, Maintenance, Idle
<1>5. Claimed'
  BY DEF Store, Goto, Claimed, MaintenanceAlone, Maintenance, Idle, Clearing
<1>6. NoTunnelLost'
  <2> SUFFICES ASSUME Isolated, NEW k \in Tunnels, tunnelState'[k] = "open"
               PROVE  Accounted(k)'
    BY DEF NoTunnelLost
  <2>1. Accounted(k)
    BY DEF NoTunnelLost, Store
  <2>2. arg[t] \in Services /\ opened[t] \in Tunnels
    BY DEF Store, TypeOK, Locals
  <2>3. CASE k \in Cached
    <3>1. PICK s \in Keys : tunnels[s] = k
      BY <2>3 DEF Cached
    <3>2. CASE s = arg[t]
      BY <3>1, <3>2 DEF Store, Accounted
    <3>3. CASE s # arg[t]
      BY <3>1, <3>3 DEF Store, Accounted, Cached, Keys
    <3> QED BY <3>2, <3>3
  <2>4. CASE InHands(k)
    <3>1. CASE opened[t] = k
      BY <2>2, <3>1 DEF Store, Accounted, Cached, Keys, TypeOK
    <3>2. CASE opened[t] # k
      BY <2>4, <3>2 DEF Store, Accounted, InHands
    <3> QED BY <3>1, <3>2
  <2>5. CASE k \in failed \/ \E u \in Threads : <<k, u>> \in overwritten
    BY <2>5 DEF Store, Accounted
  <2> QED BY <2>1, <2>3, <2>4, <2>5 DEF Accounted
<1>7. NoDoubleStop'
  BY DEF Store, NoDoubleStop
<1> QED BY <1>1, <1>2, <1>3, <1>4, <1>5, <1>6, <1>7

LEMMA GetReturnIsolated ==
  ASSUME Inv, IsolatedInv, NEW t \in Threads, GetReturn(t)
  PROVE  IsolatedInv'
<1> USE ConstantsAssumption DEF Inv, IsolatedInv
<1>1. MaintenanceAlone'
  BY DEF GetReturn, Finish, MaintenanceAlone, Maintenance, Idle
<1>2. HandedOutIsOpen'
  BY DEF GetReturn, Finish, TypeOK, HandedOutIsOpen
<1>3. NoCallRaises'
  BY DEF GetReturn, Finish, NoCallRaises, HandedOutIsOpen
<1>4. SizeKept'
  BY DEF GetReturn, Finish, SizeKept, MaintenanceAlone, Maintenance, Idle
<1>5. Claimed'
  BY DEF GetReturn, Finish, Claimed, Clearing, Keys
<1>6. NoTunnelLost'
  <2>1. opened' = opened
    BY DEF GetReturn, Finish, TypeOK, OpenedApart
  <2> QED BY <2>1, QuietStep DEF GetReturn
<1>7. NoDoubleStop'
  BY DEF GetReturn, NoDoubleStop
<1> QED BY <1>1, <1>2, <1>3, <1>4, <1>5, <1>6, <1>7

LEMMA StopPopIsolated ==
  ASSUME Inv, IsolatedInv, NEW t \in Threads, NEW s \in Services, StopPop(t, s)
  PROVE  IsolatedInv'
<1> USE ConstantsAssumption DEF Inv, IsolatedInv
<1>1. MaintenanceAlone'
  BY DEF StopPop, Goto, MayMaintain, TypeOK, MaintenanceAlone, Maintenance, Idle
<1>2. HandedOutIsOpen'
  BY DEF StopPop, Goto, MayMaintain, TypeOK, HandedOutIsOpen, Idle
<1>3. NoCallRaises'
  BY DEF StopPop, TypeOK, NoCallRaises
<1>4. SizeKept'
  BY DEF StopPop, Goto, MayMaintain, TypeOK, SizeKept, Idle
<1>5. Claimed'
  BY DEF StopPop, Goto, TypeOK, Claimed, Clearing, Keys
<1>6. NoTunnelLost'
  <2> SUFFICES ASSUME Isolated, NEW k \in Tunnels, tunnelState'[k] = "open"
               PROVE  Accounted(k)'
    BY DEF NoTunnelLost
  <2>1. Accounted(k) /\ jobs[t] = {}
    BY DEF NoTunnelLost, StopPop, MayMaintain, Idle, Locals
  <2>2. CASE tunnels[s] = None
    BY <2>1, <2>2 DEF StopPop, Accounted, Cached, Keys, InHands
  <2>3. CASE tunnels[s] # None
    <3>1. jobs'[t] = {tunnels[s]} /\ \A u \in Threads : jobs[u] \subseteq jobs'[u]
      BY <2>1, <2>3 DEF StopPop, TypeOK
    <3>2. InHands(k) => InHands(k)'
      BY <3>1 DEF StopPop, InHands
    <3>3. k \in Cached => k \in Cached' \/ k \in jobs'[t]
      BY <2>3, <3>1 DEF StopPop, Cached, Keys, TypeOK
    <3> QED BY <2>1, <3>2, <3>3 DEF Accounted, InHands, StopPop
  <2> QED BY <2>2, <2>3
<1>7. NoDoubleStop'
  BY
     DEF StopPop, MayMaintain, TypeOK, NoDoubleStop, Idle, StaleOnlyDuringClear,
        Clearing, Keys, CachedApart, Births
<1> QED BY <1>1, <1>2, <1>3, <1>4, <1>5, <1>6, <1>7

LEMMA DoStopIsolated ==
  ASSUME Inv, IsolatedInv, NEW t \in Threads, NEW k \in Tunnels, DoStop(t, k)
  PROVE  IsolatedInv'
<1> USE ConstantsAssumption DEF Inv, IsolatedInv
<1>1. MaintenanceAlone'
  BY DEF DoStop, MaintenanceAlone, Idle
<1>2. HandedOutIsOpen'
  BY DEF DoStop, HandedOutIsOpen, MaintenanceAlone, Maintenance, Idle
<1>3. NoCallRaises'
  BY DEF DoStop, NoCallRaises
<1>4. SizeKept'
  BY DEF DoStop, SizeKept, Keys
<1>5. Claimed'
  BY DEF DoStop, TypeOK, Claimed, Clearing, Keys
<1>6. NoTunnelLost'
  <2> SUFFICES ASSUME Isolated, NEW h \in Tunnels, tunnelState'[h] = "open"
               PROVE  Accounted(h)'
    BY DEF NoTunnelLost
  <2>1. CASE h = k
    BY <2>1 DEF DoStop, TypeOK, Accounted
  <2>2. CASE h # k
    <3>1. Accounted(h)
      BY <2>2 DEF DoStop, TypeOK, NoTunnelLost
    <3>2. Cached' = Cached /\ failed \subseteq failed' /\ overwritten' = overwritten
      BY DEF DoStop, Cached, Keys
    <3>3. InHands(h) => InHands(h)'
      BY <2>2 DEF DoStop, InHands
    <3> QED BY <3>1, <3>2, <3>3 DEF Accounted
  <2> QED BY <2>1, <2>2
<1>7. NoDoubleStop'
  BY
     DEF DoStop, TypeOK, NoDoubleStop, MaintenanceAlone, Maintenance, Idle,
        Locals
<1> QED BY <1>1, <1>2, <1>3, <1>4, <1>5, <1>6, <1>7

LEMMA StopReturnIsolated ==
  ASSUME Inv, IsolatedInv, NEW t \in Threads, StopReturn(t)
  PROVE  IsolatedInv'
<1> USE ConstantsAssumption DEF Inv, IsolatedInv
<1>1. MaintenanceAlone'
  BY DEF StopReturn, Finish, MaintenanceAlone, Maintenance, Idle
<1>2. HandedOutIsOpen'
  BY DEF StopReturn, Finish, HandedOutIsOpen
<1>3. NoCallRaises'
  BY DEF StopReturn, Finish, NoCallRaises
<1>4. SizeKept'
  BY DEF StopReturn, Finish, SizeKept, Keys
<1>5. Claimed'
  BY DEF StopReturn, Finish, Claimed, Clearing, Keys
<1>6. NoTunnelLost'
  <2>1. opened' = opened
    BY DEF StopReturn, Finish, TypeOK, OpenedApart
  <2> QED BY <2>1, QuietStep DEF StopReturn
<1>7. NoDoubleStop'
  BY DEF StopReturn, NoDoubleStop
<1> QED BY <1>1, <1>2, <1>3, <1>4, <1>5, <1>6, <1>7

LEMMA ClearBeginIsolated ==
  ASSUME Inv, IsolatedInv, NEW t \in Threads, ClearBegin(t)
  PROVE  IsolatedInv'
<1> USE ConstantsAssumption DEF Inv, IsolatedInv
<1>1. MaintenanceAlone'
  BY
     DEF ClearBegin, Goto, MayMaintain, TypeOK, MaintenanceAlone, Maintenance,
        Idle
<1>2. HandedOutIsOpen'
  BY DEF ClearBegin, Goto, TypeOK, HandedOutIsOpen
<1>3. NoCallRaises'
  BY DEF ClearBegin, TypeOK, NoCallRaises
<1>4. SizeKept'
  BY DEF ClearBegin, Goto, TypeOK, SizeKept, Keys
<1>5. Claimed'
  BY DEF ClearBegin, Goto, TypeOK, Claimed, Clearing, Keys
<1>6. NoTunnelLost'
  BY QuietStep DEF ClearBegin
<1>7. NoDoubleStop'
  BY DEF ClearBegin, NoDoubleStop
<1> QED BY <1>1, <1>2, <1>3, <1>4, <1>5, <1>6, <1>7

LEMMA ClearVisitIsolated ==
  ASSUME Inv, IsolatedInv, NEW t \in Threads, NEW s \in Services, ClearVisit(t, s)
  PROVE  IsolatedInv'
<1> USE ConstantsAssumption DEF Inv, IsolatedInv
<1>1. MaintenanceAlone'
  BY DEF ClearVisit, MaintenanceAlone, Idle
<1>2. HandedOutIsOpen'
  BY DEF ClearVisit, HandedOutIsOpen
<1>3. NoCallRaises'
  BY DEF ClearVisit, NoCallRaises
<1>4. SizeKept'
  BY DEF ClearVisit, SizeKept, Keys
<1>5. Claimed'
  BY DEF ClearVisit, TypeOK, Claimed, Clearing, Keys
<1>6. NoTunnelLost'
  <2>1. Cached' = Cached
    BY DEF ClearVisit, Cached, Keys
  <2>2. ASSUME NEW k \in Tunnels, InHands(k) PROVE InHands(k)'
    BY <2>2 DEF ClearVisit, InHands
  <2> QED BY <2>1, <2>2 DEF ClearVisit, NoTunnelLost, Accounted
<1>7. NoDoubleStop'
  BY
     DEF ClearVisit, TypeOK, NoDoubleStop, MaintenanceAlone, Maintenance, Idle,
        StaleOnlyDuringClear, Clearing, Keys, CachedApart, Births, TodoIsCached
<1> QED BY <1>1, <1>2, <1>3, <1>4, <1>5, <1>6, <1>7

LEMMA ClearRunIsolated ==
  ASSUME Inv, IsolatedInv, NEW t \in Threads, ClearRun(t)
  PROVE  IsolatedInv'
<1> USE ConstantsAssumption DEF Inv, IsolatedInv
<1>1. MaintenanceAlone'
  BY DEF ClearRun, Goto, MaintenanceAlone, Maintenance, Idle
<1>2. HandedOutIsOpen'
  BY DEF ClearRun, Goto, HandedOutIsOpen
<1>3. NoCallRaises'
  BY DEF ClearRun, NoCallRaises
<1>4. SizeKept'
  BY DEF ClearRun, Goto, SizeKept, Keys
<1>5. Claimed'
  BY DEF ClearRun, Goto, Claimed, Clearing, Keys
<1>6. NoTunnelLost'
  BY QuietStep DEF ClearRun
<1>7. NoDoubleStop'
  BY DEF ClearRun, NoDoubleStop
<1> QED BY <1>1, <1>2, <1>3, <1>4, <1>5, <1>6, <1>7

LEMMA ClearRaisesIsolated ==
  ASSUME Inv, IsolatedInv, NEW t \in Threads, ClearRaises(t)
  PROVE  IsolatedInv'
<1> USE ConstantsAssumption DEF Inv, IsolatedInv
<1>1. MaintenanceAlone'
  BY DEF ClearRaises, Finish, MaintenanceAlone, Maintenance, Idle
<1>2. HandedOutIsOpen'
  BY DEF ClearRaises, Finish, HandedOutIsOpen
<1>3. NoCallRaises'
  BY DEF ClearRaises, NoCallRaises, SizeKept
<1>4. SizeKept'
  BY DEF ClearRaises, SizeKept
<1>5. Claimed'
  BY DEF ClearRaises, Finish, TypeOK, Claimed, Clearing, Keys
<1>6. NoTunnelLost'
  BY DEF ClearRaises, NoTunnelLost, SizeKept
<1>7. NoDoubleStop'
  BY DEF ClearRaises, NoDoubleStop
<1> QED BY <1>1, <1>2, <1>3, <1>4, <1>5, <1>6, <1>7

LEMMA ClearJoinIsolated ==
  ASSUME Inv, IsolatedInv, NEW t \in Threads, ClearJoin(t)
  PROVE  IsolatedInv'
<1> USE ConstantsAssumption DEF Inv, IsolatedInv
<1>1. MaintenanceAlone'
  BY DEF ClearJoin, Goto, MaintenanceAlone, Maintenance, Idle
<1>2. HandedOutIsOpen'
  BY DEF ClearJoin, Goto, HandedOutIsOpen
<1>3. NoCallRaises'
  BY DEF ClearJoin, NoCallRaises
<1>4. SizeKept'
  BY DEF ClearJoin, Goto, SizeKept, Keys
<1>5. Claimed'
  BY DEF ClearJoin, Goto, Claimed, Clearing, Keys
<1>6. NoTunnelLost'
  BY QuietStep DEF ClearJoin
<1>7. NoDoubleStop'
  BY DEF ClearJoin, NoDoubleStop
<1> QED BY <1>1, <1>2, <1>3, <1>4, <1>5, <1>6, <1>7

LEMMA ClearEmptyIsolated ==
  ASSUME Inv, IsolatedInv, NEW t \in Threads, ClearEmpty(t)
  PROVE  IsolatedInv'
<1> USE ConstantsAssumption DEF Inv, IsolatedInv
<1>1. MaintenanceAlone'
  BY DEF ClearEmpty, Finish, MaintenanceAlone, Maintenance, Idle
<1>2. HandedOutIsOpen'
  BY
     DEF ClearEmpty, Finish, HandedOutIsOpen, MaintenanceAlone, Maintenance,
        Idle
<1>3. NoCallRaises'
  BY DEF ClearEmpty, Finish, NoCallRaises
<1>4. SizeKept'
  BY DEF ClearEmpty, Finish, SizeKept, MaintenanceAlone, Maintenance, Idle
<1>5. Claimed'
  BY DEF ClearEmpty, Claimed, Keys
<1>6. NoTunnelLost'
  <2> SUFFICES ASSUME Isolated, NEW k \in Tunnels, tunnelState'[k] = "open"
               PROVE  Accounted(k)'
    BY DEF NoTunnelLost
  <2>1. Accounted(k) /\ jobs[t] = {} /\ opened[t] = None
    BY DEF ClearEmpty, NoTunnelLost, Locals, OpenedApart
  <2>2. k \in Cached => k \in failed
    BY <2>1 DEF ClearEmpty, Cached, Claimed, Clearing
  <2>3. InHands(k) => InHands(k)'
    BY <2>1, ConstantsAssumption DEF ClearEmpty, Finish, InHands
  <2> QED BY <2>1, <2>2, <2>3 DEF Accounted, ClearEmpty
<1>7. NoDoubleStop'
  BY DEF ClearEmpty, NoDoubleStop
<1> QED BY <1>1, <1>2, <1>3, <1>4, <1>5, <1>6, <1>7

LEMMA IsolatedInit == Init => IsolatedInv
  BY ConstantsAssumption
     DEF Init, IsolatedInv, MaintenanceAlone, HandedOutIsOpen, NoCallRaises,
        SizeKept, Claimed, NoTunnelLost, NoDoubleStop, Maintenance, Keys

LEMMA IsolatedStep == Inv /\ IsolatedInv /\ [Next]_vars => IsolatedInv'
<1> SUFFICES ASSUME Inv, IsolatedInv, [Next]_vars PROVE IsolatedInv'
  OBVIOUS
<1>1. CASE UNCHANGED vars
  BY <1>1
     DEF vars, IsolatedInv, MaintenanceAlone, HandedOutIsOpen, NoCallRaises,
        SizeKept, Claimed, NoTunnelLost, NoDoubleStop, Keys, Cached, Accounted,
        InHands, Clearing, Idle
<1>2. ASSUME NEW t \in Threads, Get(t) PROVE IsolatedInv'
  BY <1>2, GetCheckIsolated, InitTunnelIsolated, InitFailsIsolated,
     StoreIsolated, GetReturnIsolated DEF Get
<1>3. ASSUME NEW t \in Threads, Stop(t) PROVE IsolatedInv'
  BY <1>3, StopPopIsolated, DoStopIsolated, StopReturnIsolated DEF Stop
<1>4. ASSUME NEW t \in Threads, Clear(t) PROVE IsolatedInv'
  BY <1>4, ClearBeginIsolated, ClearVisitIsolated, ClearRunIsolated,
     ClearRaisesIsolated, ClearJoinIsolated, ClearEmptyIsolated DEF Clear
<1> QED BY <1>1, <1>2, <1>3, <1>4 DEF Next

LEMMA IsolatedAlways == Spec => []IsolatedInv
  BY InvAlways, IsolatedInit, IsolatedStep, PTL DEF Spec

\* With maintenance isolated, get_or_create hands out an open tunnel.
THEOREM HandsOutOpenTunnels == Spec => []HandedOutIsOpen
  BY IsolatedAlways, PTL DEF IsolatedInv

\* With maintenance isolated, no KeyError and no RuntimeError is raised.
THEOREM CallsDoNotRaise == Spec => []NoCallRaises
  BY IsolatedAlways, PTL DEF IsolatedInv

\* With maintenance isolated, an open tunnel is lost only when its stop raised
\* or a race overwrote it.
THEOREM TunnelsAreNotLost == Spec => []NoTunnelLost
  BY IsolatedAlways, PTL DEF IsolatedInv

\* With maintenance isolated, no tunnel is stopped twice.
THEOREM StopsOnce == Spec => []NoDoubleStop
  BY IsolatedAlways, PTL DEF IsolatedInv

-----------------------------------------------------------------------------
(* TunnelManager implements TunnelPool, with maintenance isolated.         *)

\* A step of one thread moves its call and leaves those of the others.
LEMMA PoolCallMoves ==
  ASSUME NEW t \in Threads, NEW l, NEW x, CallOf(t)' = l, AskedBy(t)' = x,
         \A u \in Threads \ {t} : pc'[u] = pc[u] /\ arg'[u] = arg[u]
  PROVE  /\ Calls' = [Calls EXCEPT ![t] = l]
         /\ Asked' = [Asked EXCEPT ![t] = x]
<1>1. \A u \in Threads \ {t} : CallOf(u)' = CallOf(u) /\ AskedBy(u)' = AskedBy(u)
  BY DEF CallOf, AskedBy
<1> HIDE DEF CallOf, AskedBy
<1>2. Calls' = [Calls EXCEPT ![t] = l]
  BY <1>1 DEF Calls
<1>3. Asked' = [Asked EXCEPT ![t] = x]
  BY <1>1 DEF Asked
<1> QED
  BY <1>2, <1>3

\* A thread that goes to a label: the same, with the arguments as they are.
LEMMA PoolGoto ==
  ASSUME TypeOK, NEW t \in Threads, NEW l \in Labels, Goto(t, l), UNCHANGED arg
  PROVE  /\ \A u \in Threads \ {t} : pc'[u] = pc[u] /\ arg'[u] = arg[u]
         /\ pc'[t] = l /\ arg'[t] = arg[t]
  BY DEF TypeOK, Goto

\* A thread that leaves the manager ends its call.
LEMMA PoolEnds ==
  ASSUME TypeOK, NEW t \in Threads, NEW how, Finish(t, how)
  PROVE  Pool!Ends(t, how)
<1>1. /\ \A u \in Threads \ {t} : pc'[u] = pc[u] /\ arg'[u] = arg[u]
      /\ pc'[t] = "idle"
  BY DEF TypeOK, Finish
<1>2. CallOf(t)' = "none" /\ AskedBy(t)' = None
  BY <1>1 DEF CallOf, AskedBy
<1>3. Calls' = [Calls EXCEPT ![t] = "none"] /\ Asked' = [Asked EXCEPT ![t] = None]
  BY <1>1, <1>2, PoolCallMoves
<1> QED
  BY <1>3 DEF Finish, Pool!Ends, Pool!Becomes

\* What is connected and what has been depends on the dictionary, the tunnels and what is
\* not stored yet.
LEMMA PoolKeeps ==
  ASSUME UNCHANGED <<tunnels, tunnelState>>, \A u \in Threads : opened'[u] = opened[u]
  PROVE  UNCHANGED Connection /\ UNCHANGED Given
  BY DEF Connection, Given, Keys

\* How calls and labels correspond.
LEMMA PoolCalls ==
  ASSUME TypeOK, NEW t \in Threads
  PROVE  /\ Calls[t] = CallOf(t) /\ Asked[t] = AskedBy(t)
         /\ Calls[t] = "none" <=> Idle(t)
         /\ Calls[t] \in {"stop", "clear"} <=> pc[t] \in Maintenance
  BY DEF Calls, Asked, CallOf, Idle, TypeOK, Labels, Maintenance

\* Unless a clear() is stopping them, the tunnels in the dictionary are the connections.
LEMMA PoolIsDictionary ==
  ASSUME Inv, \A u \in Threads : ~Clearing(u)
  PROVE  Connection = tunnels
<1>1. \A s \in Keys : tunnelState[tunnels[s]] = "open"
  BY ConstantsAssumption DEF Inv, TypeOK, StaleOnlyDuringClear, CachedApart, Births, Keys
<1>2. \A s \in Services : Connection[s] = tunnels[s]
  BY <1>1 DEF Connection, Keys
<1> QED
  BY <1>2 DEF Connection, Inv, TypeOK

\* At first nothing is connected.
LEMMA PoolInit == Init => Pool!Init
<1> SUFFICES ASSUME Init PROVE Pool!Init
  OBVIOUS
<1>1. Connection = [s \in Services |-> None] /\ Given = {}
  BY DEF Init, Connection, Given, Keys
<1>2. Calls = [t \in Threads |-> "none"] /\ Asked = [t \in Threads |-> None]
  BY DEF Init, Calls, CallOf, Asked, AskedBy
<1> QED
  BY <1>1, <1>2 DEF Init, Pool!Init

\* get_or_create.
LEMMA PoolGetStep ==
  ASSUME Inv, IsolatedInv, Isolated, NEW t \in Threads, Get(t)
  PROVE  Pool!Step(t) \/ UNCHANGED Pool!vars
<1>0. TypeOK /\ Calls[t] = CallOf(t) /\ Asked[t] = AskedBy(t)
  BY PoolCalls DEF Inv
<1>1. ASSUME NEW s \in Services, GetCheck(t, s) PROVE Pool!Ask(t, s)
  <2>1. \A u \in Threads : pc[u] \notin Maintenance
    BY <1>1 DEF GetCheck, MayGet
  <2>2. Pool!Quiet /\ Calls[t] = "none"
    BY <1>0, <1>1, <2>1, PoolCalls DEF Pool!Quiet, GetCheck, MayGet
  <2>3. Connection[s] = tunnels[s]
    BY <2>1, PoolIsDictionary DEF Clearing, Maintenance
  <2>4. /\ \A u \in Threads \ {t} : pc'[u] = pc[u] /\ arg'[u] = arg[u]
        /\ pc'[t] = (IF Connection[s] = None THEN "init" ELSE "return") /\ arg'[t] = s
    BY <1>0, <1>1, <2>3 DEF GetCheck, Goto, TypeOK
  <2>5. CallOf(t)' = (IF Connection[s] = None THEN "seeking" ELSE "served") /\ AskedBy(t)' = s
    BY <2>4 DEF CallOf, AskedBy
  <2>6. Pool!Becomes(t, IF Connection[s] = None THEN "seeking" ELSE "served", s)
    BY <2>4, <2>5, PoolCallMoves DEF Pool!Becomes
  <2>7. UNCHANGED Connection /\ UNCHANGED Given /\ UNCHANGED outcome
    BY <1>1, PoolKeeps DEF GetCheck
  <2> QED
    BY <2>2, <2>6, <2>7 DEF Pool!Ask
<1>2. ASSUME NEW k \in Tunnels, InitTunnel(t, k) PROVE UNCHANGED Pool!vars
  <2>1. /\ \A u \in Threads : CallOf(u)' = CallOf(u) /\ AskedBy(u)' = AskedBy(u)
    BY <1>0, <1>2 DEF InitTunnel, Goto, CallOf, AskedBy, TypeOK
  <2>2. UNCHANGED Calls /\ UNCHANGED Asked
    BY <2>1 DEF Calls, Asked
  <2>3. k \notin Cached
    BY <1>2, ConstantsAssumption DEF InitTunnel, Inv, CachedApart, Births, Cached
  <2>4. UNCHANGED Connection
    <3>1. \A s \in Keys : tunnels[s] # k /\ tunnels[s] \in Tunnels
      BY <2>3, <1>0 DEF Cached, TypeOK, Keys
    <3>2. \A s \in Keys : tunnelState'[tunnels[s]] = tunnelState[tunnels[s]]
      BY <1>0, <1>2, <3>1 DEF InitTunnel, TypeOK
    <3> QED
      BY <1>2, <3>2 DEF InitTunnel, Connection, Keys
  <2>5. opened[t] = None /\ opened'[t] = k /\ tunnelState[k] = "unborn"
        /\ \A u \in Threads \ {t} : opened'[u] = opened[u]
    BY <1>0, <1>2 DEF InitTunnel, TypeOK, Inv, OpenedApart
  <2>6. \A h \in Tunnels : h # k => tunnelState'[h] = tunnelState[h] /\ h # None
    BY <1>0, <1>2, ConstantsAssumption DEF InitTunnel, TypeOK
  <2>7. UNCHANGED Given
    BY <2>5, <2>6 DEF Given
  <2> QED
    BY <1>2, <2>2, <2>4, <2>7 DEF Pool!vars, InitTunnel
<1>3. ASSUME InitFails(t) PROVE Pool!GiveUp(t)
  <2>1. Calls[t] = "seeking" /\ Pool!Ends(t, "OpenFailed")
    BY <1>0, <1>3, PoolEnds DEF InitFails, CallOf
  <2>2. opened'[t] = opened[t] /\ \A u \in Threads : opened'[u] = opened[u]
    BY <1>0, <1>3 DEF InitFails, Finish, TypeOK, Inv, OpenedApart
  <2> QED
    BY <1>3, <2>1, <2>2, PoolKeeps DEF InitFails, Pool!GiveUp
<1>4. ASSUME Store(t) PROVE \E k \in Tunnels : Pool!Connect(t, k)
  <2> DEFINE k == opened[t]
  <2>1. /\ pc[t] = "store" /\ k \in Tunnels /\ arg[t] \in Services /\ k # None
        /\ tunnelState[k] = "open" /\ k \notin Cached
    <3>1. pc[t] = "store"
      BY <1>4 DEF Store
    <3>2. opened[t] # None /\ arg[t] \in Uses[t]
      BY <3>1 DEF Inv, Locals
    <3>3. opened[t] \in Tunnels /\ arg[t] \in Services
      BY <1>0, <3>2, ConstantsAssumption DEF TypeOK
    <3> QED
      BY <3>1, <3>2, <3>3 DEF Inv, OpenedApart
  <2>2. \A u \in Threads \ {t} : opened[u] # k
    BY <2>1 DEF Inv, OpenedApart
  <2>3. tunnels' = [tunnels EXCEPT ![arg[t]] = k] /\ UNCHANGED tunnelState
        /\ opened' = [opened EXCEPT ![t] = None]
    BY <1>4 DEF Store
  <2>4. k \notin Given /\ Given' = Given \cup {k}
    <3>1. k \notin Given
      BY DEF Given
    <3>2. opened'[t] = None /\ \A u \in Threads \ {t} : opened'[u] = opened[u]
      BY <1>0, <2>3 DEF TypeOK
    <3>3. \A h \in Tunnels : h \in Given' <=> h \in Given \/ h = k
      BY <2>1, <2>2, <2>3, <3>2, ConstantsAssumption DEF Given
    <3> QED
      BY <2>1, <3>1, <3>3 DEF Given
  <2>5. Connection' = [Connection EXCEPT ![arg[t]] = k]
    <3>1. \A s \in Services : tunnels'[s] = IF s = arg[t] THEN k ELSE tunnels[s]
      BY <1>0, <2>3 DEF TypeOK
    <3>2. \A s \in Services : Connection'[s] = IF s = arg[t] THEN k ELSE Connection[s]
      BY <2>1, <2>3, <3>1 DEF Connection, Keys
    <3> QED
      BY <3>2 DEF Connection
  <2>6. Calls[t] = "seeking" /\ Asked[t] = arg[t]
    BY <1>0, <2>1 DEF CallOf, AskedBy
  <2>7. /\ \A u \in Threads \ {t} : pc'[u] = pc[u] /\ arg'[u] = arg[u]
        /\ pc'[t] = "return" /\ arg'[t] = arg[t]
    BY <1>0, <1>4, PoolGoto DEF Store, Labels
  <2>8. Pool!Becomes(t, "served", arg[t])
    BY <2>7, PoolCallMoves DEF Pool!Becomes, CallOf, AskedBy
  <2> QED
    BY <1>4, <2>1, <2>4, <2>5, <2>6, <2>8 DEF Pool!Connect, Store
<1>5. ASSUME GetReturn(t) PROVE Pool!Return(t)
  <2>1. pc[t] = "return" /\ arg[t] \in Services /\ tunnels[arg[t]] # None
        /\ tunnelState[tunnels[arg[t]]] = "open"
    BY <1>0, <1>5, ConstantsAssumption
       DEF GetReturn, IsolatedInv, HandedOutIsOpen, Inv, Locals, TypeOK
  <2>2. Calls[t] = "served" /\ Asked[t] = arg[t]
    BY <1>0, <2>1 DEF CallOf, AskedBy
  <2>3. Connection[Asked[t]] # None
    BY <2>1, <2>2 DEF Connection, Keys
  <2>4. Pool!Ends(t, "ok")
    BY <1>0, <1>5, <2>1, PoolEnds DEF GetReturn
  <2>5. \A u \in Threads : opened'[u] = opened[u]
    BY <1>0, <1>5, <2>1 DEF GetReturn, Finish, TypeOK, Inv, OpenedApart
  <2> QED
    BY <1>5, <2>2, <2>3, <2>4, <2>5, PoolKeeps DEF GetReturn, Pool!Return
<1> QED
  BY <1>1, <1>2, <1>3, <1>4, <1>5 DEF Get, Pool!Step

\* What a step that stops tunnel k does to the connections: nothing, or one is gone.
LEMMA PoolStops ==
  ASSUME Inv, NEW t \in Threads, NEW k \in jobs[t], UNCHANGED <<tunnels, opened>>,
         tunnelState' = [tunnelState EXCEPT ![k] = "stopped"]
  PROVE  /\ UNCHANGED Given
         /\ k \notin Cached => UNCHANGED Connection
         /\ k \in Cached => \E s \in Services : Connection' = [Connection EXCEPT ![s] = None]
<1>0. TypeOK /\ k \in Tunnels
  BY DEF Inv, TypeOK
<1>1. tunnelState[k] # "unborn" /\ tunnelState'[k] # "unborn"
      /\ \A h \in Tunnels \ {k} : tunnelState'[h] = tunnelState[h]
  BY <1>0 DEF Inv, JobsApart, Births, TypeOK
<1>2. UNCHANGED Given
  BY <1>1 DEF Given
<1>3. \A r \in Keys : tunnels[r] \in Tunnels
  BY <1>0 DEF TypeOK, Keys
<1>4. Keys' = Keys
  BY DEF Keys
<1>5. ASSUME k \notin Cached PROVE UNCHANGED Connection
  <2>1. \A r \in Keys : tunnelState'[tunnels[r]] = tunnelState[tunnels[r]]
    BY <1>1, <1>3, <1>5 DEF Cached
  <2> QED
    BY <1>4, <2>1 DEF Connection
<1>6. ASSUME k \in Cached PROVE \E s \in Services : Connection' = [Connection EXCEPT ![s] = None]
  <2>1. PICK s \in Keys : tunnels[s] = k
    BY <1>6 DEF Cached
  <2>2. \A r \in Keys : r # s => tunnels[r] # k
    BY <2>1 DEF Inv, CachedApart
  <2>3. \A r \in Keys : r # s => tunnelState'[tunnels[r]] = tunnelState[tunnels[r]]
    BY <1>1, <1>3, <2>2
  <2>4. s \in Services /\ tunnelState'[tunnels[s]] = "stopped"
    BY <1>0, <2>1 DEF Keys, TypeOK
  <2>5. \A r \in Services : Connection'[r] = IF r = s THEN None ELSE Connection[r]
    BY <1>4, <2>3, <2>4 DEF Connection
  <2>6. Connection' = [Connection EXCEPT ![s] = None]
    BY <2>5 DEF Connection
  <2> QED
    BY <2>4, <2>6
<1> QED
  BY <1>2, <1>5, <1>6

\* Steps within clear() that callers do not see.
LEMMA PoolStutters ==
  ASSUME TypeOK, NEW t \in Threads, NEW l \in {"collect", "run_jobs", "empty"}, Goto(t, l),
         pc[t] \in {"collect", "run_jobs", "empty"},
         UNCHANGED <<tunnels, tunnelState, arg, opened, outcome>>
  PROVE  UNCHANGED Pool!vars
<1>1. \A u \in Threads : CallOf(u)' = CallOf(u) /\ AskedBy(u)' = AskedBy(u)
  BY DEF Goto, CallOf, AskedBy, TypeOK
<1>2. UNCHANGED Calls /\ UNCHANGED Asked
  BY <1>1 DEF Calls, Asked
<1> QED
  BY <1>2, PoolKeeps DEF Pool!vars

\* stop() and clear() begin when nobody else is at work.
LEMMA PoolBegins ==
  ASSUME Inv, Isolated, NEW t \in Threads, MayMaintain(t)
  PROVE  /\ Pool!Alone /\ Connection = tunnels /\ Calls[t] = "none" /\ opened[t] = None
         /\ \A how : UNCHANGED <<pc, arg>> /\ outcome' = [outcome EXCEPT ![t] = how] => Pool!Ends(t, how)
         /\ \A l \in {"do_stop", "collect"} :
              Goto(t, l) /\ UNCHANGED arg => Pool!Becomes(t, IF l = "collect" THEN "clear" ELSE "stop", None)
<1>0. TypeOK /\ \A u \in Threads : pc[u] = "idle"
  BY DEF MayMaintain, Idle, Inv
<1>1. \A u \in Threads : Calls[u] = "none"
  BY <1>0, PoolCalls DEF Idle
<1>2. Connection = tunnels
  BY <1>0, PoolIsDictionary DEF Clearing
<1>3. opened[t] = None
  BY <1>0 DEF Inv, OpenedApart
<1>4. ASSUME NEW how, UNCHANGED <<pc, arg>>, outcome' = [outcome EXCEPT ![t] = how] PROVE Pool!Ends(t, how)
  <2>1. CallOf(t)' = "none" /\ AskedBy(t)' = None
    BY <1>0, <1>4 DEF CallOf, AskedBy
  <2> QED
    BY <1>4, <2>1, PoolCallMoves DEF Pool!Ends, Pool!Becomes
<1>5. ASSUME NEW l \in {"do_stop", "collect"}, Goto(t, l), UNCHANGED arg
      PROVE  Pool!Becomes(t, IF l = "collect" THEN "clear" ELSE "stop", None)
  <2>1. /\ \A u \in Threads \ {t} : pc'[u] = pc[u] /\ arg'[u] = arg[u]
        /\ pc'[t] = l
    BY <1>0, <1>5 DEF Goto, TypeOK
  <2>2. CallOf(t)' = (IF l = "collect" THEN "clear" ELSE "stop") /\ AskedBy(t)' = None
    BY <2>1 DEF CallOf, AskedBy
  <2> QED
    BY <2>1, <2>2, PoolCallMoves DEF Pool!Becomes
<1> QED
  BY <1>1, <1>2, <1>3, <1>4, <1>5 DEF Pool!Alone

\* _do_stop, for stop() or for clear().
LEMMA PoolDoStop ==
  ASSUME Inv, NEW t \in Threads, NEW k \in Tunnels, DoStop(t, k)
  PROVE  (\E s \in Services : Pool!Drop(t, s)) \/ UNCHANGED Pool!vars
<1>0. TypeOK
  BY DEF Inv
<1>1. UNCHANGED <<tunnels, opened, outcome>> /\ UNCHANGED Calls /\ UNCHANGED Asked
  BY DEF DoStop, Calls, Asked, CallOf, AskedBy
<1>2. CASE UNCHANGED tunnelState
  BY <1>1, <1>2, PoolKeeps DEF Pool!vars
<1>3. CASE tunnelState' = [tunnelState EXCEPT ![k] = "stopped"]
  <2>1. k \in jobs[t] /\ pc[t] \in {"do_stop", "run_jobs"}
    BY DEF DoStop
  <2>2. k \in Cached => Calls[t] = "clear"
    BY <1>0, <2>1 DEF Inv, JobsApart, Calls, CallOf
  <2> QED
    BY <1>1, <1>3, <2>1, <2>2, PoolStops DEF Pool!vars, Pool!Drop
<1> QED
  BY <1>2, <1>3 DEF DoStop

\* stop().
LEMMA PoolStopStep ==
  ASSUME Inv, IsolatedInv, Isolated, NEW t \in Threads, Stop(t)
  PROVE  Pool!Step(t) \/ UNCHANGED Pool!vars
<1>0. TypeOK
  BY DEF Inv
<1>1. ASSUME NEW s \in Services, StopPop(t, s) PROVE Pool!Stop(t, s)
  <2>1. MayMaintain(t) /\ UNCHANGED tunnelState /\ \A u \in Threads : opened'[u] = opened[u]
    BY <1>1 DEF StopPop
  <2>2. UNCHANGED Given
    BY <2>1 DEF Given
  <2>3. Pool!Alone /\ Connection = tunnels
    BY <2>1, PoolBegins
  <2>4. CASE tunnels[s] = None
    <3>1. UNCHANGED <<tunnels, pc, arg>> /\ outcome' = [outcome EXCEPT ![t] = "ok"]
      BY <1>1, <2>4 DEF StopPop
    <3>2. Pool!Ends(t, "ok")
      BY <2>1, <3>1, PoolBegins
    <3>3. Connection' = Connection /\ Connection' = [Connection EXCEPT ![s] = None]
      BY <1>0, <2>1, <2>3, <2>4, <3>1, PoolKeeps DEF TypeOK
    <3> QED
      BY <2>2, <2>3, <2>4, <3>2, <3>3 DEF Pool!Stop
  <2>5. CASE tunnels[s] # None
    <3>1. /\ tunnels' = [tunnels EXCEPT ![s] = None] /\ UNCHANGED <<arg, outcome>>
          /\ Goto(t, "do_stop")
      BY <1>1, <2>5 DEF StopPop
    <3>2. Pool!Becomes(t, "stop", None)
      BY <2>1, <3>1, PoolBegins
    <3>3. Connection' = [Connection EXCEPT ![s] = None]
      <4>1. \A r \in Services : tunnels'[r] = IF r = s THEN None ELSE tunnels[r]
        BY <1>0, <3>1 DEF TypeOK
      <4>2. \A r \in Services : Connection'[r] = IF r = s THEN None ELSE Connection[r]
        BY <2>1, <4>1 DEF Connection, Keys
      <4> QED
        BY <4>2 DEF Connection
    <3> QED
      BY <2>2, <2>3, <2>5, <3>1, <3>2, <3>3 DEF Pool!Stop
  <2> QED
    BY <2>4, <2>5
<1>2. ASSUME NEW k \in Tunnels, DoStop(t, k)
      PROVE  (\E s \in Services : Pool!Drop(t, s)) \/ UNCHANGED Pool!vars
  BY <1>2, PoolDoStop
<1>3. ASSUME StopReturn(t) PROVE Pool!StopEnds(t)
  <2>1. Calls[t] = "stop" /\ Pool!Ends(t, "ok")
    BY <1>0, <1>3, PoolEnds DEF StopReturn, Calls, CallOf
  <2>2. \A u \in Threads : opened'[u] = opened[u]
    BY <1>0, <1>3 DEF StopReturn, Finish, TypeOK, Inv, OpenedApart
  <2> QED
    BY <1>3, <2>1, <2>2, PoolKeeps DEF StopReturn, Pool!StopEnds
<1> QED
  BY <1>1, <1>2, <1>3 DEF Stop, Pool!Step

\* clear(): its iterator is never disturbed, and in the end nothing is connected.
LEMMA PoolClearStep ==
  ASSUME Inv, IsolatedInv, Isolated, NEW t \in Threads, Clear(t)
  PROVE  Pool!Step(t) \/ UNCHANGED Pool!vars
<1>0. TypeOK
  BY DEF Inv
<1>1. ASSUME ClearBegin(t) PROVE Pool!Clear(t)
  <2>1. MayMaintain(t) /\ UNCHANGED <<tunnels, tunnelState, opened, arg>>
    BY <1>1 DEF ClearBegin
  <2>2. Pool!Alone /\ Connection = tunnels /\ UNCHANGED Connection /\ UNCHANGED Given
    BY <2>1, PoolBegins, PoolKeeps
  <2>3. CASE Keys = {}
    <3>1. Pool!Ends(t, "ok")
      BY <1>1, <2>1, <2>3, PoolBegins DEF ClearBegin
    <3>2. \A s \in Services : Connection[s] = None
      BY <2>2, <2>3 DEF Keys
    <3> QED
      BY <2>2, <3>1, <3>2 DEF Pool!Clear
  <2>4. CASE Keys # {}
    <3>1. Goto(t, "collect") /\ UNCHANGED outcome
      BY <1>1, <2>4 DEF ClearBegin
    <3>2. Pool!Becomes(t, "clear", None)
      BY <2>1, <3>1, PoolBegins
    <3>3. ~ \A s \in Services : Connection[s] = None
      BY <2>2, <2>4 DEF Keys
    <3> QED
      BY <2>2, <3>1, <3>2, <3>3 DEF Pool!Clear
  <2> QED
    BY <2>3, <2>4
<1>2. ASSUME NEW s \in Services, ClearVisit(t, s) PROVE UNCHANGED Pool!vars
  BY <1>2, PoolKeeps DEF ClearVisit, Pool!vars, Calls, Asked, CallOf, AskedBy
<1>3. CASE ClearRun(t)
  BY <1>0, <1>3, PoolStutters DEF ClearRun
<1>4. ~ClearRaises(t)
  BY DEF ClearRaises, IsolatedInv, SizeKept
<1>5. CASE ClearJoin(t)
  BY <1>0, <1>5, PoolStutters DEF ClearJoin
<1>6. ASSUME ClearEmpty(t) PROVE Pool!ClearEnds(t)
  <2>1. Calls[t] = "clear" /\ Pool!Ends(t, "ok")
    BY <1>0, <1>6, PoolEnds DEF ClearEmpty, Calls, CallOf
  <2>2. UNCHANGED tunnelState /\ \A u \in Threads : opened'[u] = opened[u]
    BY <1>0, <1>6 DEF ClearEmpty, Finish, TypeOK, Inv, OpenedApart
  <2>3. UNCHANGED Given
    BY <2>2 DEF Given
  <2>4. Connection' = [s \in Services |-> None]
    BY <1>6 DEF ClearEmpty, Connection, Keys
  <2> QED
    BY <2>1, <2>3, <2>4 DEF Pool!ClearEnds
<1> QED
  BY <1>1, <1>2, <1>3, <1>4, <1>5, <1>6 DEF Clear, Pool!Step

\* Every step of the manager.
LEMMA PoolStep ==
  ASSUME Isolated
  PROVE  Inv /\ IsolatedInv /\ [Next]_vars => [Pool!Next]_(Pool!vars)
<1> SUFFICES ASSUME Inv, IsolatedInv, [Next]_vars, ~UNCHANGED Pool!vars PROVE Pool!Next
  OBVIOUS
<1>1. ASSUME UNCHANGED vars PROVE UNCHANGED Pool!vars
  BY <1>1, PoolKeeps DEF vars, Pool!vars, Calls, Asked, CallOf, AskedBy
<1>2. PICK t \in Threads : Get(t) \/ Stop(t) \/ Clear(t)
  BY <1>1 DEF Next
<1>3. Pool!Step(t)
  BY <1>2, PoolGetStep, PoolStopStep, PoolClearStep
<1> QED
  BY <1>3 DEF Pool!Next

\* With maintenance isolated, whatever threads race and whichever tunnel fails to open or
\* to stop, every step of the manager is one of TunnelPool or is not seen by its callers.
THEOREM Implements ==
  ASSUME Isolated
  PROVE  Spec => ImplementsTunnelPool
  BY PoolInit, PoolStep, InvAlways, IsolatedAlways, PTL DEF Spec, ImplementsTunnelPool, Pool!Spec
=============================================================================
