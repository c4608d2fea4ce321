-------------------------- MODULE DeploymentProofs --------------------------
(***************************************************************************)
(* Proofs about what deploys, docker, docker-compose and its registry,     *)
(* workloads of kubernetes, k3s and Rancher, and about the brokers, Kafka  *)
(* and Rabbitmq, for any callers, containers, pods, hosts, topics and      *)
(* builds and any number of faults.  Each module has an inductive          *)
(* invariant Inv; what it implies is an invariant of the composition       *)
(* whenever the module is in focus.                                        *)
(***************************************************************************)
EXTENDS MCHostServices, FiniteSetTheorems, SequenceTheorems, WellFoundedInduction, TLAPS

-----------------------------------------------------------------------------
(* The docker registry.                                                    *)

RegistryDeploys ==
  [at : {"ok", "raised", "start", "run", "tag", "push", "pull", "rename", "untag", "rmi"},
   failing : BOOLEAN, since : Nat, excused : BOOLEAN]

RegistryOk(d) ==
  /\ Registry!Current(d)
  /\ Registry!Alone(d) => Registry!Undisturbed(d)
  /\ v7[d].failing \/ Registry!At(d, "raised") => v7[d].excused
  /\ Registry!At(d, "ok") => ~v7[d].failing

\* A command that works, and one that does not: by what it found, or by a fault.
Works(d, label) ==
  /\ \A e \in Actors \ {d} : v7'[e] = v7[e]
  /\ v7'[d].at = label /\ v7'[d].failing = v7[d].failing
  /\ v7'[d].since = v7[d].since /\ v7'[d].excused = v7[d].excused
  /\ v9' = v9

Breaks(d) ==
  /\ \A e \in Actors \ {d} : v7'[e] = v7[e]
  /\ v7'[d].at = IF v7[d].at \in {"start", "run", "tag", "rmi"} THEN "raised" ELSE "rmi"
  /\ v7'[d].failing /\ v7'[d].since = v7[d].since

LEMMA RegistryCommand ==
  ASSUME v7 \in [Actors -> RegistryDeploys], NEW d \in Actors, NEW can, NEW label,
         Registry!Command(d, can, label)
  PROVE  \/ can /\ Works(d, label)
         \/ ~can /\ Breaks(d) /\ v7'[d].excused = v7[d].excused /\ v9' = v9
         \/ Breaks(d) /\ v7'[d].excused /\ v9 > 0 /\ v9' = v9 - 1
<1>1. CASE can /\ v7' = [v7 EXCEPT ![d].at = label] /\ UNCHANGED v9
  BY <1>1 DEF RegistryDeploys, Works
<1> DEFINE otherwise == IF v7[d].at \in {"start", "run", "tag", "rmi"} THEN "raised" ELSE "rmi"
<1>2. CASE ~can /\ v7' = [v7 EXCEPT ![d].at = otherwise, ![d].failing = TRUE] /\ UNCHANGED v9
  BY <1>2 DEF RegistryDeploys, Breaks
<1>3. CASE /\ v9 > 0 /\ v9' = v9 - 1
           /\ v7' = [v7 EXCEPT ![d].at = otherwise, ![d].failing = TRUE, ![d].excused = TRUE]
  <2> DEFINE new == [v7[d] EXCEPT !.at = otherwise, !.failing = TRUE, !.excused = TRUE]
  <2>1. v7[d] \in RegistryDeploys
    OBVIOUS
  <2>2. new.at = otherwise /\ new.failing /\ new.excused /\ new.since = v7[d].since
    <3> HIDE DEF otherwise
    <3> QED
      BY <2>1 DEF RegistryDeploys
  <2>3. v7' = [v7 EXCEPT ![d] = new]
    BY <1>3
  <2> HIDE DEF new
  <2>4. v7'[d] = new /\ \A e \in Actors \ {d} : v7'[e] = v7[e]
    BY <2>3
  <2> QED
    BY <1>3, <2>2, <2>4 DEF Breaks
<1> QED
  BY <1>1, <1>2, <1>3 DEF Registry!Command

\* The types, each variable on its own.
RegistryTyped ==
  /\ v1 \in 1..MaxBuilds
  /\ v2 \in 0..v1 /\ v4 \in 0..v1 /\ v5 \in 0..v1 /\ v6 \in 0..v1
  /\ v3 \in {"none", "up", "removing"}
  /\ v7 \in [Actors -> RegistryDeploys]
  /\ \A d \in Actors : v7[d].since <= v1
  /\ v8 \in BOOLEAN
  /\ v9 \in 0..MaxFaults

LEMMA RegistryTypes == Registry!TypeOK <=> RegistryTyped
<1>1. ASSUME Registry!TypeOK PROVE RegistryTyped
  <2>1. v7 \in [Actors -> RegistryDeploys] /\ \A d \in Actors : v7[d].since <= v1
    BY <1>1 DEF Registry!TypeOK, RegistryDeploys
  <2> QED
    BY <1>1, <2>1 DEF Registry!TypeOK, RegistryTyped
<1>2. ASSUME RegistryTyped PROVE Registry!TypeOK
  <2>1. v7 \in [Actors ->
         [at : {"ok", "raised", "start", "run", "tag", "push", "pull", "rename", "untag", "rmi"},
          failing : BOOLEAN, since : 0..v1, excused : BOOLEAN]]
    BY <1>2 DEF RegistryTyped, RegistryDeploys
  <2> QED
    BY <1>2, <2>1 DEF Registry!TypeOK, RegistryTyped
<1> QED
  BY <1>1, <1>2

LEMMA RegistryTypesNext == Registry!TypeOK' <=> RegistryTyped'
  BY RegistryTypes, PTL

LEMMA RegistryInit == Registry!Init => Registry!Inv
<1> SUFFICES ASSUME Registry!Init PROVE Registry!Inv
  OBVIOUS
<1>1. v9 \in 0..MaxFaults
  BY BoundsAssumption DEF Registry!Init
<1>2. RegistryTyped
  <2>1. v1 \in 1..MaxBuilds
    BY BoundsAssumption DEF Registry!Init
  <2>2. v7 \in [Actors -> RegistryDeploys]
    BY DEF Registry!Init, RegistryDeploys
  <2>3. ASSUME NEW d \in Actors PROVE v7[d].since <= v1
    <3>1. v7[d].since = 0 /\ v1 = 1
      BY DEF Registry!Init
    <3> QED
      BY <3>1
  <2>4. v2 \in 0..v1 /\ v4 \in 0..v1 /\ v5 \in 0..v1 /\ v6 \in 0..v1
    BY DEF Registry!Init
  <2> QED
    BY <1>1, <2>1, <2>2, <2>3, <2>4 DEF Registry!Init, RegistryTyped
<1>3. ASSUME NEW d \in Actors PROVE RegistryOk(d)
  BY DEF Registry!Init, RegistryOk, Registry!Current, Registry!Alone, Registry!Returned,
     Registry!At, Registry!InTry
<1>4. Registry!TagIsRemoved
  BY DEF Registry!Init, Registry!TagIsRemoved
<1> QED
  BY <1>2, <1>3, <1>4, RegistryTypes DEF Registry!Inv, RegistryOk

\* A step of one deploy: its own state is as it must be, and of what the others rely on it
\* has put in place nothing but later builds; if it is not alone, no deploy is.
LEMMA RegistryOthers ==
  ASSUME RegistryTyped, NEW d \in Actors, NEW e \in Actors \ {d}, RegistryOk(e),
         ~Registry!Returned(d), v7'[e] = v7[e],
         v2' \in {0, v1, v2}, v4' \in {v2, v4}, v5' \in {0, v4, v5},
         v6' = v6 \/ (v6' = v5 /\ v5 # 0), v1' = v1
  PROVE  RegistryOk(e)'
<1>1. ~Registry!Alone(e) /\ (Registry!Alone(e)' <=> Registry!Alone(e))
  BY DEF RegistryOk, Registry!Alone, Registry!Undisturbed, Registry!Returned, Registry!At
<1>2. v7[e].since \in Nat /\ v7[e].since <= v1 /\ v1 \in Nat /\ v2 \in Nat /\ v4 \in Nat
      /\ v5 \in Nat /\ v6 \in Nat
  BY DEF RegistryTyped, RegistryDeploys
<1>3. Registry!Current(e)'
  BY <1>2 DEF RegistryOk, Registry!Current, Registry!InTry, Registry!At
<1> QED
  BY <1>1, <1>3 DEF RegistryOk, Registry!At

\* Every step keeps the types.
LEMMA RegistryType == RegistryTyped /\ Registry!Next => RegistryTyped'
<1> SUFFICES ASSUME RegistryTyped, Registry!Next PROVE RegistryTyped'
  OBVIOUS
<1> DEFINE Labels == {"ok", "raised", "start", "run", "tag", "push", "pull", "rename", "untag", "rmi"}
<1> DEFINE Later == /\ v7' \in [Actors -> RegistryDeploys]
                    /\ \A d \in Actors : v7'[d].since \in {v7[d].since, v1}
                    /\ v9' = v9 \/ (v9 > 0 /\ v9' = v9 - 1)
<1>1. v7 \in [Actors -> RegistryDeploys] /\ v1 \in Nat
  BY DEF RegistryTyped
<1>2. ASSUME NEW d \in Actors, NEW can, NEW label \in Labels, Registry!Command(d, can, label)
      PROVE  Later
  <2>1. \A e \in Actors : v7'[e].since = v7[e].since
    BY <1>1, <1>2, RegistryCommand DEF Works, Breaks
  <2>2. v7' \in [Actors -> RegistryDeploys] /\ (v9' = v9 \/ (v9 > 0 /\ v9' = v9 - 1))
    BY <1>1, <1>2 DEF Registry!Command, RegistryDeploys
  <2> QED
    BY <2>1, <2>2
<1>3. ASSUME Registry!stop PROVE Later
  <2>1. v7' = [d \in Actors |-> IF d \in Registry!UnderWay THEN [v7[d] EXCEPT !.excused = TRUE]
                                 ELSE v7[d]]
    BY <1>3 DEF Registry!stop, Registry!Excuse
  <2>2. ASSUME NEW d \in Actors
        PROVE  v7'[d] \in RegistryDeploys /\ v7'[d].since = v7[d].since
    BY <1>1, <2>1 DEF RegistryDeploys
  <2> QED
    BY <1>3, <2>1, <2>2 DEF Registry!stop
<1>4. ASSUME NEW c \in Actors, Registry!Begin(c) PROVE Later
  <2> DEFINE New == [at |-> "start", failing |-> FALSE, since |-> v1, excused |-> Registry!UnderWay # {}]
  <2>1. v7' = [d \in Actors |-> IF d = c THEN New ELSE
                 IF d \in Registry!UnderWay THEN [v7[d] EXCEPT !.excused = TRUE] ELSE v7[d]]
    BY <1>4 DEF Registry!Begin, Registry!Excuse
  <2>2. New \in RegistryDeploys /\ New.since = v1
    BY <1>1 DEF RegistryDeploys
  <2> HIDE DEF New
  <2>3. ASSUME NEW d \in Actors
        PROVE  v7'[d] \in RegistryDeploys /\ v7'[d].since \in {v7[d].since, v1}
    BY <1>1, <2>1, <2>2 DEF RegistryDeploys
  <2> QED
    BY <1>4, <2>1, <2>3 DEF Registry!Begin
<1>5. ASSUME NEW d \in Actors, Registry!NameStillTaken(d) PROVE Later
  <2> DEFINE new == [v7[d] EXCEPT !.at = "raised", !.failing = TRUE, !.excused = TRUE]
  <2>1. v7' = [v7 EXCEPT ![d] = new] /\ v9' = v9
    BY <1>1, <1>5 DEF Registry!NameStillTaken
  <2>2. new \in RegistryDeploys /\ new.since = v7[d].since
    BY <1>1 DEF RegistryDeploys
  <2> HIDE DEF new
  <2>3. ASSUME NEW e \in Actors PROVE v7'[e].since = v7[e].since
    BY <1>1, <2>1, <2>2
  <2> QED
    BY <1>1, <2>1, <2>2, <2>3
<1>6. ASSUME NEW d \in Actors,
             \/ Registry!Start(d) \/ Registry!RunRegistry(d) \/ Registry!Tag(d) \/ Registry!Push(d)
             \/ Registry!Pull(d) \/ Registry!TagOnRemote(d) \/ Registry!RemoveOnRemote(d)
             \/ Registry!RemoveTemp(d)
      PROVE  Later
  <2> HIDE DEF Later
  <2> QED
    BY <1>2, <1>6
    DEF Registry!Start, Registry!RunRegistry, Registry!Tag, Registry!Push, Registry!Pull,
        Registry!TagOnRemote, Registry!RemoveOnRemote, Registry!RemoveTemp
<1>7. CASE Registry!Rebuild \/ Registry!AutoRemove
  <2>1. v1' \in 1..MaxBuilds /\ v1 <= v1'
    BY <1>7, BoundsAssumption DEF Registry!Rebuild, Registry!AutoRemove, Registry!images, RegistryTyped
  <2>2. UNCHANGED <<v2, v4, v5, v6, v7, v8, v9>> /\ v3' \in {"none", "up", "removing"}
    BY <1>7 DEF Registry!Rebuild, Registry!AutoRemove, Registry!images, RegistryTyped
  <2>3. ASSUME NEW d \in Actors PROVE v7'[d].since <= v1'
    BY <1>1, <2>1, <2>2 DEF RegistryTyped, RegistryDeploys
  <2>4. ASSUME NEW n \in 0..v1 PROVE n \in 0..v1'
    BY <1>1, <2>1
  <2> QED
    BY <2>1, <2>2, <2>3, <2>4 DEF RegistryTyped
<1>8. ASSUME Later PROVE v9' \in 0..MaxFaults
  BY <1>8, BoundsAssumption DEF RegistryTyped
<1>9. CASE Registry!stop
  <2>1. Later
    BY <1>3, <1>9
  <2> QED
    BY <1>8, <1>9, <2>1 DEF Registry!stop, RegistryTyped
<1>10. CASE \E d \in Actors :
             \/ Registry!Begin(d) \/ Registry!NameStillTaken(d)
             \/ Registry!Start(d) \/ Registry!RunRegistry(d) \/ Registry!Tag(d) \/ Registry!Push(d)
             \/ Registry!Pull(d) \/ Registry!TagOnRemote(d) \/ Registry!RemoveOnRemote(d)
             \/ Registry!RemoveTemp(d)
  <2>1. Later
    <3> HIDE DEF Later
    <3> QED
      BY <1>4, <1>5, <1>6, <1>10
  <2>2. /\ v1' = v1 /\ v2' \in {0, v1, v2} /\ v4' \in {v2, v4} /\ v5' \in {0, v4, v5} /\ v6' \in {v5, v6}
        /\ v3' \in {"none", "up", "removing"} /\ v8' \in BOOLEAN
    BY <1>10 DEF RegistryTyped, Registry!Begin, Registry!NameStillTaken, Registry!Start,
       Registry!RunRegistry, Registry!Tag, Registry!Push, Registry!Pull, Registry!TagOnRemote,
       Registry!RemoveOnRemote, Registry!RemoveTemp, Registry!images
  <2> QED
    BY <1>8, <2>1, <2>2 DEF RegistryTyped
<1> QED
  BY <1>7, <1>9, <1>10 DEF Registry!Next

\* What a step of one deploy brings about.
RegistryBrings(d) ==
  /\ v1' = v1 /\ v2' \in {0, v1, v2} /\ v4' \in {v2, v4} /\ v5' \in {0, v4, v5}
  /\ v6' = v6 \/ (v6' = v5 /\ v5 # 0)
  /\ \A e \in Actors \ {d} : v7'[e] = v7[e]
  /\ \/ v2' = 0 \/ v8' \/ Registry!InTry(d)'
     \/ v2' = v2 /\ v8' = v8 /\ ~Registry!InTry(d)
  /\ RegistryOk(d)'

LEMMA RegistryStart ==
  ASSUME RegistryTyped, NEW d \in Actors, RegistryOk(d), Registry!Start(d)
  PROVE  RegistryBrings(d)
<1> DEFINE label == IF v3 = "up" THEN "tag" ELSE "run"
<1>1. /\ v7[d] \in RegistryDeploys /\ v3 \in {"none", "up", "removing"}
      /\ v1 \in Nat \ {0} /\ v2 \in Nat /\ v4 \in Nat /\ v5 \in Nat /\ v6 \in Nat /\ v9 \in Nat
      /\ v7[d].since <= v1
  BY BoundsAssumption DEF RegistryTyped
<1>2. \/ TRUE /\ Works(d, label)
      \/ ~(TRUE) /\ Breaks(d) /\ v7'[d].excused = v7[d].excused /\ v9' = v9
      \/ Breaks(d) /\ v7'[d].excused /\ v9 > 0 /\ v9' = v9 - 1
  BY RegistryCommand DEF RegistryTyped, Registry!Start
<1> HIDE DEF label
<1> USE <1>1 DEF RegistryBrings, RegistryOk, Registry!Start, Registry!images, Registry!InTry, Registry!At,
        Registry!Alone, Registry!Returned, Registry!Undisturbed, Registry!Current, Registry!Done
<1>3. CASE TRUE /\ Works(d, label)
  BY <1>3 DEF Works, label
<1>4. CASE Breaks(d) /\ ~(TRUE) /\ v7'[d].excused = v7[d].excused /\ v9' = v9
  BY <1>4 DEF Breaks
<1>5. CASE Breaks(d) /\ v7'[d].excused /\ v9 > 0 /\ v9' = v9 - 1
  BY <1>5 DEF Breaks
<1> QED
  BY <1>2, <1>3, <1>4, <1>5

LEMMA RegistryRunRegistry ==
  ASSUME RegistryTyped, NEW d \in Actors, RegistryOk(d), Registry!RunRegistry(d)
  PROVE  RegistryBrings(d)
<1> DEFINE label == "tag"
<1>1. /\ v7[d] \in RegistryDeploys /\ v3 \in {"none", "up", "removing"}
      /\ v1 \in Nat \ {0} /\ v2 \in Nat /\ v4 \in Nat /\ v5 \in Nat /\ v6 \in Nat /\ v9 \in Nat
      /\ v7[d].since <= v1
  BY BoundsAssumption DEF RegistryTyped
<1>2. \/ v3 = "none" /\ Works(d, label)
      \/ ~(v3 = "none") /\ Breaks(d) /\ v7'[d].excused = v7[d].excused /\ v9' = v9
      \/ Breaks(d) /\ v7'[d].excused /\ v9 > 0 /\ v9' = v9 - 1
  BY RegistryCommand DEF RegistryTyped, Registry!RunRegistry
<1> HIDE DEF label
<1> USE <1>1 DEF RegistryBrings, RegistryOk, Registry!RunRegistry, Registry!images, Registry!InTry, Registry!At,
        Registry!Alone, Registry!Returned, Registry!Undisturbed, Registry!Current, Registry!Done
<1>3. CASE v3 = "none" /\ Works(d, label)
  BY <1>3 DEF Works, label
<1>4. CASE Breaks(d) /\ ~(v3 = "none") /\ v7'[d].excused = v7[d].excused /\ v9' = v9
  BY <1>4 DEF Breaks
<1>5. CASE Breaks(d) /\ v7'[d].excused /\ v9 > 0 /\ v9' = v9 - 1
  BY <1>5 DEF Breaks
<1> QED
  BY <1>2, <1>3, <1>4, <1>5

LEMMA RegistryTag ==
  ASSUME RegistryTyped, NEW d \in Actors, RegistryOk(d), Registry!Tag(d)
  PROVE  RegistryBrings(d)
<1> DEFINE label == "push"
<1>1. /\ v7[d] \in RegistryDeploys /\ v3 \in {"none", "up", "removing"}
      /\ v1 \in Nat \ {0} /\ v2 \in Nat /\ v4 \in Nat /\ v5 \in Nat /\ v6 \in Nat /\ v9 \in Nat
      /\ v7[d].since <= v1
  BY BoundsAssumption DEF RegistryTyped
<1>2. \/ TRUE /\ Works(d, label)
      \/ ~(TRUE) /\ Breaks(d) /\ v7'[d].excused = v7[d].excused /\ v9' = v9
      \/ Breaks(d) /\ v7'[d].excused /\ v9 > 0 /\ v9' = v9 - 1
  BY RegistryCommand DEF RegistryTyped, Registry!Tag
<1> HIDE DEF label
<1> USE <1>1 DEF RegistryBrings, RegistryOk, Registry!Tag, Registry!images, Registry!InTry, Registry!At,
        Registry!Alone, Registry!Returned, Registry!Undisturbed, Registry!Current, Registry!Done
<1>3. CASE TRUE /\ Works(d, label)
  BY <1>3 DEF Works, label
<1>4. CASE Breaks(d) /\ ~(TRUE) /\ v7'[d].excused = v7[d].excused /\ v9' = v9
  BY <1>4 DEF Breaks
<1>5. CASE Breaks(d) /\ v7'[d].excused /\ v9 > 0 /\ v9' = v9 - 1
  BY <1>5 DEF Breaks
<1> QED
  BY <1>2, <1>3, <1>4, <1>5

LEMMA RegistryPush ==
  ASSUME RegistryTyped, NEW d \in Actors, RegistryOk(d), Registry!Push(d)
  PROVE  RegistryBrings(d)
<1> DEFINE label == "pull"
<1>1. /\ v7[d] \in RegistryDeploys /\ v3 \in {"none", "up", "removing"}
      /\ v1 \in Nat \ {0} /\ v2 \in Nat /\ v4 \in Nat /\ v5 \in Nat /\ v6 \in Nat /\ v9 \in Nat
      /\ v7[d].since <= v1
  BY BoundsAssumption DEF RegistryTyped
<1>2. \/ v2 # 0 /\ v3 = "up" /\ Works(d, label)
      \/ ~(v2 # 0 /\ v3 = "up") /\ Breaks(d) /\ v7'[d].excused = v7[d].excused /\ v9' = v9
      \/ Breaks(d) /\ v7'[d].excused /\ v9 > 0 /\ v9' = v9 - 1
  BY RegistryCommand DEF RegistryTyped, Registry!Push
<1> HIDE DEF label
<1> USE <1>1 DEF RegistryBrings, RegistryOk, Registry!Push, Registry!images, Registry!InTry, Registry!At,
        Registry!Alone, Registry!Returned, Registry!Undisturbed, Registry!Current, Registry!Done
<1>3. CASE v2 # 0 /\ v3 = "up" /\ Works(d, label)
  BY <1>3 DEF Works, label
<1>4. CASE Breaks(d) /\ ~(v2 # 0 /\ v3 = "up") /\ v7'[d].excused = v7[d].excused /\ v9' = v9
  BY <1>4 DEF Breaks
<1>5. CASE Breaks(d) /\ v7'[d].excused /\ v9 > 0 /\ v9' = v9 - 1
  BY <1>5 DEF Breaks
<1> QED
  BY <1>2, <1>3, <1>4, <1>5

LEMMA RegistryPull ==
  ASSUME RegistryTyped, NEW d \in Actors, RegistryOk(d), Registry!Pull(d)
  PROVE  RegistryBrings(d)
<1> DEFINE label == "rename"
<1>1. /\ v7[d] \in RegistryDeploys /\ v3 \in {"none", "up", "removing"}
      /\ v1 \in Nat \ {0} /\ v2 \in Nat /\ v4 \in Nat /\ v5 \in Nat /\ v6 \in Nat /\ v9 \in Nat
      /\ v7[d].since <= v1
  BY BoundsAssumption DEF RegistryTyped
<1>2. \/ v4 # 0 /\ v3 = "up" /\ Works(d, label)
      \/ ~(v4 # 0 /\ v3 = "up") /\ Breaks(d) /\ v7'[d].excused = v7[d].excused /\ v9' = v9
      \/ Breaks(d) /\ v7'[d].excused /\ v9 > 0 /\ v9' = v9 - 1
  BY RegistryCommand DEF RegistryTyped, Registry!Pull
<1> HIDE DEF label
<1> USE <1>1 DEF RegistryBrings, RegistryOk, Registry!Pull, Registry!images, Registry!InTry, Registry!At,
        Registry!Alone, Registry!Returned, Registry!Undisturbed, Registry!Current, Registry!Done
<1>3. CASE v4 # 0 /\ v3 = "up" /\ Works(d, label)
  BY <1>3 DEF Works, label
<1>4. CASE Breaks(d) /\ ~(v4 # 0 /\ v3 = "up") /\ v7'[d].excused = v7[d].excused /\ v9' = v9
  BY <1>4 DEF Breaks
<1>5. CASE Breaks(d) /\ v7'[d].excused /\ v9 > 0 /\ v9' = v9 - 1
  BY <1>5 DEF Breaks
<1> QED
  BY <1>2, <1>3, <1>4, <1>5

LEMMA RegistryTagOnRemote ==
  ASSUME RegistryTyped, NEW d \in Actors, RegistryOk(d), Registry!TagOnRemote(d)
  PROVE  RegistryBrings(d)
<1> DEFINE label == "untag"
<1>1. /\ v7[d] \in RegistryDeploys /\ v3 \in {"none", "up", "removing"}
      /\ v1 \in Nat \ {0} /\ v2 \in Nat /\ v4 \in Nat /\ v5 \in Nat /\ v6 \in Nat /\ v9 \in Nat
      /\ v7[d].since <= v1
  BY BoundsAssumption DEF RegistryTyped
<1>2. \/ v5 # 0 /\ Works(d, label)
      \/ ~(v5 # 0) /\ Breaks(d) /\ v7'[d].excused = v7[d].excused /\ v9' = v9
      \/ Breaks(d) /\ v7'[d].excused /\ v9 > 0 /\ v9' = v9 - 1
  BY RegistryCommand DEF RegistryTyped, Registry!TagOnRemote
<1> HIDE DEF label
<1> USE <1>1 DEF RegistryBrings, RegistryOk, Registry!TagOnRemote, Registry!images, Registry!InTry, Registry!At,
        Registry!Alone, Registry!Returned, Registry!Undisturbed, Registry!Current, Registry!Done
<1>3. CASE v5 # 0 /\ Works(d, label)
  BY <1>3 DEF Works, label
<1>4. CASE Breaks(d) /\ ~(v5 # 0) /\ v7'[d].excused = v7[d].excused /\ v9' = v9
  BY <1>4 DEF Breaks
<1>5. CASE Breaks(d) /\ v7'[d].excused /\ v9 > 0 /\ v9' = v9 - 1
  BY <1>5 DEF Breaks
<1> QED
  BY <1>2, <1>3, <1>4, <1>5

LEMMA RegistryRemoveOnRemote ==
  ASSUME RegistryTyped, NEW d \in Actors, RegistryOk(d), Registry!RemoveOnRemote(d)
  PROVE  RegistryBrings(d)
<1> DEFINE label == "rmi"
<1>1. /\ v7[d] \in RegistryDeploys /\ v3 \in {"none", "up", "removing"}
      /\ v1 \in Nat \ {0} /\ v2 \in Nat /\ v4 \in Nat /\ v5 \in Nat /\ v6 \in Nat /\ v9 \in Nat
      /\ v7[d].since <= v1
  BY BoundsAssumption DEF RegistryTyped
<1>2. \/ v5 # 0 /\ Works(d, label)
      \/ ~(v5 # 0) /\ Breaks(d) /\ v7'[d].excused = v7[d].excused /\ v9' = v9
      \/ Breaks(d) /\ v7'[d].excused /\ v9 > 0 /\ v9' = v9 - 1
  BY RegistryCommand DEF RegistryTyped, Registry!RemoveOnRemote
<1> HIDE DEF label
<1> USE <1>1 DEF RegistryBrings, RegistryOk, Registry!RemoveOnRemote, Registry!images, Registry!InTry, Registry!At,
        Registry!Alone, Registry!Returned, Registry!Undisturbed, Registry!Current, Registry!Done
<1>3. CASE v5 # 0 /\ Works(d, label)
  BY <1>3 DEF Works, label
<1>4. CASE Breaks(d) /\ ~(v5 # 0) /\ v7'[d].excused = v7[d].excused /\ v9' = v9
  BY <1>4 DEF Breaks
<1>5. CASE Breaks(d) /\ v7'[d].excused /\ v9 > 0 /\ v9' = v9 - 1
  BY <1>5 DEF Breaks
<1> QED
  BY <1>2, <1>3, <1>4, <1>5

LEMMA RegistryRemoveTemp ==
  ASSUME RegistryTyped, NEW d \in Actors, RegistryOk(d), Registry!RemoveTemp(d)
  PROVE  RegistryBrings(d)
<1> DEFINE label == IF v7[d].failing THEN "raised" ELSE "ok"
<1>1. /\ v7[d] \in RegistryDeploys /\ v3 \in {"none", "up", "removing"}
      /\ v1 \in Nat \ {0} /\ v2 \in Nat /\ v4 \in Nat /\ v5 \in Nat /\ v6 \in Nat /\ v9 \in Nat
      /\ v7[d].since <= v1
  BY BoundsAssumption DEF RegistryTyped
<1>2. \/ v2 # 0 /\ Works(d, label)
      \/ ~(v2 # 0) /\ Breaks(d) /\ v7'[d].excused = v7[d].excused /\ v9' = v9
      \/ Breaks(d) /\ v7'[d].excused /\ v9 > 0 /\ v9' = v9 - 1
  BY RegistryCommand DEF RegistryTyped, Registry!RemoveTemp
<1> HIDE DEF label
<1> USE <1>1 DEF RegistryBrings, RegistryOk, Registry!RemoveTemp, Registry!images, Registry!InTry, Registry!At,
        Registry!Alone, Registry!Returned, Registry!Undisturbed, Registry!Current, Registry!Done
<1>3. CASE v2 # 0 /\ Works(d, label)
  BY <1>3 DEF Works, label
<1>4. CASE Breaks(d) /\ ~(v2 # 0) /\ v7'[d].excused = v7[d].excused /\ v9' = v9
  BY <1>4 DEF Breaks
<1>5. CASE Breaks(d) /\ v7'[d].excused /\ v9 > 0 /\ v9' = v9 - 1
  BY <1>5 DEF Breaks
<1> QED
  BY <1>2, <1>3, <1>4, <1>5

LEMMA RegistryNameStillTaken ==
  ASSUME RegistryTyped, NEW d \in Actors, RegistryOk(d), Registry!NameStillTaken(d)
  PROVE  RegistryBrings(d)
<1>1. v7 \in [Actors -> RegistryDeploys]
  BY DEF RegistryTyped
<1>2. /\ \A e \in Actors \ {d} : v7'[e] = v7[e]
      /\ v7'[d].at = "raised" /\ v7'[d].failing /\ v7'[d].excused
  BY <1>1 DEF Registry!NameStillTaken, RegistryDeploys
<1> QED
  BY <1>2 DEF Registry!NameStillTaken, Registry!images, RegistryBrings, RegistryOk, Registry!InTry,
     Registry!At, Registry!Alone, Registry!Current

\* A new deploy excuses those under way, and is excused if there are any.
LEMMA RegistryBegin ==
  ASSUME RegistryTyped, \A e \in Actors : RegistryOk(e), NEW d \in Actors, Registry!Begin(d)
  PROVE  /\ \A e \in Actors : RegistryOk(e)' /\ (Registry!InTry(e) => Registry!InTry(e)')
         /\ UNCHANGED <<v1, v2, v3, v4, v5, v6, v8>>
<1>1. v7 \in [Actors -> RegistryDeploys]
  BY DEF RegistryTyped
<1>2. UNCHANGED <<v1, v2, v3, v4, v5, v6, v8>>
  BY DEF Registry!Begin, Registry!images
<1>3. /\ v7'[d].at = "start" /\ ~v7'[d].failing
      /\ v7'[d].excused <=> \E e \in Actors : ~Registry!Returned(e)
  BY <1>1 DEF Registry!Begin, Registry!Excuse, Registry!UnderWay
<1>4. ASSUME NEW e \in Actors, e # d
      PROVE  /\ v7'[e].at = v7[e].at /\ v7'[e].failing = v7[e].failing /\ v7'[e].since = v7[e].since
             /\ v7'[e].excused = (v7[e].excused \/ ~Registry!Returned(e))
  BY <1>1, <1>4 DEF Registry!Begin, Registry!Excuse, Registry!UnderWay, RegistryDeploys
<1>5. Registry!Returned(d)
  BY DEF Registry!Begin
<1>6. ASSUME NEW e \in Actors, e # d
      PROVE  RegistryOk(e)' /\ (Registry!InTry(e) => Registry!InTry(e)')
  BY <1>2, <1>4, <1>6 DEF RegistryOk, Registry!Current, Registry!Alone, Registry!InTry, Registry!At,
     Registry!Returned
<1>7. RegistryOk(d)' /\ ~Registry!InTry(d)
  BY <1>3, <1>4, <1>5 DEF RegistryOk, Registry!Current, Registry!Alone, Registry!Undisturbed,
     Registry!InTry, Registry!At, Registry!Returned
<1> QED
  BY <1>2, <1>6, <1>7

LEMMA RegistryStop ==
  ASSUME RegistryTyped, NEW d \in Actors, RegistryOk(d), Registry!stop
  PROVE  RegistryOk(d)' /\ (Registry!InTry(d) => Registry!InTry(d)')
<1>1. /\ v7'[d].at = v7[d].at /\ v7'[d].failing = v7[d].failing /\ v7'[d].since = v7[d].since
      /\ v7'[d].excused = (v7[d].excused \/ ~Registry!Returned(d))
  BY DEF RegistryTyped, Registry!stop, Registry!Excuse, Registry!UnderWay, RegistryDeploys
<1> QED
  BY <1>1 DEF Registry!stop, RegistryOk, Registry!Current, Registry!Alone, Registry!InTry,
     Registry!At, Registry!Returned

\* The host: the image is rebuilt, and the container of the registry goes.
LEMMA RegistryHost ==
  ASSUME RegistryTyped, NEW d \in Actors, RegistryOk(d), Registry!Rebuild \/ Registry!AutoRemove
  PROVE  RegistryOk(d)' /\ (Registry!InTry(d) => Registry!InTry(d)')
<1>1. UNCHANGED <<v2, v4, v5, v6, v7>> /\ (v3' = v3 \/ (v3 = "removing" /\ v3' = "none"))
  BY DEF Registry!Rebuild, Registry!AutoRemove, Registry!images
<1> QED
  BY <1>1 DEF RegistryOk, Registry!Current, Registry!Alone, Registry!Undisturbed, Registry!InTry,
     Registry!At, Registry!Returned

LEMMA RegistryStep == Registry!Inv /\ Registry!Next => Registry!Inv'
<1> SUFFICES ASSUME Registry!Inv, Registry!Next PROVE Registry!Inv'
  OBVIOUS
<1>1. /\ RegistryTyped /\ Registry!TagIsRemoved
      /\ \A d \in Actors : RegistryOk(d)
  BY RegistryTypes DEF Registry!Inv, RegistryOk
<1>2. Registry!TypeOK'
  BY <1>1, RegistryType, RegistryTypesNext
<1>3. ASSUME Registry!TagIsRemoved', \A d \in Actors : RegistryOk(d)' PROVE Registry!Inv'
  BY <1>2, <1>3 DEF Registry!Inv, RegistryOk
<1>4. ASSUME NEW d \in Actors,
             \/ Registry!Start(d) \/ Registry!RunRegistry(d) \/ Registry!NameStillTaken(d)
             \/ Registry!Tag(d) \/ Registry!Push(d) \/ Registry!Pull(d) \/ Registry!TagOnRemote(d)
             \/ Registry!RemoveOnRemote(d) \/ Registry!RemoveTemp(d)
      PROVE  Registry!Inv'
  <2>1. RegistryBrings(d)
    BY <1>1, <1>4, RegistryStart, RegistryRunRegistry, RegistryNameStillTaken, RegistryTag,
       RegistryPush, RegistryPull, RegistryTagOnRemote, RegistryRemoveOnRemote, RegistryRemoveTemp
  <2>2. ~Registry!Returned(d)
    BY <1>4 DEF Registry!Start, Registry!RunRegistry, Registry!NameStillTaken, Registry!Tag,
       Registry!Push, Registry!Pull, Registry!TagOnRemote, Registry!RemoveOnRemote,
       Registry!RemoveTemp, Registry!Returned, Registry!At
  <2>3. ASSUME NEW e \in Actors \ {d} PROVE RegistryOk(e)'
    BY <1>1, <2>1, <2>2, RegistryOthers DEF RegistryBrings
  <2>4. ASSUME NEW e \in Actors \ {d} PROVE Registry!InTry(e)' <=> Registry!InTry(e)
    BY <2>1 DEF RegistryBrings, Registry!InTry
  <2>5. Registry!TagIsRemoved'
    BY <1>1, <2>1, <2>4 DEF RegistryBrings, Registry!TagIsRemoved
  <2> QED
    BY <1>3, <2>1, <2>3, <2>5 DEF RegistryBrings
<1>5. ASSUME NEW d \in Actors, Registry!Begin(d) PROVE Registry!Inv'
  <2>1. /\ \A e \in Actors : RegistryOk(e)' /\ (Registry!InTry(e) => Registry!InTry(e)')
        /\ UNCHANGED <<v2, v8>>
    BY <1>1, <1>5, RegistryBegin
  <2> QED
    BY <1>1, <1>3, <2>1 DEF Registry!TagIsRemoved
<1>6. CASE Registry!stop \/ Registry!Rebuild \/ Registry!AutoRemove
  <2>1. \A d \in Actors : RegistryOk(d)' /\ (Registry!InTry(d) => Registry!InTry(d)')
    BY <1>1, <1>6, RegistryStop, RegistryHost
  <2>2. UNCHANGED <<v2, v8>>
    BY <1>6 DEF Registry!stop, Registry!Rebuild, Registry!AutoRemove, Registry!images
  <2> QED
    BY <1>1, <1>3, <2>1, <2>2 DEF Registry!TagIsRemoved
<1> QED
  BY <1>4, <1>5, <1>6 DEF Registry!Next

LEMMA RegistrySafe == Registry!Inv => Registry!DeploysAreCurrent
<1> SUFFICES ASSUME Registry!Inv PROVE Registry!DeploysAreCurrent
  OBVIOUS
<1>1. ASSUME NEW d \in Actors
      PROVE  /\ Registry!At(d, "ok") => v6 >= v7[d].since
             /\ Registry!At(d, "raised") => v7[d].excused
  BY DEF Registry!Inv, Registry!Current, Registry!At
<1>2. Registry!UnderWay = {} => v2 = 0 \/ v8
  BY DEF Registry!Inv, Registry!TagIsRemoved, Registry!UnderWay, Registry!InTry, Registry!Returned
<1> QED
  BY <1>1, <1>2 DEF Registry!DeploysAreCurrent

\* Nothing of a registry changes when nothing changes.
LEMMA RegistryStutter == Registry!Inv /\ UNCHANGED vars => Registry!Inv'
<1> SUFFICES ASSUME Registry!Inv, UNCHANGED vars PROVE Registry!Inv'
  OBVIOUS
<1>1. UNCHANGED <<v1, v2, v3, v4, v5, v6, v7, v8, v9>>
  BY DEF vars
<1>2. RegistryTyped /\ \A d \in Actors : RegistryOk(d)
  BY RegistryTypes DEF Registry!Inv, RegistryOk
<1>3. RegistryTyped'
  BY <1>1, <1>2 DEF RegistryTyped
<1>4. ASSUME NEW d \in Actors
      PROVE  RegistryOk(d)' /\ (Registry!InTry(d) => Registry!InTry(d)')
  BY <1>1, <1>2 DEF RegistryOk, Registry!Current, Registry!Alone, Registry!Undisturbed,
     Registry!InTry, Registry!At, Registry!Returned
<1>5. Registry!TagIsRemoved'
  BY <1>1, <1>4 DEF Registry!Inv, Registry!TagIsRemoved
<1> QED
  BY <1>3, <1>4, <1>5, RegistryTypesNext DEF Registry!Inv, RegistryOk

LEMMA RegistryAlways == Spec => [](focus = "registry" => Registry!Inv)
<1> DEFINE Holds == focus = "registry" => Registry!Inv
<1>1. Init => Holds
  BY RegistryInit DEF Init
<1>2. Holds /\ [Next]_vars => Holds'
  <2>1. ASSUME Holds, Next, focus' = "registry" PROVE Registry!Inv'
    BY <2>1, RegistryStep DEF Next
  <2>2. ASSUME Holds, UNCHANGED vars, focus' = "registry" PROVE Registry!Inv'
    BY <2>2, RegistryStutter DEF vars
  <2> QED
    BY <2>1, <2>2
<1> QED
  BY <1>1, <1>2, PTL DEF Spec

\* A deploy that returns has left the image of its own time or a later one on the host,
\* fails only for a cause, and leaves no temporary tag behind, for any number of deploys
\* at the same time, of rebuilds and of commands that fail.
THEOREM DeploysStayCurrent == Spec => []DeploysAreCurrent
<1> DEFINE Holds == focus = "registry" => Registry!Inv
<1>1. Holds => DeploysAreCurrent
  BY RegistrySafe DEF DeploysAreCurrent
<1> QED
  BY <1>1, RegistryAlways, PTL

-----------------------------------------------------------------------------
(* A service of docker-compose.                                            *)
ComposeBoxes ==
  [regular : BOOLEAN, policy : {"always", "no"}, given : BOOLEAN, up : BOOLEAN]

\* The containers of a state, and what else a call may not make of the variables.
ComposeTyped(box) == DOMAIN box \subseteq Boxes /\ \A b \in DOMAIN box : box[b] \in ComposeBoxes

ComposeRest ==
  /\ v2 \in BOOLEAN
  /\ v3 \in {"none", "compose_down", "compose_up", "pull_and_up", "restart_services",
             "recreate_service", "run_sevice_with_environment", "adjust_service_environment"}
  /\ v4 \in {"ok", "raised", "down", "pull", "up", "restart", "inspect", "purge", "create", "run",
             "policy"}
  /\ v5 \in {"always", "no", "unknown"}
  /\ v6 \subseteq Boxes
  /\ v7 \in 0..Tries
  /\ v8 \subseteq {"gone", "policy"}
  /\ v9 \in 0..(MaxFaults + 1)

LEMMA ComposeType == Compose!TypeOK <=> ComposeTyped(v1) /\ ComposeRest
BY DEF Compose!TypeOK, Compose!Ids, ComposeTyped, ComposeRest, ComposeBoxes

LEMMA ComposeTypePrimed == Compose!TypeOK' <=> (ComposeTyped(v1) /\ ComposeRest)'
BY ComposeType, PTL

LEMMA ComposeInit == Compose!Init => Compose!Inv
<1> SUFFICES ASSUME Compose!Init PROVE Compose!Inv
  OBVIOUS
<1>1. DOMAIN v1 = {}
  BY DEF Compose!Init, Compose!Empty
<1>2. ComposeTyped(v1)
  BY <1>1 DEF ComposeTyped
<1>3. ComposeRest
  BY BoundsAssumption DEF Compose!Init, ComposeRest
<1>4. Compose!TypeOK
  BY <1>2, <1>3, ComposeType
<1> QED
  BY <1>1, <1>4 DEF Compose!Init, Compose!Inv, Compose!LabelsOfCall, Compose!Excused,
     Compose!WantedIsExcused, Compose!Replaced, Compose!ServiceKept, Compose!Returned, Compose!Ids

\* A command that fails excuses everything.
LEMMA ComposeRaises ==
  ASSUME Compose!TypeOK', v4' = "raised", v8' = v8 \cup {"gone", "policy"}
  PROVE  Compose!Inv'
BY DEF Compose!Inv, Compose!LabelsOfCall, Compose!Excused, Compose!WantedIsExcused,
   Compose!Replaced, Compose!ServiceKept, Compose!Returned

\* What is left to show of a command is what it does when it succeeds.
LEMMA ComposeCommand ==
  ASSUME Compose!Inv, NEW box2, NEW next, NEW excuse2, Compose!Command(box2, next, excuse2),
         ComposeTyped(box2),
         v2' = v2, v3' = v3, v5' = v5, v6' \subseteq Boxes, v7' = v7,
         v1' = box2 /\ v4' = next /\ v8' = excuse2 /\ v9' = v9 => Compose!Inv'
  PROVE  Compose!Inv'
<1>1. ComposeTyped(v1) /\ ComposeRest
  BY ComposeType DEF Compose!Inv
<1>2. CASE v1' = box2 /\ v4' = next /\ v8' = excuse2 /\ v9' = v9
  BY <1>2
<1>3. CASE /\ v9 > 0 /\ v9' = v9 - 1 /\ v1' \in {v1, box2}
           /\ v4' = "raised" /\ v8' = v8 \cup {"gone", "policy"}
  <2>1. ComposeTyped(v1)'
    BY <1>1, <1>3 DEF ComposeTyped
  <2>2. ComposeRest'
    BY <1>1, <1>3, BoundsAssumption DEF ComposeRest
  <2>3. Compose!TypeOK'
    BY <2>1, <2>2, ComposeTypePrimed
  <2> QED
    BY <1>3, <2>3, ComposeRaises
<1> QED
  BY <1>2, <1>3 DEF Compose!Command

\* The process of a container ends, in a call or between calls.
LEMMA ComposeExit == ASSUME Compose!Inv, NEW b \in Compose!Ids, Compose!Exit(b) PROVE Compose!Inv'
<1>1. ComposeTyped(v1) /\ ComposeRest
  BY ComposeType DEF Compose!Inv
<1>2. /\ DOMAIN v1' = DOMAIN v1
      /\ \A c \in DOMAIN v1 : c # b => v1'[c] = v1[c]
      /\ v1'[b] = [v1[b] EXCEPT !.up = FALSE] /\ b \in DOMAIN v1
  BY DEF Compose!Exit, Compose!Ids
<1>3. /\ v2' = v2 /\ v3' = v3 /\ v4' = v4 /\ v5' = v5 /\ v6' = v6 /\ v7' = v7 /\ v8' = v8
      /\ v9' = v9
  BY DEF Compose!Exit, Compose!call
<1>4. /\ v1'[b] \in ComposeBoxes
      /\ v1'[b].policy = v1[b].policy /\ v1'[b].given = v1[b].given
  <2>1. v1[b] \in ComposeBoxes
    BY <1>1, <1>2 DEF ComposeTyped
  <2> QED
    BY <1>2, <2>1 DEF ComposeBoxes
<1>5. ComposeTyped(v1)'
  BY <1>1, <1>2, <1>4 DEF ComposeTyped
<1>6. ComposeRest'
  BY <1>1, <1>3 DEF ComposeRest
<1>7. Compose!TypeOK'
  BY <1>5, <1>6, ComposeTypePrimed
<1>8. Compose!Ids' = Compose!Ids
  BY <1>2 DEF Compose!Ids
<1>9. ASSUME NEW c \in Compose!Ids
      PROVE  v1'[c].policy = v1[c].policy /\ v1'[c].given = v1[c].given
  BY <1>2, <1>4 DEF Compose!Ids
<1>10. Compose!LabelsOfCall' /\ Compose!WantedIsExcused'
  BY <1>3 DEF Compose!Inv, Compose!LabelsOfCall, Compose!WantedIsExcused
<1>11. Compose!Excused'
  BY <1>3, <1>8, <1>9 DEF Compose!Inv, Compose!Excused
<1>12. Compose!Replaced'
  BY <1>3, <1>8, <1>9 DEF Compose!Inv, Compose!Replaced
<1>13. Compose!ServiceKept'
  <2>1. v4 = "ok" /\ v3 = "adjust_service_environment" =>
          Compose!Ids = v6 /\ \E c \in Compose!Ids : v6 = {c} /\ v1[c].given
    BY DEF Compose!Inv, Compose!ServiceKept
  <2>2. v4' = "ok" /\ v3' = "adjust_service_environment" =>
          Compose!Ids' = v6' /\ \E c \in v6' : v6' = {c} /\ v1'[c].given
    BY <1>3, <1>8, <1>9, <2>1
  <2> QED
    BY <1>3, <1>8, <1>9, <2>2 DEF Compose!Inv, Compose!ServiceKept, Compose!Returned
<1> QED
  BY <1>7, <1>10, <1>11, <1>12, <1>13 DEF Compose!Inv

\* A call begins.
LEMMA ComposeCall ==
  ASSUME Compose!Inv, NEW method, NEW label, NEW policy, Compose!Call(method, label, policy),
         \/ method = "compose_down" /\ label = "down" /\ policy = "unknown"
         \/ method = "compose_up" /\ label = "up" /\ policy = "unknown"
         \/ method = "pull_and_up" /\ label = "down" /\ policy = "unknown"
         \/ method = "restart_services" /\ label = "restart" /\ policy = "unknown"
         \/ method = "recreate_service" /\ label = "purge" /\ policy = "unknown"
         \/ method = "run_sevice_with_environment" /\ label = "run" /\ policy = "no"
         \/ method = "adjust_service_environment" /\ label = "inspect" /\ policy = "unknown"
         \/ /\ method = "adjust_service_environment" /\ label = "purge"
            /\ policy \in {"always", "no"}
  PROVE  Compose!Inv'
<1>1. ComposeTyped(v1) /\ ComposeRest
  BY ComposeType DEF Compose!Inv
<1>2. /\ v4 \in {"ok", "raised"}
      /\ v3' = method /\ v4' = label /\ v5' = policy /\ v6' = {} /\ v7' = 0
      /\ v8' = (IF policy = "no" THEN v8 \cup {"policy"} ELSE v8) /\ v2' = v2 /\ v9' = v9
      /\ v1' = [b \in DOMAIN v1 |-> [v1[b] EXCEPT !.given = FALSE]]
  BY DEF Compose!Call, Compose!Returned, Compose!Ids
<1>3. ASSUME NEW b \in DOMAIN v1 PROVE v1'[b] \in ComposeBoxes /\ v1'[b].policy = v1[b].policy
  <2>1. v1[b] \in ComposeBoxes /\ v1'[b] = [v1[b] EXCEPT !.given = FALSE]
    BY <1>1, <1>2 DEF ComposeTyped
  <2> QED
    BY <2>1 DEF ComposeBoxes
<1>4. DOMAIN v1' = DOMAIN v1
  BY <1>2
<1>5. ComposeTyped(v1)'
  BY <1>1, <1>3, <1>4 DEF ComposeTyped
<1>6. ComposeRest'
  <2>1. v8' \subseteq {"gone", "policy"}
    BY <1>1, <1>2 DEF ComposeRest
  <2> QED
    BY <1>1, <1>2, <2>1, BoundsAssumption DEF ComposeRest
<1>7. Compose!TypeOK'
  BY <1>5, <1>6, ComposeTypePrimed
<1>8. Compose!LabelsOfCall'
  BY <1>2, BoundsAssumption DEF Compose!LabelsOfCall
<1>9. Compose!Excused'
  BY <1>2, <1>3, <1>4 DEF Compose!Inv, Compose!Excused, Compose!Ids
<1>10. Compose!WantedIsExcused' /\ Compose!Replaced' /\ Compose!ServiceKept'
  BY <1>2 DEF Compose!WantedIsExcused, Compose!Replaced, Compose!ServiceKept, Compose!Returned
<1> QED
  BY <1>7, <1>8, <1>9, <1>10 DEF Compose!Inv

LEMMA ComposeDown == ASSUME Compose!Inv, Compose!Down PROVE Compose!Inv'
<1>1. ComposeTyped(v1) /\ ComposeRest
  BY ComposeType DEF Compose!Inv
<1> DEFINE next == IF v3 = "pull_and_up" THEN "pull" ELSE "ok"
<1>2. /\ v4 = "down" /\ v2' = v2 /\ v3' = v3 /\ v5' = v5 /\ v6' = v6 /\ v7' = v7
      /\ Compose!Command(Compose!Empty, next, {"gone"})
  BY DEF Compose!Down
<1>3. DOMAIN Compose!Empty = {}
  BY DEF Compose!Empty
<1>4. ComposeTyped(Compose!Empty)
  BY <1>3 DEF ComposeTyped
<1>5. ASSUME v1' = Compose!Empty, v4' = next, v8' = {"gone"}, v9' = v9 PROVE Compose!Inv'
  <2>1. ComposeTyped(v1)'
    BY <1>3, <1>5 DEF ComposeTyped
  <2>2. ComposeRest'
    BY <1>1, <1>2, <1>5 DEF ComposeRest
  <2>3. Compose!TypeOK'
    BY <2>1, <2>2, ComposeTypePrimed
  <2>4. v3 \in {"compose_down", "pull_and_up"} /\ v7 < Tries
    BY <1>2 DEF Compose!Inv, Compose!LabelsOfCall
  <2> QED
    BY <1>2, <1>3, <1>5, <2>3, <2>4 DEF Compose!Inv, Compose!LabelsOfCall, Compose!Excused,
       Compose!WantedIsExcused, Compose!Replaced, Compose!ServiceKept, Compose!Ids
<1>6. v6' \subseteq Boxes
  BY <1>1, <1>2 DEF ComposeRest
<1> QED
  BY <1>2, <1>4, <1>5, <1>6, ComposeCommand

\* A pull is tried again until the tries are used up.
LEMMA ComposePull == ASSUME Compose!Inv, Compose!Pull PROVE Compose!Inv'
<1>1. ComposeTyped(v1) /\ ComposeRest
  BY ComposeType DEF Compose!Inv
<1>2. v4 = "pull" /\ v1' = v1 /\ v3' = v3 /\ v5' = v5 /\ v6' = v6 /\ v8' = v8
  BY DEF Compose!Pull
<1>3. \/ v2' = TRUE /\ v4' = "up" /\ v7' = v7 /\ v9' = v9
      \/ /\ v9 > 0 /\ v9' = v9 - 1 /\ v7' = v7 + 1 /\ v2' = v2
         /\ v4' = IF v7' = Tries THEN "raised" ELSE "pull"
  BY DEF Compose!Pull
<1>4. v3 = "pull_and_up" /\ v7 < Tries
  BY <1>2 DEF Compose!Inv, Compose!LabelsOfCall
<1>5. v7' \in 0..Tries /\ v9' \in 0..(MaxFaults + 1) /\ (v4' = "pull" => v7' < Tries)
  BY <1>1, <1>3, <1>4, BoundsAssumption DEF ComposeRest
<1>6. ComposeTyped(v1)'
  BY <1>1, <1>2 DEF ComposeTyped
<1>7. v4' \in {"up", "raised", "pull"}
  BY <1>3
<1>8. ComposeRest'
  BY <1>1, <1>2, <1>3, <1>5, <1>7 DEF ComposeRest
<1>9. Compose!TypeOK'
  BY <1>6, <1>8, ComposeTypePrimed
<1>10. Compose!LabelsOfCall'
  BY <1>2, <1>4, <1>5, <1>7 DEF Compose!LabelsOfCall
<1>11. Compose!Excused' /\ Compose!WantedIsExcused' /\ Compose!Replaced' /\ Compose!ServiceKept'
  BY <1>2, <1>7 DEF Compose!Inv, Compose!Excused, Compose!WantedIsExcused, Compose!Replaced,
     Compose!ServiceKept, Compose!Returned, Compose!Ids
<1> QED
  BY <1>9, <1>10, <1>11 DEF Compose!Inv

LEMMA ComposeNewBox ==
  ASSUME NEW regular \in BOOLEAN, NEW up \in BOOLEAN
  PROVE  /\ Compose!NewBox(regular, up) \in ComposeBoxes
         /\ Compose!NewBox(regular, up).policy = IF regular THEN "always" ELSE "no"
         /\ Compose!NewBox(regular, up).given = ~regular
BY DEF Compose!NewBox, ComposeBoxes

LEMMA ComposeWith ==
  ASSUME ComposeTyped(v1), NEW b \in Boxes, NEW x \in ComposeBoxes
  PROVE  /\ ComposeTyped(Compose!With(b, x))
         /\ DOMAIN Compose!With(b, x) = DOMAIN v1 \cup {b}
         /\ Compose!With(b, x)[b] = x
         /\ \A c \in DOMAIN v1 : c # b => Compose!With(b, x)[c] = v1[c]
BY DEF Compose!With, Compose!Ids, ComposeTyped

LEMMA ComposeUp == ASSUME Compose!Inv, Compose!Up PROVE Compose!Inv'
<1>1. ComposeTyped(v1) /\ ComposeRest
  BY ComposeType DEF Compose!Inv
<1>2. PICK b \in Boxes :
        b \notin DOMAIN v1 /\ Compose!Command(Compose!UpBoxes(b), "ok", v8 \ {"gone"})
  BY DEF Compose!Up, Compose!Ids
<1>3. v4 = "up" /\ v2' = v2 /\ v3' = v3 /\ v5' = v5 /\ v6' = v6 /\ v7' = v7
  BY DEF Compose!Up
<1> DEFINE box2 == Compose!UpBoxes(b)
<1>4. /\ ComposeTyped(box2) /\ DOMAIN box2 # {}
      /\ (\E c \in DOMAIN box2 : box2[c].policy = "no") => \E c \in DOMAIN v1 : v1[c].policy = "no"
  <2>1. CASE Compose!Regular = {}
    <3>1. box2 = Compose!With(b, Compose!NewBox(TRUE, TRUE))
      BY <2>1 DEF Compose!UpBoxes
    <3>2. /\ Compose!NewBox(TRUE, TRUE) \in ComposeBoxes
          /\ Compose!NewBox(TRUE, TRUE).policy = "always"
      BY ComposeNewBox
    <3> DEFINE new == Compose!NewBox(TRUE, TRUE)
    <3>3. new \in ComposeBoxes /\ box2 = Compose!With(b, new)
      BY <3>1, <3>2
    <3> HIDE DEF new, box2
    <3>4. /\ ComposeTyped(box2) /\ DOMAIN box2 = DOMAIN v1 \cup {b} /\ box2[b] = new
          /\ \A c \in DOMAIN v1 : c # b => box2[c] = v1[c]
      BY <1>1, <3>3, ComposeWith
    <3>5. new.policy = "always"
      BY <3>2 DEF new
    <3> QED
      BY <3>4, <3>5
  <2>2. CASE Compose!Regular # {}
    <3>1. box2 = [c \in DOMAIN v1 |-> IF c \in Compose!Regular THEN [v1[c] EXCEPT !.up = TRUE]
                                      ELSE v1[c]]
      BY <2>2 DEF Compose!UpBoxes, Compose!Ids
    <3>2. DOMAIN box2 = DOMAIN v1 /\ DOMAIN v1 # {}
      BY <2>2, <3>1 DEF Compose!Regular, Compose!Ids
    <3>3. ASSUME NEW c \in DOMAIN v1
          PROVE  box2[c] \in ComposeBoxes /\ box2[c].policy = v1[c].policy
      <4>1. v1[c] \in ComposeBoxes
        BY <1>1 DEF ComposeTyped
      <4>2. [v1[c] EXCEPT !.up = TRUE] \in ComposeBoxes
        BY <4>1 DEF ComposeBoxes
      <4>3. [v1[c] EXCEPT !.up = TRUE].policy = v1[c].policy
        BY <4>1 DEF ComposeBoxes
      <4> QED
        BY <3>1, <4>1, <4>2, <4>3
    <3> QED
      BY <1>1, <3>2, <3>3 DEF ComposeTyped
  <2> QED
    BY <2>1, <2>2
<1> HIDE DEF box2
<1>5. ASSUME v1' = box2, v4' = "ok", v8' = v8 \ {"gone"}, v9' = v9 PROVE Compose!Inv'
  <2>1. ComposeTyped(v1)'
    BY <1>4, <1>5 DEF ComposeTyped
  <2>2. ComposeRest'
    BY <1>1, <1>3, <1>5 DEF ComposeRest
  <2>3. Compose!TypeOK'
    BY <2>1, <2>2, ComposeTypePrimed
  <2>4. v3 # "adjust_service_environment"
    BY <1>3 DEF Compose!Inv, Compose!LabelsOfCall
  <2>5. (\E c \in DOMAIN v1' : v1'[c].policy = "no") => "policy" \in v8'
    BY <1>3, <1>4, <1>5 DEF Compose!Inv, Compose!Excused, Compose!Ids
  <2>6. DOMAIN v1' # {}
    BY <1>4, <1>5
  <2> QED
    BY <1>3, <1>5, <2>3, <2>4, <2>5, <2>6 DEF Compose!Inv, Compose!LabelsOfCall, Compose!Excused,
       Compose!WantedIsExcused, Compose!Replaced, Compose!ServiceKept, Compose!Ids
<1>6. v6' \subseteq Boxes
  BY <1>1, <1>3 DEF ComposeRest
<1>7. Compose!Command(box2, "ok", v8 \ {"gone"})
  BY <1>2 DEF box2
<1> QED
  BY <1>3, <1>4, <1>5, <1>6, <1>7, ComposeCommand

LEMMA ComposeRestart == ASSUME Compose!Inv, Compose!Restart PROVE Compose!Inv'
<1>1. ComposeTyped(v1) /\ ComposeRest
  BY ComposeType DEF Compose!Inv
<1> DEFINE box2 == [b \in DOMAIN v1 |-> [v1[b] EXCEPT !.up = TRUE]]
<1>2. /\ v4 = "restart" /\ v2' = v2 /\ v3' = v3 /\ v5' = v5 /\ v6' = v6 /\ v7' = v7
      /\ Compose!Command(box2, "ok", v8)
  BY DEF Compose!Restart, Compose!Ids
<1>3. ASSUME NEW c \in DOMAIN v1 PROVE box2[c] \in ComposeBoxes /\ box2[c].policy = v1[c].policy
  <2>1. v1[c] \in ComposeBoxes
    BY <1>1 DEF ComposeTyped
  <2>2. [v1[c] EXCEPT !.up = TRUE] \in ComposeBoxes
    BY <2>1 DEF ComposeBoxes
  <2> QED
    BY <2>1, <2>2 DEF ComposeBoxes
<1>4. DOMAIN box2 = DOMAIN v1
  OBVIOUS
<1> HIDE DEF box2
<1>5. ComposeTyped(box2)
  BY <1>1, <1>3, <1>4 DEF ComposeTyped
<1>6. ASSUME v1' = box2, v4' = "ok", v8' = v8, v9' = v9 PROVE Compose!Inv'
  <2>1. ComposeTyped(v1)'
    BY <1>5, <1>6 DEF ComposeTyped
  <2>2. ComposeRest'
    BY <1>1, <1>2, <1>6 DEF ComposeRest
  <2>3. Compose!TypeOK'
    BY <2>1, <2>2, ComposeTypePrimed
  <2>4. v3 # "adjust_service_environment"
    BY <1>2 DEF Compose!Inv, Compose!LabelsOfCall
  <2>5. (\E c \in DOMAIN v1' : v1'[c].policy = "no") => "policy" \in v8'
    BY <1>2, <1>3, <1>4, <1>6 DEF Compose!Inv, Compose!Excused, Compose!Ids
  <2>6. DOMAIN v1' = {} => "gone" \in v8'
    BY <1>2, <1>4, <1>6 DEF Compose!Inv, Compose!Excused, Compose!Ids
  <2> QED
    BY <1>2, <1>6, <2>3, <2>4, <2>5, <2>6 DEF Compose!Inv, Compose!LabelsOfCall, Compose!Excused,
       Compose!WantedIsExcused, Compose!Replaced, Compose!ServiceKept, Compose!Ids
<1>7. v6' \subseteq Boxes
  BY <1>1, <1>2 DEF ComposeRest
<1> QED
  BY <1>2, <1>5, <1>6, <1>7, ComposeCommand

LEMMA ComposeCardinality == Compose!Cardinality({}) = 0
BY FS_EmptySet DEF Compose!Cardinality, Cardinality

\* The policy it finds is excused if it is not that of the file.
LEMMA ComposeInspect == ASSUME Compose!Inv, Compose!InspectPolicy PROVE Compose!Inv'
<1>1. ComposeTyped(v1) /\ ComposeRest
  BY ComposeType DEF Compose!Inv
<1>2. v4 = "inspect" /\ v1' = v1 /\ v2' = v2 /\ v3' = v3 /\ v6' = v6 /\ v7' = v7 /\ v8' = v8
  BY DEF Compose!InspectPolicy
<1>3. v3 = "adjust_service_environment"
  BY <1>2 DEF Compose!Inv, Compose!LabelsOfCall
<1>4. \/ /\ Compose!Cardinality(DOMAIN v1) = 1 /\ v5' = v1[CHOOSE b \in DOMAIN v1 : TRUE].policy
         /\ v4' = "purge" /\ v9' = v9
      \/ v4' = "raised" /\ v5' = v5 /\ (v9' = v9 \/ (v9 > 0 /\ v9' = v9 - 1))
  BY DEF Compose!InspectPolicy, Compose!Ids
<1>5. /\ v9' \in 0..(MaxFaults + 1) /\ v4' \in {"purge", "raised"}
      /\ v5' = v5 \/ v4' = "purge"
  BY <1>1, <1>4, BoundsAssumption DEF ComposeRest
<1>6. v4' = "purge" => v5' \in {"always", "no"} /\ (v5' = "no" => "policy" \in v8')
  <2> SUFFICES ASSUME v4' = "purge"
               PROVE  v5' \in {"always", "no"} /\ (v5' = "no" => "policy" \in v8')
    OBVIOUS
  <2>1. DOMAIN v1 # {}
    BY <1>4, ComposeCardinality
  <2>2. PICK b \in DOMAIN v1 : v5' = v1[b].policy
    BY <1>4, <2>1
  <2>3. v1[b] \in ComposeBoxes
    BY <1>1 DEF ComposeTyped
  <2>4. v1[b].policy \in {"always", "no"}
    BY <2>3 DEF ComposeBoxes
  <2> QED
    BY <1>2, <2>2, <2>4 DEF Compose!Inv, Compose!Excused, Compose!Ids
<1>7. ComposeTyped(v1)'
  BY <1>1, <1>2 DEF ComposeTyped
<1>8. ComposeRest'
  BY <1>1, <1>2, <1>5, <1>6 DEF ComposeRest
<1>9. Compose!TypeOK'
  BY <1>7, <1>8, ComposeTypePrimed
<1>10. Compose!LabelsOfCall'
  BY <1>2, <1>3, <1>5 DEF Compose!LabelsOfCall
<1>11. Compose!Excused' /\ Compose!Replaced' /\ Compose!ServiceKept'
  BY <1>2, <1>5 DEF Compose!Inv, Compose!Excused, Compose!Replaced, Compose!ServiceKept,
     Compose!Returned, Compose!Ids
<1>12. Compose!WantedIsExcused'
  BY <1>5, <1>6 DEF Compose!WantedIsExcused
<1> QED
  BY <1>9, <1>10, <1>11, <1>12 DEF Compose!Inv

LEMMA ComposePurge == ASSUME Compose!Inv, Compose!Purge PROVE Compose!Inv'
<1>1. ComposeTyped(v1) /\ ComposeRest
  BY ComposeType DEF Compose!Inv
<1> DEFINE next == IF v3 = "recreate_service" THEN "create" ELSE "run"
<1>2. /\ v4 = "purge" /\ v2' = v2 /\ v3' = v3 /\ v5' = v5 /\ v6' = v6 /\ v7' = v7
      /\ Compose!Command(Compose!Empty, next, v8)
  BY DEF Compose!Purge
<1>3. DOMAIN Compose!Empty = {}
  BY DEF Compose!Empty
<1>4. ComposeTyped(Compose!Empty)
  BY <1>3 DEF ComposeTyped
<1>5. ASSUME v1' = Compose!Empty, v4' = next, v8' = v8, v9' = v9 PROVE Compose!Inv'
  <2>1. ComposeTyped(v1)'
    BY <1>3, <1>5 DEF ComposeTyped
  <2>2. ComposeRest'
    BY <1>1, <1>2, <1>5 DEF ComposeRest
  <2>3. Compose!TypeOK'
    BY <2>1, <2>2, ComposeTypePrimed
  <2>4. v3 \in {"recreate_service", "adjust_service_environment"}
    BY <1>2 DEF Compose!Inv, Compose!LabelsOfCall
  <2> QED
    BY <1>2, <1>3, <1>5, <2>3, <2>4 DEF Compose!Inv, Compose!LabelsOfCall, Compose!Excused,
       Compose!WantedIsExcused, Compose!Replaced, Compose!ServiceKept, Compose!Returned, Compose!Ids
<1>6. v6' \subseteq Boxes
  BY <1>1, <1>2 DEF ComposeRest
<1> QED
  BY <1>2, <1>4, <1>5, <1>6, ComposeCommand

LEMMA ComposeCreate == ASSUME Compose!Inv, Compose!Create PROVE Compose!Inv'
<1>1. ComposeTyped(v1) /\ ComposeRest
  BY ComposeType DEF Compose!Inv
<1>2. v4 = "create" /\ v2' = v2 /\ v3' = v3 /\ v5' = v5 /\ v6' = v6 /\ v7' = v7
  BY DEF Compose!Create
<1>3. PICK b \in Boxes : Compose!Command(Compose!With(b, Compose!NewBox(TRUE, FALSE)), "ok", {})
  BY DEF Compose!Create
<1> DEFINE box2 == Compose!With(b, Compose!NewBox(TRUE, FALSE))
<1>4. v3 = "recreate_service" /\ DOMAIN v1 = {}
  BY <1>2 DEF Compose!Inv, Compose!LabelsOfCall, Compose!Replaced, Compose!Ids
<1>5. ComposeTyped(box2) /\ DOMAIN box2 = {b} /\ box2[b].policy = "always"
  BY <1>1, <1>4, ComposeNewBox, ComposeWith
<1> HIDE DEF box2
<1>6. ASSUME v1' = box2, v4' = "ok", v8' = {}, v9' = v9 PROVE Compose!Inv'
  <2>1. ComposeTyped(v1)'
    BY <1>5, <1>6 DEF ComposeTyped
  <2>2. ComposeRest'
    BY <1>1, <1>2, <1>6 DEF ComposeRest
  <2>3. Compose!TypeOK'
    BY <2>1, <2>2, ComposeTypePrimed
  <2>4. DOMAIN v1' # {} /\ ~\E c \in DOMAIN v1' : v1'[c].policy = "no"
    BY <1>5, <1>6
  <2> QED
    BY <1>2, <1>4, <1>6, <2>3, <2>4 DEF Compose!Inv, Compose!LabelsOfCall, Compose!Excused,
       Compose!WantedIsExcused, Compose!Replaced, Compose!ServiceKept, Compose!Ids
<1>7. v6' \subseteq Boxes
  BY <1>1, <1>2 DEF ComposeRest
<1>8. Compose!Command(box2, "ok", {})
  BY <1>3 DEF box2
<1> QED
  BY <1>2, <1>5, <1>6, <1>7, <1>8, ComposeCommand

LEMMA ComposeRun == ASSUME Compose!Inv, Compose!Run PROVE Compose!Inv'
<1>1. ComposeTyped(v1) /\ ComposeRest
  BY ComposeType DEF Compose!Inv
<1>2. v4 = "run" /\ v2' = v2 /\ v3' = v3 /\ v5' = v5 /\ v7' = v7
  BY DEF Compose!Run
<1>3. PICK b \in Boxes :
        /\ Compose!Command(Compose!With(b, Compose!NewBox(FALSE, TRUE)), "policy", v8 \ {"gone"})
        /\ v6' = {b}
  BY DEF Compose!Run
<1> DEFINE box2 == Compose!With(b, Compose!NewBox(FALSE, TRUE))
<1>4. /\ v3 \in {"run_sevice_with_environment", "adjust_service_environment"}
      /\ v3 = "adjust_service_environment" => DOMAIN v1 = {}
      /\ v3 = "run_sevice_with_environment" => v5 = "no"
      /\ v5 # "unknown" /\ (v5 = "no" => "policy" \in v8)
  BY <1>2 DEF Compose!Inv, Compose!LabelsOfCall, Compose!Replaced, Compose!WantedIsExcused,
     Compose!Ids
<1>5. ComposeTyped(box2) /\ DOMAIN box2 = DOMAIN v1 \cup {b} /\ box2[b].given
  BY <1>1, ComposeNewBox, ComposeWith
<1> HIDE DEF box2
<1>6. ASSUME v1' = box2, v4' = "policy", v8' = v8 \ {"gone"}, v9' = v9 PROVE Compose!Inv'
  <2>1. ComposeTyped(v1)'
    BY <1>5, <1>6 DEF ComposeTyped
  <2>2. ComposeRest'
    BY <1>1, <1>2, <1>3, <1>6 DEF ComposeRest
  <2>3. Compose!TypeOK'
    BY <2>1, <2>2, ComposeTypePrimed
  <2>4. Compose!Replaced'
    BY <1>2, <1>3, <1>4, <1>5, <1>6 DEF Compose!Replaced, Compose!Ids
  <2> QED
    BY <1>2, <1>4, <1>6, <2>3, <2>4 DEF Compose!Inv, Compose!LabelsOfCall, Compose!Excused,
       Compose!WantedIsExcused, Compose!ServiceKept, Compose!Returned
<1>7. v6' \subseteq Boxes
  BY <1>3
<1>8. Compose!Command(box2, "policy", v8 \ {"gone"})
  BY <1>3 DEF box2
<1> QED
  BY <1>2, <1>5, <1>6, <1>7, <1>8, ComposeCommand

\* The container of the call gets the policy, or has exited and keeps its own.
LEMMA ComposePolicy == ASSUME Compose!Inv, Compose!ChangeRestartPolicy PROVE Compose!Inv'
<1>1. ComposeTyped(v1) /\ ComposeRest
  BY ComposeType DEF Compose!Inv
<1>2. v4 = "policy" /\ v2' = v2 /\ v3' = v3 /\ v5' = v5 /\ v6' = v6 /\ v7' = v7
  BY DEF Compose!ChangeRestartPolicy
<1>3. PICK b \in DOMAIN v1 : v6 = {b} /\ v1[b].given
  BY <1>2 DEF Compose!Inv, Compose!Replaced, Compose!Ids
<1>4. /\ v3 \in {"run_sevice_with_environment", "adjust_service_environment"}
      /\ v3 = "adjust_service_environment" => DOMAIN v1 = {b}
      /\ v3 = "run_sevice_with_environment" => v5 = "no"
      /\ v5 # "unknown" /\ (v5 = "no" => "policy" \in v8)
  BY <1>2, <1>3 DEF Compose!Inv, Compose!LabelsOfCall, Compose!Replaced, Compose!WantedIsExcused,
     Compose!Ids
<1>5. v6' \subseteq Boxes /\ v5 \in {"always", "no"} /\ v8 \subseteq {"gone", "policy"}
  BY <1>1, <1>2, <1>4 DEF ComposeRest
<1> DEFINE box2 == [c \in DOMAIN v1 |-> IF c \in v6 THEN [v1[c] EXCEPT !.policy = v5] ELSE v1[c]]
<1>6. \/ Compose!Command(box2, "ok", v8)
      \/ v4' = "ok" /\ v8' = v8 \cup {"policy"} /\ v1' = v1 /\ v9' = v9
  BY DEF Compose!ChangeRestartPolicy, Compose!Ids
<1>7. v1[b] \in ComposeBoxes
  BY <1>1 DEF ComposeTyped
<1>8. [v1[b] EXCEPT !.policy = v5] \in ComposeBoxes
  BY <1>5, <1>7 DEF ComposeBoxes
<1>9. /\ DOMAIN box2 = DOMAIN v1
      /\ box2[b] = [v1[b] EXCEPT !.policy = v5]
      /\ \A c \in DOMAIN v1 : c # b => box2[c] = v1[c]
  BY <1>3
<1> HIDE DEF box2
<1>10. ComposeTyped(box2)
  BY <1>1, <1>8, <1>9 DEF ComposeTyped
<1>11. box2[b].policy = v5 /\ box2[b].given
  BY <1>3, <1>7, <1>9 DEF ComposeBoxes
<1>12. ASSUME v4' = "ok", v9' = v9, DOMAIN v1' = DOMAIN v1, ComposeTyped(v1)', v1'[b].given,
              v8' \in {v8, v8 \cup {"policy"}},
              (\E c \in DOMAIN v1 : v1'[c].policy = "no") => "policy" \in v8'
       PROVE  Compose!Inv'
  <2>1. v8' \subseteq {"gone", "policy"}
    BY <1>5, <1>12
  <2>2. ComposeRest'
    BY <1>1, <1>2, <1>12, <2>1 DEF ComposeRest
  <2>3. Compose!TypeOK'
    BY <1>12, <2>2, ComposeTypePrimed
  <2>4. Compose!ServiceKept'
    BY <1>2, <1>3, <1>4, <1>12 DEF Compose!ServiceKept, Compose!Ids
  <2> QED
    BY <1>3, <1>12, <2>3, <2>4 DEF Compose!Inv, Compose!LabelsOfCall, Compose!Excused,
       Compose!WantedIsExcused, Compose!Replaced, Compose!Ids
<1>13. ASSUME v1' = box2, v4' = "ok", v8' = v8, v9' = v9 PROVE Compose!Inv'
  <2>1. ComposeTyped(v1)'
    BY <1>10, <1>13 DEF ComposeTyped
  <2>2. (\E c \in DOMAIN v1 : box2[c].policy = "no") => "policy" \in v8
    <3>1. CASE v3 = "adjust_service_environment"
      BY <1>4, <1>11, <3>1
    <3>2. CASE v3 = "run_sevice_with_environment"
      BY <1>4, <3>2
    <3> QED
      BY <1>4, <3>1, <3>2
  <2> QED
    BY <1>9, <1>11, <1>12, <1>13, <2>1, <2>2
<1>14. CASE v4' = "ok" /\ v8' = v8 \cup {"policy"} /\ v1' = v1 /\ v9' = v9
  <2>1. ComposeTyped(v1)'
    BY <1>1, <1>14 DEF ComposeTyped
  <2> QED
    BY <1>3, <1>12, <1>14, <2>1
<1> QED
  BY <1>2, <1>5, <1>6, <1>10, <1>13, <1>14, ComposeCommand

LEMMA ComposeNext == Compose!Inv /\ Compose!Next => Compose!Inv'
<1> SUFFICES ASSUME Compose!Inv, Compose!Next PROVE Compose!Inv'
  OBVIOUS
<1>1. CASE \/ Compose!compose_down \/ Compose!compose_up \/ Compose!pull_and_up
           \/ Compose!restart_services \/ Compose!recreate_service
           \/ Compose!run_sevice_with_environment \/ Compose!adjust_service_environment
  BY <1>1, ComposeCall DEF Compose!compose_down, Compose!compose_up, Compose!pull_and_up,
     Compose!restart_services, Compose!recreate_service, Compose!run_sevice_with_environment,
     Compose!adjust_service_environment
<1>2. CASE \/ \E b \in Compose!Ids : Compose!Exit(b)
           \/ Compose!Down \/ Compose!Pull \/ Compose!Up \/ Compose!Restart
           \/ Compose!InspectPolicy \/ Compose!Purge \/ Compose!Create \/ Compose!Run
           \/ Compose!ChangeRestartPolicy
  BY <1>2, ComposeExit, ComposeDown, ComposePull, ComposeUp, ComposeRestart, ComposeInspect,
     ComposePurge, ComposeCreate, ComposeRun, ComposePolicy
<1> QED
  BY <1>1, <1>2 DEF Compose!Next

LEMMA ComposeStutter == Compose!Inv /\ UNCHANGED vars => Compose!Inv'
<1> SUFFICES ASSUME Compose!Inv, UNCHANGED <<v1, v2, v3, v4, v5, v6, v7, v8, v9>>
             PROVE  Compose!Inv'
  BY DEF vars
<1>1. ComposeTyped(v1)' /\ ComposeRest'
  BY ComposeType DEF Compose!Inv, ComposeTyped, ComposeRest
<1>2. Compose!TypeOK'
  BY <1>1, ComposeTypePrimed
<1> QED
  BY <1>2 DEF Compose!Inv, Compose!LabelsOfCall, Compose!Excused, Compose!WantedIsExcused,
     Compose!Replaced, Compose!ServiceKept, Compose!Returned, Compose!Ids

LEMMA ComposeAlways == Spec => [](focus = "compose" => Compose!Inv)
<1> DEFINE Holds == focus = "compose" => Compose!Inv
<1>1. Init => Holds
  BY ComposeInit DEF Init
<1>2. Holds /\ [Next]_vars => Holds'
  <2>1. ASSUME Holds, Next PROVE Holds'
    BY <2>1, ComposeNext DEF Next
  <2>2. ASSUME Holds, UNCHANGED vars PROVE Holds'
    BY <2>2, ComposeStutter DEF vars
  <2> QED
    BY <2>1, <2>2
<1> QED
  BY <1>1, <1>2, PTL DEF Spec

\* Replacing a service of docker-compose loses neither its container nor its restart policy
\* unseen, for any containers, tries and lost commands.
THEOREM ServicesAreKept == Spec => []ServiceIsKept
<1> DEFINE Holds == focus = "compose" => Compose!Inv
<1>1. Holds => ServiceIsKept
  BY DEF ServiceIsKept, Compose!Inv
<1> QED
  BY <1>1, ComposeAlways, PTL

-----------------------------------------------------------------------------
(* The containers of a service, which stand in a sequence, the newest first.*)

DockerThere == Docker!Range(v1)

DockerBudget == MaxFaults + 2

\* There are two faults more than MaxFaults says.
LEMMA DockerBounds == DockerBudget \in Nat
  BY BoundsAssumption DEF DockerBudget

\* The module counts with a Cardinality of its own: the same.
LEMMA DockerCardinality == ASSUME NEW ss PROVE Docker!Cardinality(ss) = Cardinality(ss)
  BY DEF Docker!Cardinality, Cardinality

\* The types, for what is proved of single steps: the sequence of the containers apart.
DockerOrder == v1 \in Seq(Boxes) /\ Docker!IsInjective(v1)

DockerTyped ==
  /\ v2 \in SUBSET DockerThere /\ v3 \in SUBSET (DockerThere \ v2) /\ v4 \in SUBSET Boxes
  /\ v5 \in Docker!OnAll \cup Docker!OnFirst /\ v6 \in Docker!Labels
  /\ v7 \in SUBSET Boxes /\ v8 \in SUBSET Boxes
  /\ v9 \in SUBSET {"bind", "other"} /\ v10 \in BOOLEAN
  /\ v11 \in {"none", "ok", "raised"} /\ v12 \in 0..DockerBudget

\* They are the types.
LEMMA DockerTypes == Docker!TypeOK <=> DockerOrder /\ DockerTyped
  BY DEF Docker!TypeOK, DockerOrder, DockerTyped, DockerThere, DockerBudget, Docker!Labels

LEMMA DockerTypesNext == Docker!TypeOK' <=> (DockerOrder /\ DockerTyped)'
  BY DockerTypes, PTL

\* What there is, by its sequence.
LEMMA DockerNewest ==
  ASSUME DockerOrder
  PROVE  /\ DockerThere \subseteq Boxes
         /\ v1 # <<>> => Head(v1) \in DockerThere
         /\ v1 = <<>> <=> DockerThere = {}
<1>1. v1 \in Seq(Boxes)
  BY DEF DockerOrder
<1>2. \A i \in 1..Len(v1) : v1[i] \in Boxes
  BY <1>1
<1>3. DOMAIN v1 = 1..Len(v1) /\ Len(v1) \in Nat
  BY <1>1
<1>4. v1 # <<>> => Len(v1) # 0 /\ Head(v1) = v1[1]
  BY <1>1
<1>5. DockerThere = {v1[i] : i \in 1..Len(v1)}
  BY <1>3 DEF DockerThere, Docker!Range
<1>6. v1 # <<>> => 1 \in 1..Len(v1)
  BY <1>3, <1>4
<1>7. v1 = <<>> => Len(v1) = 0
  OBVIOUS
<1> QED
  BY <1>2, <1>3, <1>4, <1>5, <1>6, <1>7

\* To cut a container out of the sequence leaves the others, each once.
LEMMA DockerRemoves ==
  ASSUME DockerOrder, NEW n \in Boxes, Docker!Remove(n)
  PROVE  DockerOrder' /\ DockerThere' = DockerThere \ {n}
<1>1. v1 \in Seq(Boxes) /\ Len(v1) \in Nat /\ DOMAIN v1 = 1..Len(v1)
  BY DEF DockerOrder
<1>2. PICK i \in 1..Len(v1) :
        v1[i] = n /\ v1' = SubSeq(v1, 1, i - 1) \o SubSeq(v1, i + 1, Len(v1))
  BY <1>1 DEF Docker!Remove
<1> DEFINE l == Len(v1)
           s == SubSeq(v1, 1, i - 1)
           t == SubSeq(v1, i + 1, l)
<1>3. i \in Nat /\ l \in Nat /\ 1 <= i /\ i <= l
  BY <1>1, <1>2
<1>4. s \in Seq(Boxes) /\ Len(s) = i - 1 /\ \A j \in 1..(i - 1) : s[j] = v1[j]
  BY <1>1, <1>3
<1>5. t \in Seq(Boxes) /\ Len(t) = l - i /\ \A j \in 1..(l - i) : t[j] = v1[i + j]
  <2> DEFINE m == i + 1
  <2>1. m \in 1..(Len(v1) + 1) /\ l \in (m - 1)..Len(v1) /\ l - m + 1 = l - i
    BY <1>1, <1>3
  <2>2. \A j \in 1..(l - i) : m + j - 1 = i + j
    BY <1>3
  <2> HIDE DEF m, l
  <2>3. /\ SubSeq(v1, m, l) \in Seq(Boxes) /\ Len(SubSeq(v1, m, l)) = l - m + 1
        /\ \A j \in 1..(l - m + 1) : SubSeq(v1, m, l)[j] = v1[m + j - 1]
    BY <1>1, <2>1, SubSeqProperties
  <2>4. t = SubSeq(v1, m, l)
    BY DEF m
  <2> QED BY <2>1, <2>2, <2>3, <2>4
<1>6. v1' = s \o t
  BY <1>2
<1> HIDE DEF s, t
<1>7. v1' \in Seq(Boxes) /\ Len(v1') = l - 1 /\ DOMAIN v1' = 1..(l - 1)
  <2>1. s \in Seq(Boxes) /\ t \in Seq(Boxes)
    BY <1>4, <1>5
  <2>2. v1' \in Seq(Boxes) /\ Len(v1') = Len(s) + Len(t)
    BY <1>6, <2>1, ConcatProperties
  <2>3. Len(v1') = l - 1
    BY <1>3, <1>4, <1>5, <2>2
  <2> QED BY <2>2, <2>3
<1>8. \A j \in 1..(l - 1) : v1'[j] = IF j < i THEN v1[j] ELSE v1[j + 1]
  BY <1>3, <1>4, <1>5, <1>6
<1> HIDE DEF l
<1>9. \A j, k \in 1..l : v1[j] = v1[k] => j = k
  BY <1>1 DEF DockerOrder, Docker!IsInjective, l
<1>10. Docker!IsInjective(v1')
  <2>1. SUFFICES ASSUME NEW j \in 1..(l - 1), NEW k \in 1..(l - 1), v1'[j] = v1'[k]
                 PROVE  j = k
    BY <1>7 DEF Docker!IsInjective
  <2> DEFINE x == IF j < i THEN j ELSE j + 1
             y == IF k < i THEN k ELSE k + 1
  <2>2. x \in 1..l /\ y \in 1..l /\ (x = y => j = k)
    BY <1>3
  <2>3. v1'[j] = v1[x] /\ v1'[k] = v1[y]
    BY <1>8
  <2> QED BY <1>9, <2>1, <2>2, <2>3
<1>11. DockerThere = {v1[j] : j \in 1..l} /\ DockerThere' = {v1'[j] : j \in 1..(l - 1)}
  BY <1>1, <1>7 DEF DockerThere, Docker!Range, l
<1>12. ASSUME NEW x \in DockerThere \ {n} PROVE x \in DockerThere'
  <2>1. PICK j \in 1..l : x = v1[j]
    BY <1>11
  <2>2. CASE j < i
    BY <1>3, <1>8, <1>11, <2>1, <2>2
  <2>3. CASE ~(j < i)
    <3>1. j # i
      BY <1>2, <1>12, <2>1
    <3>2. j - 1 \in 1..(l - 1) /\ ~(j - 1 < i) /\ (j - 1) + 1 = j
      BY <1>3, <2>1, <2>3, <3>1
    <3> QED BY <1>8, <1>11, <2>1, <3>2
  <2> QED BY <2>2, <2>3
<1>13. ASSUME NEW x \in DockerThere' PROVE x \in DockerThere \ {n}
  <2>1. PICK j \in 1..(l - 1) : x = v1'[j]
    BY <1>11
  <2>2. PICK k \in 1..l : x = v1[k] /\ k # i
    BY <1>3, <1>8, <2>1
  <2> QED BY <1>2, <1>3, <1>9, <1>11, <2>2 DEF l
<1> QED
  BY <1>7, <1>10, <1>12, <1>13 DEF DockerOrder

\* To run a container that is not there puts it first.
LEMMA DockerRuns ==
  ASSUME DockerOrder, NEW n \in Boxes, n \notin DockerThere, v1' = <<n>> \o v1
  PROVE  /\ DockerOrder' /\ DockerThere' = DockerThere \cup {n}
         /\ v1' # <<>> /\ Head(v1') = n
<1>1. v1 \in Seq(Boxes) /\ Len(v1) \in Nat /\ DOMAIN v1 = 1..Len(v1)
  BY DEF DockerOrder
<1> DEFINE l == Len(v1)
           one == <<n>>
<1>2. one \in Seq(Boxes) /\ Len(one) = 1 /\ one[1] = n
  OBVIOUS
<1>3. v1' = one \o v1
  OBVIOUS
<1> HIDE DEF one
<1>4. v1' \in Seq(Boxes) /\ Len(v1') = l + 1 /\ DOMAIN v1' = 1..(l + 1)
  BY <1>1, <1>2, <1>3
<1>5. \A j \in 1..(l + 1) : v1'[j] = IF j = 1 THEN n ELSE v1[j - 1]
  BY <1>1, <1>2, <1>3
<1> HIDE DEF l
<1>6. \A j, k \in 1..l : v1[j] = v1[k] => j = k
  BY <1>1 DEF DockerOrder, Docker!IsInjective, l
<1>7. l \in Nat
  BY <1>1 DEF l
<1>8. DockerThere = {v1[j] : j \in 1..l} /\ DockerThere' = {v1'[j] : j \in 1..(l + 1)}
  BY <1>1, <1>4 DEF DockerThere, Docker!Range, l
<1>9. \A j \in 1..l : v1[j] # n
  BY <1>8
<1>10. Docker!IsInjective(v1')
  BY <1>4, <1>5, <1>6, <1>7, <1>9 DEF Docker!IsInjective
<1>11. ASSUME NEW x \in DockerThere \cup {n} PROVE x \in DockerThere'
  <2>1. CASE x = n
    BY <1>5, <1>7, <1>8, <2>1
  <2>2. CASE x # n
    <3>1. PICK j \in 1..l : x = v1[j]
      BY <1>8, <1>11, <2>2
    <3> DEFINE k == j + 1
    <3>2. k \in 1..(l + 1) /\ k # 1 /\ k - 1 = j
      BY <1>7, <3>1
    <3>3. v1'[k] = v1[k - 1]
      BY <1>5, <3>2
    <3> QED BY <1>8, <3>1, <3>2, <3>3
  <2> QED BY <2>1, <2>2
<1>12. ASSUME NEW x \in DockerThere' PROVE x \in DockerThere \cup {n}
  <2>1. PICK j \in 1..(l + 1) : x = v1'[j]
    BY <1>8
  <2>2. j # 1 => j - 1 \in 1..l /\ x = v1[j - 1]
    <3>1. j # 1 => j - 1 \in 1..l
      BY <1>7, <2>1
    <3>2. j # 1 => v1'[j] = v1[j - 1]
      BY <1>5, <2>1
    <3> QED BY <2>1, <3>1, <3>2
  <2>3. j = 1 => x = n
    BY <1>5, <2>1
  <2>4. j # 1 => x \in DockerThere
    BY <1>8, <2>2
  <2> QED BY <2>3, <2>4
<1>13. v1' # <<>> /\ Head(v1') = v1'[1] /\ v1'[1] = n
  BY <1>4, <1>5, <1>7
<1> QED
  BY <1>4, <1>10, <1>11, <1>12, <1>13 DEF DockerOrder

DockerHolds ==
  /\ DockerOrder /\ DockerTyped
  /\ Docker!CallsKnow /\ Docker!Replacing /\ Docker!Passed /\ Docker!AllListed
  /\ Docker!OkMeansStarted /\ Docker!OkMeansStopped

\* A container is missing by a fault, or while it is being replaced.
DockerMissing(v) == Cardinality(Boxes \ DockerThere) <= DockerBudget - v12 + v

DockerReplaced ==
  /\ IF v6 = "run" THEN DockerMissing(1) ELSE DockerMissing(0)
  /\ v5 = "overwrite" /\ v11 = "ok" => v8 = {Head(v1)}

\* Two parts of the invariant: what a call knows, and what is missing.
LEMMA DockerInv == Docker!Inv <=> DockerHolds /\ DockerReplaced
<1>1. \A ss : Docker!Cardinality(ss) = Cardinality(ss)
  BY DockerCardinality
<1>2. Docker!Missing <=> IF v6 = "run" THEN DockerMissing(1) ELSE DockerMissing(0)
  BY <1>1 DEF Docker!Missing, DockerMissing, DockerThere, DockerBudget
<1>3. DockerTyped => v12 \in Nat /\ DockerBudget \in Nat /\ Cardinality(Boxes \ DockerThere) \in Nat
  <2>1. DockerTyped => v12 \in Nat
    BY DockerBounds DEF DockerTyped
  <2>2. IsFiniteSet(Boxes \ DockerThere)
    BY BoxesAreFinite, FS_Subset
  <2> QED BY <2>1, <2>2, DockerBounds, FS_CardinalityType
<1>4. DockerTyped /\ DockerReplaced => Docker!LossIsBounded
  BY <1>1, <1>3 DEF DockerReplaced, DockerMissing, DockerThere, DockerBudget, Docker!LossIsBounded
<1> QED
  BY <1>2, <1>4, DockerTypes DEF Docker!Inv, DockerHolds, DockerReplaced, Docker!LossIsBounded

LEMMA DockerInvNext == Docker!Inv' <=> (DockerHolds /\ DockerReplaced)'
  BY DockerInv, PTL

\* It holds before the first call.
LEMMA DockerInit == Docker!Init => Docker!Inv
<1> SUFFICES ASSUME Docker!Init PROVE Docker!Inv
  OBVIOUS
<1>1. Docker!Cardinality(Boxes) \in Nat
  BY DockerCardinality, BoxesAreFinite, FS_CardinalityType
<1>2. /\ v1 \in [1..Docker!Cardinality(Boxes) -> Boxes] /\ Docker!IsInjective(v1)
      /\ \A b \in Boxes : \E i \in 1..Docker!Cardinality(Boxes) : v1[i] = b
  BY DEF Docker!Init, Docker!Bijection, Docker!Injection, Docker!Surjection
<1>3. DockerOrder
  BY <1>1, <1>2 DEF DockerOrder
<1>4. DockerThere = Boxes
  BY <1>2 DEF DockerThere, Docker!Range
<1>5. DockerTyped
  <2>1. v12 \in 0..DockerBudget
    BY DockerBounds DEF Docker!Init, DockerBudget
  <2> QED BY <1>4, <2>1 DEF Docker!Init, DockerTyped, Docker!OnAll, Docker!Labels
<1>6. DockerHolds
  BY <1>3, <1>5 DEF DockerHolds, Docker!Init, Docker!CallsKnow, Docker!Replacing, Docker!Passed,
     Docker!AllListed, Docker!OkMeansStarted, Docker!OkMeansStopped, Docker!Handling
<1>7. DockerReplaced
  <2>1. Cardinality(Boxes \ DockerThere) = 0
    BY <1>4, FS_EmptySet
  <2> QED BY <2>1, DockerBounds DEF Docker!Init, DockerReplaced, DockerMissing, DockerBudget
<1> QED
  BY <1>6, <1>7, DockerInv

\* What the steps that leave the containers as they are do to the rest.
LEMMA DockerFault == ASSUME DockerTyped, Docker!Fault PROVE v12' \in 0..DockerBudget /\ v12' < DockerBudget
  BY DockerBounds DEF DockerTyped, Docker!Fault

\* A crash, a revival or a port released.
LEMMA DockerDaemon ==
  ASSUME DockerHolds, NEW n \in Boxes, Docker!Crash(n) \/ Docker!Revive(n) \/ Docker!Release(n)
  PROVE  DockerHolds'
<1>1. UNCHANGED <<v1, v5, v6, v7, v8, v9, v10, v11>> /\ DockerThere' = DockerThere
  BY DEF Docker!Crash, Docker!Revive, Docker!Release, Docker!Start, Docker!callVars, DockerThere
<1>2. /\ v2' \cup v3' = v2 \cup v3
      /\ v2' \in SUBSET DockerThere /\ v3' \in SUBSET (DockerThere \ v2') /\ v4' \in SUBSET Boxes
  BY DEF Docker!Crash, Docker!Revive, Docker!Release, Docker!Start, DockerHolds, DockerTyped
<1>3. v12' = v12 \/ Docker!Fault
  BY DEF Docker!Crash, Docker!Revive, Docker!Release, Docker!Start
<1>4. v12' \in 0..DockerBudget /\ (v12 < DockerBudget => v12' < DockerBudget)
  BY <1>3, DockerFault DEF DockerHolds, DockerTyped
<1>5. DockerOrder' /\ DockerTyped'
  BY <1>1, <1>2, <1>4 DEF DockerHolds, DockerOrder, DockerTyped
<1>6. Docker!CallsKnow' /\ Docker!Replacing'
  BY <1>1 DEF DockerHolds, Docker!CallsKnow, Docker!Replacing
<1>7. Docker!Passed' /\ Docker!OkMeansStopped'
  BY <1>1, <1>2 DEF DockerHolds, Docker!Passed, Docker!OkMeansStopped
<1>8. Docker!AllListed' /\ Docker!OkMeansStarted'
  BY <1>1, <1>2, <1>4 DEF DockerHolds, Docker!AllListed, Docker!OkMeansStarted, Docker!Started, DockerBudget
<1> QED
  BY <1>5, <1>6, <1>7, <1>8 DEF DockerHolds

\* The steps of a call that leave docker alone.
LEMMA DockerList ==
  ASSUME DockerHolds,
         \/ \E method \in Docker!OnAll \cup Docker!OnFirst : Docker!Call(method)
         \/ Docker!ListAll \/ Docker!ListFailsSilently \/ Docker!ListFirst
         \/ Docker!CommandEnds \/ Docker!Diagnose \/ Docker!Handle \/ Docker!HandlerFails
  PROVE  DockerHolds'
<1> USE DEF Docker!Call, Docker!ListAll, Docker!ListFailsSilently, Docker!ListFirst, Docker!CommandEnds,
            Docker!Diagnose, Docker!Handle, Docker!HandlerFails, Docker!Goto, Docker!Raise, Docker!Return,
            Docker!daemonVars, Docker!Matching
<1>0. DockerThere \subseteq Boxes /\ (v1 # <<>> => Head(v1) \in DockerThere)
      /\ (v1 = <<>> <=> DockerThere = {})
  BY DockerNewest DEF DockerHolds
<1>1. UNCHANGED <<v1, v2, v3, v4>> /\ DockerThere' = DockerThere
  BY DEF DockerThere
<1>2. v12' = v12 \/ Docker!Fault
  OBVIOUS
<1>3. v12' \in 0..DockerBudget /\ (v12 < DockerBudget => v12' < DockerBudget)
      /\ (v12' = v12 \/ v12' < DockerBudget)
  BY <1>2, DockerFault DEF DockerHolds, DockerTyped
<1>4. DockerTyped'
  BY <1>0, <1>1, <1>3, Zenon DEF DockerHolds, DockerTyped, DockerThere, Docker!Labels, Docker!OnAll,
                                 Docker!OnFirst
<1>5. DockerOrder'
  BY <1>1 DEF DockerHolds, DockerOrder
<1>6. Docker!CallsKnow'
  BY <1>0, <1>1 DEF DockerHolds, DockerTyped, Docker!CallsKnow, Docker!Replacing, Docker!Handling,
                    DockerThere, Docker!OnAll, Docker!OnFirst
<1>7. Docker!Replacing'
  BY <1>0, <1>1 DEF DockerHolds, DockerTyped, Docker!CallsKnow, Docker!Replacing, Docker!Handling,
                    DockerThere, Docker!OnAll, Docker!OnFirst
<1>8. Docker!Passed'
  BY <1>0, <1>1 DEF DockerHolds, DockerTyped, Docker!CallsKnow, Docker!Passed, Docker!Handling, DockerThere,
                    Docker!OnAll, Docker!OnFirst
<1>9. Docker!AllListed'
  <2>1. Docker!ListFailsSilently => v12' < DockerBudget
    BY DockerFault DEF DockerHolds
  <2>2. v5' \in {"restart", "start"} /\ v6' # "list" /\ (v6' = "idle" => v11' = "ok")
        => \/ Docker!ListAll \/ Docker!ListFailsSilently
           \/ UNCHANGED <<v5, v8>> /\ v6 \notin {"idle", "list"}
    BY DEF Docker!OnFirst
  <2>3. Docker!ListAll /\ v5 \in {"restart", "start"} => v8' = Docker!Range(v1) /\ UNCHANGED v5
    OBVIOUS
  <2>4. UNCHANGED v5 \/ v6' = "list"
    OBVIOUS
  <2> QED BY <1>1, <1>3, <2>1, <2>2, <2>3, <2>4 DEF DockerHolds, Docker!AllListed, DockerBudget
<1>10. Docker!OkMeansStarted'
  BY <1>0, <1>1, <1>3 DEF DockerHolds, DockerTyped, Docker!CallsKnow, Docker!AllListed, Docker!Passed,
                          Docker!OkMeansStarted, Docker!Started, DockerThere, Docker!OnAll, Docker!OnFirst,
                          DockerBudget
<1>11. Docker!OkMeansStopped'
  BY <1>0, <1>1 DEF DockerHolds, DockerTyped, Docker!CallsKnow, Docker!Passed, Docker!OkMeansStopped
<1> QED
  BY <1>4, <1>5, <1>6, <1>7, <1>8, <1>9, <1>10, <1>11 DEF DockerHolds

\* A command goes on to its next container.
LEMMA DockerCommand ==
  ASSUME DockerHolds, NEW n \in Boxes,
         Docker!StopNext(n) \/ Docker!StartNext(n) \/ Docker!StartFails(n) \/ Docker!CommandFails(n)
  PROVE  DockerHolds'
<1> USE DEF Docker!StopNext, Docker!StartNext, Docker!StartFails, Docker!CommandFails, Docker!Goto,
            Docker!Advance, Docker!Start, Docker!Stop, Docker!Starting, Docker!IsNext, Docker!daemonVars
<1>0. /\ n \in v7 /\ v6 \in {"command", "start"} /\ v11' = v11 /\ UNCHANGED <<v1, v5, v8, v10>>
      /\ DockerThere' = DockerThere
  BY DEF DockerThere
<1>1. n \in DockerThere /\ v5 # "overwrite"
  BY <1>0 DEF DockerHolds, Docker!CallsKnow, DockerThere
<1>2. v12' = v12 \/ Docker!Fault
  OBVIOUS
<1>3. v12' \in 0..DockerBudget /\ (v12 < DockerBudget => v12' < DockerBudget)
  BY <1>2, DockerFault DEF DockerHolds, DockerTyped
<1>4. \/ UNCHANGED <<v2, v3, v4>>
      \/ v2' = v2 \ {n} /\ v3' = v3 \ {n} /\ v4' \in {v4, v4 \cup {n}}
      \/ v2' = v2 \cup {n} /\ v3' = v3 \ {n} /\ v4' = v4
  OBVIOUS
<1>5. \/ v6' = "start" /\ v5 = "restart" /\ v7' = v7 /\ v9' = v9
      \/ v6' = "command" /\ v7' = v7 \ {n} /\ v9' \in {v9, v9 \cup {"bind"}, v9 \cup {"other"}}
  BY DEF DockerHolds, DockerTyped
<1>6. DockerTyped'
  BY <1>0, <1>1, <1>3, <1>4, <1>5 DEF DockerHolds, DockerTyped, Docker!Labels
<1>7. DockerOrder'
  BY <1>0 DEF DockerHolds, DockerOrder
<1>8. Docker!CallsKnow'
  BY <1>0, <1>1, <1>5 DEF DockerHolds, Docker!CallsKnow, Docker!Handling
<1>9. Docker!Replacing' /\ Docker!AllListed' /\ Docker!OkMeansStarted' /\ Docker!OkMeansStopped'
  BY <1>0, <1>3, <1>5 DEF DockerHolds, Docker!CallsKnow, Docker!Replacing, Docker!AllListed,
                          Docker!OkMeansStarted,
     Docker!OkMeansStopped, DockerBudget
<1>10. Docker!Passed'
  BY <1>0, <1>5 DEF DockerHolds, Docker!CallsKnow, Docker!Passed, Docker!Handling
<1> QED
  BY <1>6, <1>7, <1>8, <1>9, <1>10 DEF DockerHolds

\* The handler of start failures.
LEMMA DockerHandler ==
  ASSUME DockerHolds, Docker!HandleStop \/ Docker!HandleStart
  PROVE  DockerHolds'
<1> USE DEF Docker!HandleStop, Docker!HandleStart, Docker!Goto, Docker!Start, Docker!Stop, Docker!Raise,
            Docker!Return, Docker!daemonVars
<1>1. /\ v6 \in {"handle_stop", "handle_start"} /\ v7 = {} /\ v5 = "restart" /\ v1 # <<>>
      /\ UNCHANGED <<v1, v5, v8, v9>> /\ v7' = {}
      /\ DockerThere' = DockerThere
  BY DEF DockerHolds, Docker!CallsKnow, Docker!Handling, DockerThere
<1> DEFINE n == Head(v1)
<1>2. n \in DockerThere /\ n \in Boxes
  BY <1>1, DockerNewest DEF DockerHolds
<1>3. v12' = v12 \/ Docker!Fault
  OBVIOUS
<1>4. v12' \in 0..DockerBudget /\ (v12 < DockerBudget => v12' < DockerBudget)
  BY <1>3, DockerFault DEF DockerHolds, DockerTyped
<1>5. \/ UNCHANGED <<v2, v3, v4>>
      \/ v2' = v2 \ {n} /\ v3' = v3 \ {n} /\ v4' \in {v4, v4 \cup {n}}
      \/ v2' = v2 \cup {n} /\ v3' = v3 \ {n} /\ v4' = v4
  OBVIOUS
<1>6. \/ v6' = "handle_start" /\ UNCHANGED <<v10, v11>>
      \/ v6' = "idle" /\ v11' = "raised" /\ UNCHANGED v10
      \/ v6' = "idle" /\ v11' = "ok" /\ v10' = TRUE /\ n \in v2'
  BY DEF DockerHolds, DockerTyped
<1> HIDE DEF n
<1>7. DockerTyped'
  BY <1>1, <1>2, <1>4, <1>5, <1>6 DEF DockerHolds, DockerTyped, Docker!Labels
<1>8. DockerOrder'
  BY <1>1 DEF DockerHolds, DockerOrder
<1>9. Docker!CallsKnow' /\ Docker!Replacing' /\ Docker!Passed' /\ Docker!OkMeansStopped'
  BY <1>1, <1>6 DEF DockerHolds, Docker!CallsKnow, Docker!Replacing, Docker!Passed,
     Docker!OkMeansStopped, Docker!Handling
<1>10. Docker!AllListed'
  BY <1>1, <1>4, <1>6 DEF DockerHolds, Docker!AllListed, DockerBudget
<1>11. Docker!OkMeansStarted'
  BY <1>1, <1>4, <1>6 DEF DockerHolds, Docker!CallsKnow, Docker!AllListed, Docker!OkMeansStarted,
                          DockerBudget, n
<1> QED
  BY <1>7, <1>8, <1>9, <1>10, <1>11 DEF DockerHolds

\* A container is removed, and run again.
LEMMA DockerReplace ==
  ASSUME DockerHolds, NEW n \in Boxes, Docker!Remove(n) \/ Docker!Run(n)
  PROVE  /\ DockerHolds'
         /\ \/ v6' = "run" /\ v6 # "run" /\ DockerThere' = DockerThere \ {n}
            \/ v6' # "run" /\ v6 = "run" /\ DockerThere' = DockerThere \cup {n} /\ n \notin DockerThere
         /\ v6' # "run" => Head(v1') = n
         /\ v8' = {n} /\ (v12' = v12 \/ Docker!Fault) /\ (v6' = "run" => v11' # "ok")
<1>1. v5 = "overwrite" /\ v7 = {n} /\ v8 = {n} /\ (n \in DockerThere <=> v6 = "remove") /\ v11 = "none"
  BY DEF DockerHolds, Docker!CallsKnow, Docker!Replacing, Docker!Remove, Docker!Run, DockerThere
<1>2. CASE Docker!Remove(n)
  <2>1. DockerOrder' /\ DockerThere' = DockerThere \ {n}
    BY <1>2, DockerRemoves DEF DockerHolds
  <2>2. /\ v6 = "remove" /\ v6' = "run" /\ UNCHANGED <<v5, v7, v8, v9, v10, v11>>
        /\ v2' = v2 \ {n} /\ v3' = v3 \ {n} /\ v4' \in {v4, v4 \cup {n}}
        /\ v12' = v12 \/ Docker!Fault
    BY <1>2 DEF Docker!Remove, Docker!Goto
  <2>3. v12' \in 0..DockerBudget
    BY <2>2, DockerFault DEF DockerHolds, DockerTyped
  <2>4. DockerTyped'
    BY <2>1, <2>2, <2>3 DEF DockerHolds, DockerTyped, Docker!Labels
  <2>5. Docker!CallsKnow' /\ Docker!Replacing'
    BY <1>1, <2>1, <2>2 DEF DockerHolds, Docker!CallsKnow, Docker!Replacing, Docker!Handling, DockerThere
  <2>6. Docker!Passed' /\ Docker!AllListed' /\ Docker!OkMeansStarted' /\ Docker!OkMeansStopped'
    BY <1>1, <2>2 DEF Docker!Passed, Docker!AllListed, Docker!OkMeansStarted, Docker!OkMeansStopped
  <2> QED BY <1>1, <2>1, <2>2, <2>4, <2>5, <2>6 DEF DockerHolds
<1>3. CASE Docker!Run(n)
  <2>1. v6 = "run" /\ n \notin DockerThere /\ v1' = <<n>> \o v1
    BY <1>1, <1>3 DEF Docker!Run
  <2>2. DockerOrder' /\ DockerThere' = DockerThere \cup {n} /\ Head(v1') = n
    BY <2>1, DockerRuns DEF DockerHolds
  <2>3. /\ v6' = "idle" /\ v7' = {} /\ UNCHANGED <<v3, v4, v5, v8, v9, v10, v12>>
        /\ (v2' = v2 /\ v11' = "raised") \/ (v2' = v2 \cup {n} /\ v11' = "ok")
    BY <1>3 DEF Docker!Run, Docker!Raise, Docker!Return
  <2>4. DockerTyped'
    BY <2>1, <2>2, <2>3 DEF DockerHolds, DockerTyped, Docker!Labels
  <2>5. Docker!CallsKnow' /\ Docker!Replacing'
    BY <1>1, <2>3 DEF DockerHolds, Docker!CallsKnow, Docker!Replacing, Docker!Handling
  <2>6. Docker!Passed' /\ Docker!AllListed' /\ Docker!OkMeansStarted' /\ Docker!OkMeansStopped'
    BY <1>1, <2>3 DEF Docker!Passed, Docker!AllListed, Docker!OkMeansStarted, Docker!OkMeansStopped,
                      Docker!OnAll
  <2> QED BY <1>1, <2>1, <2>2, <2>3, <2>4, <2>5, <2>6 DEF DockerHolds
<1> QED
  BY <1>2, <1>3

\* The containers that are missing.
LEMMA DockerKeeps ==
  ASSUME DockerTyped, DockerReplaced, v1' = v1, v12' = v12 \/ Docker!Fault,
         v6 = "run" => v6' = "run" \/ Docker!Fault,
         v5' = "overwrite" /\ v11' = "ok" => v8' = {Head(v1)}
  PROVE  DockerReplaced'
<1>1. DockerThere' = DockerThere
  BY DEF DockerThere
<1> DEFINE lost == Cardinality(Boxes \ DockerThere)
<1>2. lost \in Nat
  BY BoxesAreFinite, FS_Subset, FS_CardinalityType
<1>3. v12 \in Nat /\ DockerBudget \in Nat
  BY DockerBounds DEF DockerTyped
<1>4. v12' = v12 \/ v12' = v12 - 1
  BY DEF Docker!Fault
<1>5. v6 = "run" /\ v6' # "run" => v12' = v12 - 1
  BY DEF Docker!Fault
<1>6. DockerMissing(0) => DockerMissing(0)' /\ DockerMissing(1)'
  <2> HIDE DEF lost
  <2>1. lost' = lost
    BY <1>1 DEF lost
  <2> QED BY <1>2, <1>3, <1>4, <2>1 DEF DockerMissing, lost
<1>7. DockerMissing(1) => DockerMissing(1)' /\ (v12' = v12 - 1 => DockerMissing(0)')
  <2> HIDE DEF lost
  <2>1. lost' = lost
    BY <1>1 DEF lost
  <2> QED BY <1>2, <1>3, <1>4, <2>1 DEF DockerMissing, lost
<1>8. IF v6' = "run" THEN DockerMissing(1)' ELSE DockerMissing(0)'
  BY <1>5, <1>6, <1>7 DEF DockerReplaced
<1> QED
  BY <1>8 DEF DockerReplaced

\* One more is missing, or one less.
LEMMA DockerMoves ==
  ASSUME DockerHolds, DockerReplaced, NEW n \in Boxes, DockerHolds',
         \/ v6' = "run" /\ v6 # "run" /\ DockerThere' = DockerThere \ {n}
         \/ v6' # "run" /\ v6 = "run" /\ DockerThere' = DockerThere \cup {n} /\ n \notin DockerThere,
         v6' # "run" => Head(v1') = n,
         v8' = {n}, v12' = v12 \/ Docker!Fault, v6' = "run" => v11' # "ok"
  PROVE  DockerReplaced'
<1> DEFINE A == Boxes \ DockerThere
           B == Boxes \ DockerThere'
<1>1. IsFiniteSet(A) /\ IsFiniteSet(B) /\ Cardinality(A) \in Nat /\ Cardinality(B) \in Nat
  BY BoxesAreFinite, FS_Subset, FS_CardinalityType
<1>2. v12 \in Nat /\ v12' \in Nat /\ DockerBudget \in Nat /\ v12' <= v12
  BY DockerBounds DEF DockerHolds, DockerTyped, Docker!Fault
<1>3. CASE v6' = "run" /\ v6 # "run" /\ DockerThere' = DockerThere \ {n}
  <2>1. B = A \cup {n}
    BY <1>3
  <2>2. Cardinality(B) <= Cardinality(A) + 1
    <3> HIDE DEF A, B
    <3>1. Cardinality(A \cup {n}) = IF n \in A THEN Cardinality(A) ELSE Cardinality(A) + 1
      BY <1>1, FS_AddElement
    <3> QED BY <1>1, <2>1, <3>1
  <2>3. Cardinality(A) <= DockerBudget - v12
    BY <1>2, <1>3 DEF DockerReplaced, DockerMissing
  <2>4. Cardinality(B) <= DockerBudget - v12' + 1
    <3> HIDE DEF A, B
    <3> QED BY <1>1, <1>2, <2>2, <2>3
  <2>5. DockerMissing(1)'
    BY <2>4 DEF DockerMissing, DockerBudget
  <2> QED BY <1>3, <2>5 DEF DockerReplaced
<1>4. CASE v6' # "run" /\ v6 = "run" /\ DockerThere' = DockerThere \cup {n} /\ n \notin DockerThere
  <2>1. B = A \ {n} /\ n \in A
    BY <1>4
  <2>2. Cardinality(B) = Cardinality(A) - 1
    <3> HIDE DEF A, B
    <3>1. Cardinality(A \ {n}) = IF n \in A THEN Cardinality(A) - 1 ELSE Cardinality(A)
      BY <1>1, FS_RemoveElement
    <3> QED BY <2>1, <3>1
  <2>3. Cardinality(A) <= DockerBudget - v12 + 1
    BY <1>4 DEF DockerReplaced, DockerMissing
  <2>4. Cardinality(B) <= DockerBudget - v12' + 0
    <3> HIDE DEF A, B
    <3> QED BY <1>1, <1>2, <2>2, <2>3
  <2>5. DockerMissing(0)'
    BY <2>4 DEF DockerMissing, DockerBudget
  <2> QED BY <1>4, <2>5 DEF DockerReplaced
<1> QED
  BY <1>3, <1>4

\* Every step keeps the invariant.
LEMMA DockerNext == Docker!Inv /\ Docker!Next => Docker!Inv'
<1> SUFFICES ASSUME DockerHolds, DockerReplaced, Docker!Next PROVE DockerHolds' /\ DockerReplaced'
  BY DockerInv, DockerInvNext
<1>0. DockerTyped
  BY DEF DockerHolds
<1>1. ASSUME NEW n \in Boxes, Docker!Crash(n) \/ Docker!Revive(n) \/ Docker!Release(n)
      PROVE  DockerHolds' /\ DockerReplaced'
  <2>1. UNCHANGED <<v1, v5, v6, v8, v11>> /\ (v12' = v12 \/ Docker!Fault)
    BY <1>1 DEF Docker!Crash, Docker!Revive, Docker!Release, Docker!Start, Docker!callVars
  <2> QED BY <1>0, <1>1, <2>1, DockerDaemon, DockerKeeps DEF DockerReplaced
<1>2. CASE \/ \E method \in Docker!OnAll \cup Docker!OnFirst : Docker!Call(method)
           \/ Docker!ListAll \/ Docker!ListFailsSilently \/ Docker!ListFirst
           \/ Docker!CommandEnds \/ Docker!Diagnose \/ Docker!Handle \/ Docker!HandlerFails
  <2>1. /\ v1' = v1 /\ (v12' = v12 \/ Docker!Fault)
        /\ v6 = "run" => v6' = "run" \/ Docker!Fault
        /\ v11' = "ok" => v6 = "command" /\ UNCHANGED v5
    BY <1>2 DEF DockerHolds, Docker!CallsKnow, Docker!Call, Docker!ListAll, Docker!ListFailsSilently,
       Docker!ListFirst, Docker!CommandEnds, Docker!Diagnose, Docker!Handle, Docker!HandlerFails, Docker!Goto,
       Docker!Raise, Docker!Return, Docker!daemonVars
  <2>2. v5' = "overwrite" => v11' # "ok"
    BY <2>1 DEF DockerHolds, Docker!CallsKnow
  <2>3. DockerHolds'
    BY <1>2, DockerList
  <2> QED BY <1>0, <2>1, <2>2, <2>3, DockerKeeps
<1>3. ASSUME NEW n \in Boxes,
             Docker!StopNext(n) \/ Docker!StartNext(n) \/ Docker!StartFails(n) \/ Docker!CommandFails(n)
      PROVE  DockerHolds' /\ DockerReplaced'
  <2>1. /\ v1' = v1 /\ (v12' = v12 \/ Docker!Fault)
        /\ v6 # "run" /\ UNCHANGED <<v5, v8, v11>>
    BY <1>3 DEF Docker!StopNext, Docker!StartNext, Docker!StartFails, Docker!CommandFails, Docker!Goto,
       Docker!Advance, Docker!Start, Docker!Stop, Docker!Starting, Docker!daemonVars
  <2>2. DockerHolds'
    BY <1>3, DockerCommand
  <2> QED BY <1>0, <2>1, <2>2, DockerKeeps DEF DockerReplaced
<1>4. CASE Docker!HandleStop \/ Docker!HandleStart
  <2>1. v5 = "restart"
    BY <1>4 DEF DockerHolds, Docker!CallsKnow, Docker!Handling, Docker!HandleStop, Docker!HandleStart
  <2>2. /\ v1' = v1 /\ (v12' = v12 \/ Docker!Fault)
        /\ v6 # "run" /\ v5' = v5
    BY <1>4 DEF Docker!HandleStop, Docker!HandleStart, Docker!Goto, Docker!Raise, Docker!Return,
       Docker!Start, Docker!Stop, Docker!daemonVars
  <2>3. DockerHolds'
    BY <1>4, DockerHandler
  <2> QED BY <1>0, <2>1, <2>2, <2>3, DockerKeeps
<1>5. ASSUME NEW n \in Boxes, Docker!Remove(n) \/ Docker!Run(n)
      PROVE  DockerHolds' /\ DockerReplaced'
  BY <1>5, DockerReplace, DockerMoves
<1> QED
  BY <1>1, <1>2, <1>3, <1>4, <1>5 DEF Docker!Next, Docker!CallStep

\* Nothing of docker changes when nothing changes.
LEMMA DockerStutter == Docker!Inv /\ UNCHANGED vars => Docker!Inv'
<1> SUFFICES ASSUME DockerHolds, DockerReplaced,
                    UNCHANGED <<v1, v2, v3, v4, v5, v6, v7, v8, v9, v10, v11, v12>>
             PROVE  DockerHolds' /\ DockerReplaced'
  BY DockerInv, DockerInvNext DEF vars
<1>1. DockerReplaced'
  BY DockerKeeps DEF DockerHolds, DockerReplaced
<1>2. DockerOrder' /\ DockerTyped'
  BY DEF DockerHolds, DockerOrder, DockerTyped, DockerThere
<1>3. Docker!CallsKnow' /\ Docker!Replacing' /\ Docker!Passed' /\ Docker!AllListed'
  BY DEF DockerHolds, Docker!CallsKnow, Docker!Replacing, Docker!Passed, Docker!AllListed
<1>4. Docker!OkMeansStarted' /\ Docker!OkMeansStopped'
  BY DEF DockerHolds, Docker!OkMeansStarted, Docker!OkMeansStopped, Docker!Started
<1> QED
  BY <1>1, <1>2, <1>3, <1>4 DEF DockerHolds

\* So it holds whenever docker is in focus.
LEMMA DockerAlways == Spec => [](focus = "docker" => Docker!Inv)
<1> DEFINE Holds == focus = "docker" => Docker!Inv
<1>1. Init => Holds
  BY DockerInit DEF Init
<1>2. Holds /\ [Next]_vars => Holds'
  <2>1. ASSUME Holds, Next PROVE Holds'
    BY <2>1, DockerNext DEF Next
  <2>2. ASSUME Holds, UNCHANGED vars PROVE Holds'
    BY <2>2, DockerStutter DEF vars
  <2> QED
    BY <2>1, <2>2
<1> QED
  BY <1>1, <1>2, PTL DEF Spec

\* However many containers match a name and whatever fails: a call that returned normally has
\* started or stopped what it listed, but for those the handler of start failures promises
\* nothing about, and every container that is missing between calls was lost by a fault.
THEOREM ContainersStay == Spec => []ContainersAreKept
<1> DEFINE Holds == focus = "docker" => Docker!Inv
<1>1. Holds => ContainersAreKept
  BY DEF ContainersAreKept, Docker!Inv
<1> QED
  BY <1>1, DockerAlways, PTL

-----------------------------------------------------------------------------
(* The data of a deployment.                                               *)

LEMMA DataInit == Data!Init => Data!Inv
<1> SUFFICES ASSUME Data!Init PROVE Data!Inv
  OBVIOUS
<1>1. v8 \in [Actors -> Data!Calls]
  BY DEF Data!Init, Data!Idle, Data!Calls
<1>2. Data!TypeOK
  <2>1. v7 \in [Actors -> {"none", "pending", "succeeded"}]
    BY DEF Data!Init
  <2>2. v9 \in 0..MaxFaults
    BY BoundsAssumption DEF Data!Init
  <2> QED
    BY <1>1, <2>1, <2>2 DEF Data!Init, Data!TypeOK
<1>3. ASSUME NEW c \in Actors
      PROVE  Data!LabelsOf(c) /\ ~Data!Deletes(c) /\ Data!OwnCleaner(c)
  BY DEF Data!Init, Data!LabelsOf, Data!Deletes, Data!OwnCleaner, Data!Idle, Data!At, Data!Returned
<1> QED
  BY <1>2, <1>3 DEF Data!Inv, Data!DeletesAlone

\* Every step of the deployment, of its claim or of a call keeps the types.
LEMMA DataType == Data!TypeOK /\ Data!Next => Data!TypeOK'
<1> SUFFICES ASSUME Data!TypeOK, Data!Next PROVE Data!TypeOK'
  OBVIOUS
<1>1. v8 \in [Actors -> Data!Calls]
  BY DEF Data!TypeOK
<1>2. v8' \in [Actors -> Data!Calls]
  <2>1. CASE UNCHANGED v8
    BY <1>1, <2>1
  <2>2. CASE Data!ReleaseClaim
    <3>1. ASSUME NEW d \in Actors PROVE v8'[d] \in Data!Calls
      BY <1>1, <2>2 DEF Data!ReleaseClaim, Data!Calls
    <3> QED
      BY <3>1, <2>2 DEF Data!ReleaseClaim
  <2>3. ASSUME NEW c \in Actors, NEW op \in {"delete_data", "recycle"},
               NEW label \in {"spec", "check"}, Data!Begin(c, op, label)
        PROVE  v8' \in [Actors -> Data!Calls]
    <3>1. ASSUME NEW d \in Actors PROVE v8'[d] \in Data!Calls
      <4>1. CASE d = c
        BY <1>1, <2>3, <4>1 DEF Data!Begin, Data!Idle, Data!Calls
      <4>2. CASE d # c
        <5>1. Data!Idle \in Data!Calls
          BY DEF Data!Idle, Data!Calls
        <5>2. \/ v8'[d] = Data!Idle
              \/ v8'[d] = [v8[d] EXCEPT !.excused = TRUE]
              \/ v8'[d] = [v8[d] EXCEPT !.excused = v8[d].excused]
          BY <1>1, <2>3, <4>2 DEF Data!Begin, Data!Calls
        <5> QED
          BY <1>1, <5>1, <5>2 DEF Data!Calls
      <4> QED
        BY <4>1, <4>2
    <3> QED
      BY <3>1, <2>3 DEF Data!Begin
  <2>4. ASSUME NEW c \in Actors, Data!ReadSpec(c)
        PROVE  v8' \in [Actors -> Data!Calls]
    <3>1. v2 \in {0, 1}
      BY DEF Data!TypeOK
    <3> DEFINE unsettled == v8[c].excused \/ v3 # v2 \/ (v2 = 0) # (v4 = "none")
               new == [v8[c] EXCEPT !.at = "down", !.replicas = v2, !.old = v6 # "none",
                                    !.excused = unsettled]
    <3>2. v8' = [v8 EXCEPT ![c] = new]
      BY <1>1, <2>4 DEF Data!ReadSpec
    <3>3. v8[c] \in Data!Calls /\ unsettled \in BOOLEAN
      BY <1>1
    <3>4. new \in Data!Calls
      <4> HIDE DEF unsettled
      <4> QED
        BY <3>1, <3>3 DEF Data!Calls
    <3> HIDE DEF new
    <3> QED
      BY <1>1, <3>2, <3>4
  <2>5. ASSUME NEW c \in Actors, Data!Clean(c)
        PROVE  v8' \in [Actors -> Data!Calls]
    <3>1. [v8[c] EXCEPT !.cleaned = TRUE] \in Data!Calls
      <4>1. v8[c] \in Data!Calls
        BY <1>1
      <4> QED
        BY <4>1 DEF Data!Calls
    <3>2. v8' = [v8 EXCEPT ![c] = [v8[c] EXCEPT !.cleaned = TRUE]]
      BY <1>1, <2>5 DEF Data!Clean
    <3> QED
      BY <1>1, <3>1, <3>2
  <2>6. ASSUME NEW c \in Actors, Data!Raise(c)
        PROVE  v8' \in [Actors -> Data!Calls]
    BY <1>1, <2>6 DEF Data!Raise, Data!Idle, Data!Calls
  <2>7. ASSUME NEW c \in Actors, NEW label \in {"wait down", "claim", "up", "wait up", "ok",
                                   "create", "wait cleaner", "delete cleaner"},
               v8' = [v8 EXCEPT ![c].at = label]
        PROVE  v8' \in [Actors -> Data!Calls]
    <3>1. [v8[c] EXCEPT !.at = label] \in Data!Calls
      <4>1. v8[c] \in Data!Calls
        BY <1>1
      <4> QED
        BY <4>1 DEF Data!Calls
    <3>2. v8' = [v8 EXCEPT ![c] = [v8[c] EXCEPT !.at = label]]
      BY <1>1, <2>7
    <3> QED
      BY <1>1, <3>1, <3>2
  <2> QED
    BY <2>1, <2>2, <2>3, <2>4, <2>5, <2>6, <2>7
    DEF Data!Next, Data!CreatePod, Data!StartPod, Data!DeletePod, Data!PodEnds, Data!WriteStatus,
        Data!CreateClaim, Data!ScaleDown, Data!ScaleUp, Data!Scale, Data!WaitDown, Data!DeleteClaim,
        Data!WaitUp, Data!CheckClaim, Data!CreateCleaner, Data!AwaitCleaner, Data!DeleteCleaner,
        Data!RequestFails, Data!WaitTimesOut, Data!Goto, Data!delete_deployment_data, Data!recycle_pvc
<1> DEFINE Rest == /\ v1 \in BOOLEAN /\ v5 \in BOOLEAN /\ v2 \in {0, 1} /\ v3 \in {0, 1}
                   /\ v4 \in {"none", "pending", "running"} /\ v6 \in {"bound", "going", "none"}
                   /\ v7 \in [Actors -> {"none", "pending", "succeeded"}] /\ v9 \in 0..MaxFaults
<1>3. Rest
  BY DEF Data!TypeOK
<1>4. v9' = v9 \/ Data!Fault => v9' \in 0..MaxFaults
  BY <1>3, BoundsAssumption DEF Data!Fault
<1>5. ASSUME \/ Data!CreatePod \/ Data!StartPod \/ Data!DeletePod \/ Data!PodEnds
             \/ Data!WriteStatus \/ Data!ReleaseClaim \/ Data!CreateClaim
      PROVE  Rest'
  <2>1. CASE Data!CreatePod \/ Data!StartPod
    BY <1>3, <2>1 DEF Data!CreatePod, Data!StartPod, Data!deployment
  <2>2. CASE Data!DeletePod \/ Data!PodEnds
    BY <1>3, <2>2 DEF Data!DeletePod, Data!PodEnds, Data!deployment
  <2>3. CASE Data!WriteStatus
    BY <1>3, <2>3 DEF Data!WriteStatus
  <2>4. CASE Data!ReleaseClaim \/ Data!CreateClaim
    BY <1>3, <2>4 DEF Data!ReleaseClaim, Data!CreateClaim, Data!deployment
  <2> QED
    BY <1>5, <2>1, <2>2, <2>3, <2>4
<1>6. ASSUME NEW c \in Actors,
             \/ Data!delete_deployment_data(c) \/ Data!recycle_pvc(c) \/ Data!ReadSpec(c)
             \/ Data!WaitDown(c) \/ Data!WaitUp(c) \/ Data!AwaitCleaner(c)
             \/ Data!CheckClaim(c) \/ Data!RequestFails(c) \/ Data!WaitTimesOut(c)
      PROVE  Rest'
  <2>1. UNCHANGED <<v1, v2, v3, v4, v5, v6, v7>> /\ (v9' = v9 \/ Data!Fault)
    BY <1>6 DEF Data!delete_deployment_data, Data!recycle_pvc, Data!Begin, Data!ReadSpec,
       Data!WaitDown, Data!WaitUp, Data!AwaitCleaner, Data!CheckClaim, Data!RequestFails,
       Data!WaitTimesOut, Data!deployment
  <2> QED
    BY <1>3, <1>4, <2>1
<1>7. ASSUME NEW c \in Actors,
             \/ Data!ScaleDown(c) \/ Data!ScaleUp(c) \/ Data!DeleteClaim(c)
             \/ Data!CreateCleaner(c) \/ Data!DeleteCleaner(c) \/ Data!Clean(c)
      PROVE  Rest'
  <2>1. v8[c].replicas \in {0, 1}
    BY <1>1 DEF Data!Calls
  <2>2. CASE Data!ScaleDown(c) \/ Data!ScaleUp(c)
    BY <1>3, <2>1, <2>2 DEF Data!ScaleDown, Data!ScaleUp, Data!Scale
  <2>3. CASE Data!DeleteClaim(c)
    BY <1>3, <2>3 DEF Data!DeleteClaim, Data!deployment
  <2>4. CASE Data!CreateCleaner(c) \/ Data!DeleteCleaner(c) \/ Data!Clean(c)
    BY <1>3, <2>4 DEF Data!CreateCleaner, Data!DeleteCleaner, Data!Clean, Data!deployment
  <2> QED
    BY <1>7, <2>2, <2>3, <2>4
<1>8. Rest'
  <2> HIDE DEF Rest
  <2> QED
    BY <1>5, <1>6, <1>7 DEF Data!Next
<1> QED
  BY <1>2, <1>8 DEF Data!TypeOK

\* What a label and an error change in what is known of the calls.
LEMMA DataGoto ==
  ASSUME v8 \in [Actors -> Data!Calls], NEW c \in Actors, NEW label, Data!Goto(c, label)
  PROVE  /\ \A d \in Actors \ {c} : v8'[d] = v8[d]
         /\ v8'[c].at = label /\ v8'[c].op = v8[c].op /\ v8'[c].old = v8[c].old
         /\ v8'[c].cleaned = v8[c].cleaned /\ (Data!Deletes(c)' <=> Data!Deletes(c))
  BY DEF Data!Calls, Data!Goto, Data!Deletes

LEMMA DataRaise ==
  ASSUME v8 \in [Actors -> Data!Calls], NEW c \in Actors, Data!Raise(c)
  PROVE  /\ \A d \in Actors \ {c} : v8'[d] = v8[d]
         /\ v8'[c].op = "none" /\ v8'[c].at = "raised" /\ ~Data!Deletes(c)'
  BY DEF Data!Calls, Data!Raise, Data!Idle, Data!Deletes

\* What a claim that goes, a reading of the deployment and a cleaner change in it.
LEMMA DataReleases ==
  ASSUME v8 \in [Actors -> Data!Calls], Data!ReleaseClaim, NEW d \in Actors
  PROVE  /\ v8'[d].at = v8[d].at /\ v8'[d].op = v8[d].op /\ v8'[d].old = FALSE
         /\ v8'[d].cleaned = v8[d].cleaned /\ (Data!Deletes(d)' <=> Data!Deletes(d))
  BY DEF Data!ReleaseClaim, Data!Calls, Data!Deletes

LEMMA DataReads ==
  ASSUME v8 \in [Actors -> Data!Calls], NEW c \in Actors, Data!ReadSpec(c)
  PROVE  /\ v8'[c].at = "down" /\ v8'[c].op = v8[c].op
         /\ Data!Deletes(c)' => Data!Deletes(c) /\ v3 = v2 /\ (v2 = 0 <=> v4 = "none")
<1> DEFINE unsettled == v8[c].excused \/ v3 # v2 \/ (v2 = 0) # (v4 = "none")
<1>1. v8' = [v8 EXCEPT ![c] = [v8[c] EXCEPT !.at = "down", !.replicas = v2, !.old = v6 # "none",
                                            !.excused = unsettled]]
  BY DEF Data!ReadSpec
<1>2. v8[c] \in Data!Calls
  OBVIOUS
<1>3. v8'[c].at = "down" /\ v8'[c].op = v8[c].op /\ v8'[c].excused = unsettled
  <2> HIDE DEF unsettled
  <2> QED
    BY <1>1, <1>2 DEF Data!Calls
<1> QED
  BY <1>3 DEF Data!Deletes

LEMMA DataCleans ==
  ASSUME v8 \in [Actors -> Data!Calls], NEW c \in Actors, Data!Clean(c)
  PROVE  /\ v8'[c].at = v8[c].at /\ v8'[c].op = v8[c].op /\ v8'[c].old = v8[c].old
         /\ v8'[c].cleaned = TRUE /\ (Data!Deletes(c)' <=> Data!Deletes(c))
  BY DEF Data!Clean, Data!Calls, Data!Deletes

DataOk(d) == Data!LabelsOf(d) /\ (Data!Deletes(d) => Data!AsLeft(d)) /\ Data!OwnCleaner(d)

\* What a call is on replicas and claims, it was before the step.
DataSame(d) ==
  /\ Data!Deletes(d)' => Data!Deletes(d)
  /\ v8'[d].op = "delete_data" /\ ~Data!Returned(d)' => v8[d].op = "delete_data" /\ ~Data!Returned(d)

\* A new call finds no other on replicas and claims, or is excused, and so are others then.
LEMMA DataBegin ==
  ASSUME Data!Inv, NEW c \in Actors, NEW op \in {"delete_data", "recycle"},
         NEW label \in {"spec", "check"}, op = "delete_data" <=> label = "spec",
         Data!Begin(c, op, label)
  PROVE  Data!DeletesAlone' /\ \A d \in Actors : DataOk(d)'
<1>1. v8 \in [Actors -> Data!Calls]
  BY DEF Data!Inv, Data!TypeOK
<1>2. v8'[c].at = label /\ v8'[c].op = op
  BY <1>1 DEF Data!Begin, Data!Idle
<1>3. Data!Deletes(c)' => \A d \in Actors \ {c} : v8[d].op = "delete_data" => Data!Returned(d)
  BY <1>1 DEF Data!Begin, Data!Idle, Data!Deletes
<1>4. ASSUME NEW d \in Actors, d # c, Data!Returned(d)
      PROVE  v8'[d].op = "none" /\ v8'[d].at = "ok" /\ ~Data!Deletes(d)'
  BY <1>1, <1>4 DEF Data!Begin, Data!Idle, Data!Deletes
<1>5. ASSUME NEW d \in Actors, d # c, ~Data!Returned(d)
      PROVE  /\ v8'[d].at = v8[d].at /\ v8'[d].op = v8[d].op /\ v8'[d].old = v8[d].old
             /\ v8'[d].cleaned = v8[d].cleaned
             /\ Data!Deletes(d)' => Data!Deletes(d) /\ (v8[d].op = "delete_data" => op # "delete_data")
  BY <1>1, <1>5 DEF Data!Begin, Data!Calls, Data!Deletes
<1>6. UNCHANGED <<v1, v2, v3, v4, v6, v7>>
  BY DEF Data!Begin, Data!deployment
<1>7. ASSUME NEW d \in Actors, Data!Deletes(d) PROVE v8[d].op = "delete_data"
  BY <1>7 DEF Data!Deletes
<1>8. ASSUME NEW d \in Actors PROVE Data!Returned(d)' <=> (d # c /\ Data!Returned(d))
  BY <1>2, <1>4, <1>5 DEF Data!Returned, Data!At
<1>9. Data!DeletesAlone'
  BY <1>2, <1>3, <1>4, <1>5, <1>7, <1>8 DEF Data!Inv, Data!DeletesAlone
<1>10. DataOk(c)'
  BY <1>2 DEF DataOk, Data!LabelsOf, Data!AsLeft, Data!OwnCleaner, Data!At
<1>11. ASSUME NEW d \in Actors, d # c, Data!Returned(d) PROVE DataOk(d)'
  BY <1>4, <1>11 DEF DataOk, Data!LabelsOf, Data!OwnCleaner, Data!Returned, Data!At
<1>12. ASSUME NEW d \in Actors, d # c, ~Data!Returned(d) PROVE DataOk(d)'
  <2>1. DataOk(d)
    BY DEF Data!Inv, DataOk
  <2> QED
    BY <1>5, <1>6, <1>12, <2>1
    DEF DataOk, Data!LabelsOf, Data!AsLeft, Data!OwnCleaner, Data!Returned, Data!At
<1> QED
  BY <1>9, <1>10, <1>11, <1>12

\* A request of a call: its own data, and none of the others.
LEMMA DataOthers ==
  ASSUME Data!Inv, NEW c \in Actors, NEW d \in Actors \ {c},
         v8'[d] = v8[d], v7'[d] = v7[d],
         UNCHANGED <<v1, v2, v3, v4, v6>> \/ (v8[c].op = "delete_data" /\ ~Data!Returned(c))
  PROVE  DataOk(d)' /\ DataSame(d)
<1>1. Data!Deletes(d)' <=> Data!Deletes(d)
  BY DEF Data!Deletes
<1>2. DataOk(d) /\ (Data!Deletes(d) => UNCHANGED <<v1, v2, v3, v4, v6>>)
  BY DEF Data!Inv, DataOk, Data!DeletesAlone
<1> QED
  BY <1>1, <1>2 DEF DataOk, DataSame, Data!LabelsOf, Data!AsLeft, Data!OwnCleaner, Data!At,
     Data!Returned

\* The invariant of a deployment and the calls on it, one step after the other.
LEMMA DataStep == Data!Inv /\ Data!Next => Data!Inv'
<1> SUFFICES ASSUME Data!Inv, Data!Next PROVE Data!Inv'
  OBVIOUS
<1>1. Data!TypeOK /\ Data!TypeOK'
  BY DataType DEF Data!Inv
<1>2. /\ v8 \in [Actors -> Data!Calls] /\ v8' \in [Actors -> Data!Calls]
      /\ v7 \in [Actors -> {"none", "pending", "succeeded"}]
      /\ v6 \in {"bound", "going", "none"}
      /\ v1 \in BOOLEAN /\ (v2 = 0 <=> v2 # 1) /\ (v3 = 0 <=> v3 # 1)
      /\ (v2' = 0 <=> v2' # 1) /\ (v3' = 0 <=> v3' # 1)
  BY <1>1 DEF Data!TypeOK
<1>3. \A d \in Actors : DataOk(d)
  BY DEF Data!Inv, DataOk
<1>4. \A d \in Actors : v8[d].op \in {"none", "delete_data", "recycle"}
  BY <1>2 DEF Data!Calls
<1>5. ASSUME NEW d \in Actors PROVE Data!Deletes(d) => v8[d].op = "delete_data"
  BY DEF Data!Deletes
<1>6. ASSUME NEW d \in Actors, v8'[d] = v8[d] PROVE Data!Deletes(d)' <=> Data!Deletes(d)
  BY <1>6 DEF Data!Deletes
<1> DEFINE Others(c) == /\ \A d \in Actors \ {c} : v8'[d] = v8[d] /\ v7'[d] = v7[d]
                        /\ \/ UNCHANGED <<v1, v2, v3, v4, v6>>
                           \/ v8[c].op = "delete_data" /\ ~Data!Returned(c)
<1> USE DEF DataOk, DataSame, Data!LabelsOf, Data!OwnCleaner, Data!AsLeft, Data!At, Data!Returned,
            Data!deployment
<1>7. ASSUME Data!CreatePod, NEW d \in Actors PROVE DataOk(d)' /\ DataSame(d)
  BY <1>2, <1>3, <1>6, <1>7 DEF Data!CreatePod
<1>8. ASSUME Data!StartPod, NEW d \in Actors PROVE DataOk(d)' /\ DataSame(d)
  BY <1>2, <1>3, <1>6, <1>8 DEF Data!StartPod
<1>9. ASSUME Data!DeletePod, NEW d \in Actors PROVE DataOk(d)' /\ DataSame(d)
  BY <1>2, <1>3, <1>6, <1>9 DEF Data!DeletePod
<1>10. ASSUME Data!PodEnds, NEW d \in Actors PROVE DataOk(d)' /\ DataSame(d)
  BY <1>2, <1>3, <1>6, <1>10 DEF Data!PodEnds
<1>11. ASSUME Data!WriteStatus, NEW d \in Actors PROVE DataOk(d)' /\ DataSame(d)
  BY <1>2, <1>3, <1>6, <1>11 DEF Data!WriteStatus
<1>12. ASSUME Data!CreateClaim, NEW d \in Actors PROVE DataOk(d)' /\ DataSame(d)
  BY <1>2, <1>3, <1>6, <1>12 DEF Data!CreateClaim
<1>13. ASSUME Data!ReleaseClaim, NEW d \in Actors PROVE DataOk(d)' /\ DataSame(d)
  <2>1. /\ v8'[d].at = v8[d].at /\ v8'[d].op = v8[d].op /\ v8'[d].old = FALSE
        /\ v8'[d].cleaned = v8[d].cleaned /\ (Data!Deletes(d)' <=> Data!Deletes(d))
    BY <1>2, <1>13, DataReleases
  <2>2. UNCHANGED <<v1, v2, v3, v4, v7>>
    BY <1>13 DEF Data!ReleaseClaim
  <2> QED
    BY <1>3, <2>1, <2>2
<1>14. ASSUME NEW c \in Actors, Data!ScaleDown(c) PROVE Others(c) /\ DataOk(c)' /\ DataSame(c)
  <2>1. /\ \A d \in Actors \ {c} : v8'[d] = v8[d]
        /\ v8'[c].at = "wait down" /\ v8'[c].op = v8[c].op /\ v8'[c].old = v8[c].old
        /\ v8'[c].cleaned = v8[c].cleaned /\ (Data!Deletes(c)' <=> Data!Deletes(c))
    BY <1>2, <1>14, DataGoto DEF Data!ScaleDown, Data!Scale
  <2>2. Others(c)
    BY <1>2, <1>3, <1>4, <1>14, <2>1 DEF Data!ScaleDown, Data!Scale
  <2>3. DataOk(c)' /\ DataSame(c)
    BY <1>2, <1>3, <1>4, <1>5, <1>14, <2>1 DEF Data!ScaleDown, Data!Scale
  <2> QED
    BY <2>2, <2>3
<1>15. ASSUME NEW c \in Actors, Data!ScaleUp(c) PROVE Others(c) /\ DataOk(c)' /\ DataSame(c)
  <2>1. /\ \A d \in Actors \ {c} : v8'[d] = v8[d]
        /\ v8'[c].at = "wait up" /\ v8'[c].op = v8[c].op /\ v8'[c].old = v8[c].old
        /\ v8'[c].cleaned = v8[c].cleaned /\ (Data!Deletes(c)' <=> Data!Deletes(c))
    BY <1>2, <1>15, DataGoto DEF Data!ScaleUp, Data!Scale
  <2>2. Others(c)
    BY <1>2, <1>3, <1>4, <1>15, <2>1 DEF Data!ScaleUp, Data!Scale
  <2>3. DataOk(c)' /\ DataSame(c)
    BY <1>2, <1>3, <1>4, <1>5, <1>15, <2>1 DEF Data!ScaleUp, Data!Scale
  <2> QED
    BY <2>2, <2>3
<1>16. ASSUME NEW c \in Actors, Data!WaitUp(c) PROVE Others(c) /\ DataOk(c)' /\ DataSame(c)
  <2>1. /\ \A d \in Actors \ {c} : v8'[d] = v8[d]
        /\ v8'[c].at = "ok" /\ v8'[c].op = v8[c].op /\ v8'[c].old = v8[c].old
        /\ v8'[c].cleaned = v8[c].cleaned /\ (Data!Deletes(c)' <=> Data!Deletes(c))
    BY <1>2, <1>16, DataGoto DEF Data!WaitUp
  <2>2. Others(c)
    BY <1>2, <1>3, <1>4, <1>16, <2>1 DEF Data!WaitUp
  <2>3. DataOk(c)' /\ DataSame(c)
    BY <1>2, <1>3, <1>4, <1>5, <1>16, <2>1 DEF Data!WaitUp
  <2> QED
    BY <2>2, <2>3
<1>17. ASSUME NEW c \in Actors, Data!CreateCleaner(c) PROVE Others(c) /\ DataOk(c)' /\ DataSame(c)
  <2>1. /\ \A d \in Actors \ {c} : v8'[d] = v8[d]
        /\ v8'[c].at = "wait cleaner" /\ v8'[c].op = v8[c].op /\ v8'[c].old = v8[c].old
        /\ v8'[c].cleaned = v8[c].cleaned /\ (Data!Deletes(c)' <=> Data!Deletes(c))
    BY <1>2, <1>17, DataGoto DEF Data!CreateCleaner
  <2>2. Others(c)
    BY <1>2, <1>3, <1>4, <1>17, <2>1 DEF Data!CreateCleaner
  <2>3. DataOk(c)' /\ DataSame(c)
    BY <1>2, <1>3, <1>4, <1>5, <1>17, <2>1 DEF Data!CreateCleaner
  <2> QED
    BY <2>2, <2>3
<1>18. ASSUME NEW c \in Actors, Data!AwaitCleaner(c) PROVE Others(c) /\ DataOk(c)' /\ DataSame(c)
  <2>1. /\ \A d \in Actors \ {c} : v8'[d] = v8[d]
        /\ v8'[c].at = "delete cleaner" /\ v8'[c].op = v8[c].op /\ v8'[c].old = v8[c].old
        /\ v8'[c].cleaned = v8[c].cleaned /\ (Data!Deletes(c)' <=> Data!Deletes(c))
    BY <1>2, <1>18, DataGoto DEF Data!AwaitCleaner
  <2>2. Others(c)
    BY <1>2, <1>3, <1>4, <1>18, <2>1 DEF Data!AwaitCleaner
  <2>3. DataOk(c)' /\ DataSame(c)
    BY <1>2, <1>3, <1>4, <1>5, <1>18, <2>1 DEF Data!AwaitCleaner
  <2> QED
    BY <2>2, <2>3
<1>19. ASSUME NEW c \in Actors, Data!DeleteCleaner(c) PROVE Others(c) /\ DataOk(c)' /\ DataSame(c)
  <2>1. /\ \A d \in Actors \ {c} : v8'[d] = v8[d]
        /\ v8'[c].at = "ok" /\ v8'[c].op = v8[c].op /\ v8'[c].old = v8[c].old
        /\ v8'[c].cleaned = v8[c].cleaned /\ (Data!Deletes(c)' <=> Data!Deletes(c))
    BY <1>2, <1>19, DataGoto DEF Data!DeleteCleaner
  <2>2. Others(c)
    BY <1>2, <1>3, <1>4, <1>19, <2>1 DEF Data!DeleteCleaner
  <2>3. DataOk(c)' /\ DataSame(c)
    BY <1>2, <1>3, <1>4, <1>5, <1>19, <2>1 DEF Data!DeleteCleaner
  <2> QED
    BY <2>2, <2>3
<1>20. ASSUME NEW c \in Actors, Data!WaitDown(c) PROVE Others(c) /\ DataOk(c)' /\ DataSame(c)
  <2>1. CASE v1
    <3>1. /\ \A d \in Actors \ {c} : v8'[d] = v8[d]
          /\ v8'[c].at = "claim" /\ v8'[c].op = v8[c].op /\ v8'[c].old = v8[c].old
          /\ v8'[c].cleaned = v8[c].cleaned /\ (Data!Deletes(c)' <=> Data!Deletes(c))
      BY <1>2, <1>20, <2>1, DataGoto DEF Data!WaitDown
    <3>2. Others(c)
      BY <1>2, <1>3, <1>4, <1>20, <2>1, <3>1 DEF Data!WaitDown
    <3>3. DataOk(c)' /\ DataSame(c)
      BY <1>2, <1>3, <1>4, <1>5, <1>20, <2>1, <3>1 DEF Data!WaitDown
    <3> QED
      BY <3>2, <3>3
  <2>2. CASE ~v1
    <3>1. /\ \A d \in Actors \ {c} : v8'[d] = v8[d]
          /\ v8'[c].op = "none" /\ v8'[c].at = "raised" /\ ~Data!Deletes(c)'
      BY <1>2, <1>20, <2>2, DataRaise DEF Data!WaitDown
    <3>2. Others(c)
      BY <1>2, <1>3, <1>4, <1>20, <2>2, <3>1 DEF Data!WaitDown
    <3>3. DataOk(c)' /\ DataSame(c)
      BY <3>1
    <3> QED
      BY <3>2, <3>3
  <2> QED
    BY <1>20, <2>1, <2>2 DEF Data!WaitDown
<1>21. ASSUME NEW c \in Actors, Data!DeleteClaim(c) PROVE Others(c) /\ DataOk(c)' /\ DataSame(c)
  <2>1. CASE v6 # "none"
    <3>1. /\ \A d \in Actors \ {c} : v8'[d] = v8[d]
          /\ v8'[c].at = "up" /\ v8'[c].op = v8[c].op /\ v8'[c].old = v8[c].old
          /\ v8'[c].cleaned = v8[c].cleaned /\ (Data!Deletes(c)' <=> Data!Deletes(c))
      BY <1>2, <1>21, <2>1, DataGoto DEF Data!DeleteClaim
    <3>2. Others(c)
      BY <1>2, <1>3, <1>4, <1>21, <2>1, <3>1 DEF Data!DeleteClaim
    <3>3. DataOk(c)' /\ DataSame(c)
      BY <1>2, <1>3, <1>4, <1>5, <1>21, <2>1, <3>1 DEF Data!DeleteClaim
    <3> QED
      BY <3>2, <3>3
  <2>2. CASE v6 = "none"
    <3>1. /\ \A d \in Actors \ {c} : v8'[d] = v8[d]
          /\ v8'[c].op = "none" /\ v8'[c].at = "raised" /\ ~Data!Deletes(c)'
      BY <1>2, <1>21, <2>2, DataRaise DEF Data!DeleteClaim
    <3>2. Others(c)
      BY <1>2, <1>3, <1>4, <1>21, <2>2, <3>1 DEF Data!DeleteClaim
    <3>3. DataOk(c)' /\ DataSame(c)
      BY <3>1
    <3> QED
      BY <3>2, <3>3
  <2> QED
    BY <1>21, <2>1, <2>2 DEF Data!DeleteClaim
<1>22. ASSUME NEW c \in Actors, Data!CheckClaim(c) PROVE Others(c) /\ DataOk(c)' /\ DataSame(c)
  <2>1. CASE Data!Goto(c, "create")
    <3>1. /\ \A d \in Actors \ {c} : v8'[d] = v8[d]
          /\ v8'[c].at = "create" /\ v8'[c].op = v8[c].op /\ v8'[c].old = v8[c].old
          /\ v8'[c].cleaned = v8[c].cleaned /\ (Data!Deletes(c)' <=> Data!Deletes(c))
      BY <1>2, <1>22, <2>1, DataGoto DEF Data!CheckClaim
    <3>2. Others(c)
      BY <1>2, <1>3, <1>4, <1>22, <2>1, <3>1 DEF Data!CheckClaim
    <3>3. DataOk(c)' /\ DataSame(c)
      BY <1>2, <1>3, <1>4, <1>5, <1>22, <2>1, <3>1 DEF Data!CheckClaim
    <3> QED
      BY <3>2, <3>3
  <2>2. CASE Data!Raise(c)
    <3>1. /\ \A d \in Actors \ {c} : v8'[d] = v8[d]
          /\ v8'[c].op = "none" /\ v8'[c].at = "raised" /\ ~Data!Deletes(c)'
      BY <1>2, <1>22, <2>2, DataRaise DEF Data!CheckClaim
    <3>2. Others(c)
      BY <1>2, <1>3, <1>4, <1>22, <2>2, <3>1 DEF Data!CheckClaim
    <3>3. DataOk(c)' /\ DataSame(c)
      BY <3>1
    <3> QED
      BY <3>2, <3>3
  <2> QED
    BY <1>22, <2>1, <2>2 DEF Data!CheckClaim
<1>23. ASSUME NEW c \in Actors, Data!RequestFails(c) PROVE Others(c) /\ DataOk(c)' /\ DataSame(c)
  <2>1. /\ \A d \in Actors \ {c} : v8'[d] = v8[d]
        /\ v8'[c].op = "none" /\ v8'[c].at = "raised" /\ ~Data!Deletes(c)'
    BY <1>2, <1>23, DataRaise DEF Data!RequestFails
  <2>2. Others(c)
    BY <1>23, <2>1 DEF Data!RequestFails
  <2> QED
    BY <2>1, <2>2
<1>24. ASSUME NEW c \in Actors, Data!WaitTimesOut(c) PROVE Others(c) /\ DataOk(c)' /\ DataSame(c)
  <2>1. /\ \A d \in Actors \ {c} : v8'[d] = v8[d]
        /\ v8'[c].op = "none" /\ v8'[c].at = "raised" /\ ~Data!Deletes(c)'
    BY <1>2, <1>24, DataRaise DEF Data!WaitTimesOut
  <2>2. Others(c)
    BY <1>24, <2>1 DEF Data!WaitTimesOut
  <2> QED
    BY <2>1, <2>2
<1>25. ASSUME NEW c \in Actors, Data!ReadSpec(c) PROVE Others(c) /\ DataOk(c)' /\ DataSame(c)
  <2>1. Others(c)
    BY <1>2, <1>25 DEF Data!ReadSpec
  <2>2. /\ v8'[c].at = "down" /\ v8'[c].op = v8[c].op
        /\ Data!Deletes(c)' => Data!Deletes(c) /\ v3 = v2 /\ (v2 = 0 <=> v4 = "none")
    BY <1>2, <1>25, DataReads
  <2>3. v8[c].at = "spec" /\ UNCHANGED <<v1, v2, v3, v4, v6, v7>>
    BY <1>25 DEF Data!ReadSpec
  <2>4. DataOk(c)' /\ DataSame(c)
    BY <1>3, <1>4, <2>2, <2>3
  <2> QED
    BY <2>1, <2>4
<1>26. ASSUME NEW c \in Actors, Data!Clean(c) PROVE Others(c) /\ DataOk(c)' /\ DataSame(c)
  <2>1. Others(c)
    BY <1>2, <1>26 DEF Data!Clean
  <2>2. /\ v8'[c].at = v8[c].at /\ v8'[c].op = v8[c].op /\ v8'[c].old = v8[c].old
        /\ v8'[c].cleaned = TRUE /\ (Data!Deletes(c)' <=> Data!Deletes(c))
    BY <1>2, <1>26, DataCleans
  <2>3. UNCHANGED <<v1, v2, v3, v4, v6>>
    BY <1>26 DEF Data!Clean
  <2>4. DataOk(c)' /\ DataSame(c)
    BY <1>3, <2>2, <2>3
  <2> QED
    BY <2>1, <2>4
<1> HIDE DEF DataOk, DataSame
<1>27. ASSUME NEW c \in Actors, Others(c) /\ DataOk(c)' /\ DataSame(c), NEW d \in Actors
      PROVE  DataOk(d)' /\ DataSame(d)
  BY <1>27, DataOthers
<1> HIDE DEF Others
<1>28. ASSUME NEW c \in Actors, Data!delete_deployment_data(c) \/ Data!recycle_pvc(c) PROVE Data!Inv'
  <2>1. Data!DeletesAlone' /\ \A d \in Actors : DataOk(d)'
    BY <1>28, DataBegin DEF Data!delete_deployment_data, Data!recycle_pvc
  <2> QED
    BY <1>1, <2>1 DEF Data!Inv, DataOk
<1>29. ASSUME \A d \in Actors : DataOk(d)' /\ DataSame(d) PROVE Data!Inv'
  <2>1. Data!DeletesAlone'
    BY <1>29 DEF Data!Inv, Data!DeletesAlone, DataSame
  <2> QED
    BY <1>1, <1>29, <2>1 DEF Data!Inv, DataOk
<1>30. CASE \E c \in Actors : Data!delete_deployment_data(c) \/ Data!recycle_pvc(c)
  BY <1>28, <1>30
<1>31. CASE ~\E c \in Actors : Data!delete_deployment_data(c) \/ Data!recycle_pvc(c)
  <2>1. \/ \A d \in Actors : DataOk(d)' /\ DataSame(d)
        \/ \E c \in Actors : Others(c) /\ DataOk(c)' /\ DataSame(c)
    BY <1>31, <1>7, <1>8, <1>9, <1>10, <1>11, <1>12, <1>13,
       <1>14, <1>15, <1>16, <1>17, <1>18, <1>19, <1>20, <1>21, <1>22, <1>23, <1>24, <1>25, <1>26
    DEF Data!Next
  <2> QED
    BY <1>27, <1>29, <2>1
<1> QED
  BY <1>30, <1>31

LEMMA DataSafe == Data!Inv => Data!DataIsDeleted /\ Data!RecycleHasCleaned
<1> SUFFICES ASSUME Data!Inv, NEW c \in Actors
             PROVE  /\ Data!Deletes(c) /\ Data!At(c, "ok") /\ v4 = "running" => ~v8[c].old
                    /\ v8[c].op = "recycle" /\ Data!At(c, "ok") => v8[c].cleaned
  BY DEF Data!DataIsDeleted, Data!RecycleHasCleaned, Data!Deletes
<1> QED
  BY DEF Data!Inv, Data!AsLeft, Data!OwnCleaner

\* Nothing of a deployment changes when nothing changes.
LEMMA DataStutter == Data!Inv /\ UNCHANGED vars => Data!Inv'
<1> SUFFICES ASSUME Data!Inv, UNCHANGED vars PROVE Data!Inv'
  OBVIOUS
<1>1. UNCHANGED <<v1, v2, v3, v4, v5, v6, v7, v8, v9>>
  BY DEF vars
<1>2. Data!TypeOK'
  BY <1>1 DEF Data!Inv, Data!TypeOK
<1>3. ASSUME NEW d \in Actors PROVE DataOk(d)' /\ DataSame(d)
  <2>1. (Data!Deletes(d)' <=> Data!Deletes(d)) /\ (Data!Returned(d)' <=> Data!Returned(d))
    BY <1>1 DEF Data!Deletes, Data!Returned, Data!At
  <2>2. DataOk(d)
    BY DEF Data!Inv, DataOk
  <2> QED
    BY <1>1, <2>1, <2>2 DEF DataOk, DataSame, Data!LabelsOf, Data!AsLeft, Data!OwnCleaner, Data!At
<1>4. Data!DeletesAlone'
  BY <1>3 DEF Data!Inv, Data!DeletesAlone, DataSame
<1> QED
  BY <1>2, <1>3, <1>4 DEF Data!Inv, DataOk

LEMMA DataAlways == Spec => [](focus = "data" => Data!Inv)
<1> DEFINE Holds == focus = "data" => Data!Inv
<1>1. Init => Holds
  BY DataInit DEF Init
<1>2. Holds /\ [Next]_vars => Holds'
  <2>1. ASSUME Holds, Next, focus' = "data" PROVE Data!Inv'
    BY <2>1, DataStep DEF Next
  <2>2. ASSUME Holds, UNCHANGED vars, focus' = "data" PROVE Data!Inv'
    BY <2>2, DataStutter DEF vars
  <2> QED
    BY <2>1, <2>2
<1> QED
  BY <1>1, <1>2, PTL DEF Spec

\* After delete_deployment_data no pod runs with the data there was, and recycle_pvc has
\* cleaned the volume, for any number of callers and of requests that fail.
THEOREM DataGoesWithTheCall == Spec => []DataIsGone
<1> DEFINE Holds == focus = "data" => Data!Inv
<1>1. Holds => DataIsGone
  BY DataSafe DEF DataIsGone, Data!Inv
<1> QED
  BY <1>1, DataAlways, PTL

-----------------------------------------------------------------------------
(* A job of kubernetes.                                                    *)

LEMMA JobInit == Jobs!Init => Jobs!Inv
  BY BoundsAssumption DEF Jobs!Init, Jobs!Inv, Jobs!TypeOK, Jobs!Calls, Jobs!Idle, Jobs!At

\* Every command leaves a call that waits, or has waited, with a new job.
LEMMA JobStep == Jobs!Inv /\ Jobs!Next => Jobs!Inv'
<1> SUFFICES ASSUME Jobs!Inv, Jobs!Next PROVE Jobs!Inv'
  OBVIOUS
<1> DEFINE Fresh(d) == v2[d].at \in {"succeeded", "ok"} => v2[d].fresh
<1>1. v2 \in [Actors -> Jobs!Calls] /\ v1 \in Jobs!JobStates /\ v3 \in 0..MaxFaults
  BY DEF Jobs!Inv, Jobs!TypeOK
<1>2. \A d \in Actors : Fresh(d)
  BY DEF Jobs!Inv, Jobs!At
<1>3. ASSUME v2' \in [Actors -> Jobs!Calls], \A d \in Actors : Fresh(d)'
      PROVE  Jobs!Inv'
  <2>1. v1' \in Jobs!JobStates
    BY <1>1 DEF Jobs!Next, Jobs!JobSucceeds, Jobs!re_run_job, Jobs!get_job, Jobs!ReplaceJobDeletes,
       Jobs!ReplaceJobCreates, Jobs!AwaitJob, Jobs!CommandFails, Jobs!JobStates
  <2>2. v3' \in 0..MaxFaults
    <3>1. v3' = v3 \/ (v3 > 0 /\ v3' = v3 - 1)
      BY DEF Jobs!Next, Jobs!JobSucceeds, Jobs!re_run_job, Jobs!get_job, Jobs!ReplaceJobDeletes,
         Jobs!ReplaceJobCreates, Jobs!AwaitJob, Jobs!CommandFails
    <3> QED
      BY <1>1, <3>1, BoundsAssumption
  <2> QED
    BY <1>3, <2>1, <2>2 DEF Jobs!Inv, Jobs!TypeOK, Jobs!At
<1>4. CASE Jobs!JobSucceeds
  BY <1>1, <1>2, <1>3, <1>4 DEF Jobs!JobSucceeds
<1>5. ASSUME NEW c \in Actors, NEW label \in {"delete job", "create job", "ok"},
             v2' = [v2 EXCEPT ![c].at = label], label = "ok" => v2[c].at = "succeeded"
      PROVE  Jobs!Inv'
  <2>1. v2' \in [Actors -> Jobs!Calls]
    BY <1>1, <1>5 DEF Jobs!Calls
  <2>2. ASSUME NEW d \in Actors PROVE Fresh(d)'
    BY <1>1, <1>2, <1>5 DEF Jobs!Calls
  <2> QED
    BY <1>3, <2>1, <2>2
<1>6. ASSUME NEW c \in Actors, NEW x \in Jobs!Calls, x.at \notin {"succeeded", "ok"},
             v2' = [v2 EXCEPT ![c] = x]
      PROVE  Jobs!Inv'
  BY <1>1, <1>2, <1>3, <1>6
<1>7. ASSUME NEW c \in Actors, Jobs!Raise(c) PROVE Jobs!Inv'
  <2>1. [Jobs!Idle EXCEPT !.at = "raised"] \in Jobs!Calls /\ [Jobs!Idle EXCEPT !.at = "raised"].at = "raised"
    BY DEF Jobs!Idle, Jobs!Calls
  <2> QED
    BY <1>6, <1>7, <2>1 DEF Jobs!Raise
<1>8. ASSUME NEW c \in Actors, Jobs!re_run_job(c) PROVE Jobs!Inv'
  <2>1. [at |-> "get job", fresh |-> FALSE] \in Jobs!Calls
    BY DEF Jobs!Calls
  <2> QED
    BY <1>6, <1>8, <2>1 DEF Jobs!re_run_job
<1>9. ASSUME NEW c \in Actors, Jobs!ReplaceJobCreates(c), v1 = "none" PROVE Jobs!Inv'
  <2>1. v2' = [d \in Actors |-> IF d = c THEN [at |-> "succeeded", fresh |-> TRUE]
                                ELSE [v2[d] EXCEPT !.fresh = @ \/ ~Jobs!Returned(d)]]
    BY <1>9 DEF Jobs!ReplaceJobCreates
  <2>2. ASSUME NEW d \in Actors PROVE v2'[d] \in Jobs!Calls /\ Fresh(d)'
    <3>1. CASE d = c
      BY <2>1, <3>1 DEF Jobs!Calls
    <3>2. CASE d # c
      <4>1. v2'[d] = [v2[d] EXCEPT !.fresh = v2[d].fresh \/ ~Jobs!Returned(d)]
        BY <2>1, <3>2
      <4>2. v2[d] \in Jobs!Calls
        BY <1>1
      <4>3. v2'[d] \in Jobs!Calls /\ v2'[d].at = v2[d].at /\ (v2[d].fresh => v2'[d].fresh)
        BY <4>1, <4>2 DEF Jobs!Calls
      <4> QED
        BY <1>2, <4>3
    <3> QED
      BY <3>1, <3>2
  <2>3. v2' \in [Actors -> Jobs!Calls]
    BY <2>1, <2>2
  <2> QED
    BY <1>3, <2>2, <2>3
<1>10. ASSUME NEW c \in Actors,
             \/ Jobs!get_job(c) \/ Jobs!ReplaceJobDeletes(c) \/ Jobs!AwaitJob(c) \/ Jobs!CommandFails(c)
             \/ (Jobs!ReplaceJobCreates(c) /\ v1 # "none")
      PROVE  Jobs!Inv'
  BY <1>5, <1>10, <1>7 DEF Jobs!get_job, Jobs!ReplaceJobDeletes, Jobs!AwaitJob,
     Jobs!CommandFails, Jobs!ReplaceJobCreates, Jobs!Goto, Jobs!At
<1> QED
  BY <1>4, <1>9, <1>10, <1>8 DEF Jobs!Next

LEMMA JobStutter == Jobs!Inv /\ UNCHANGED vars => Jobs!Inv'
<1> SUFFICES ASSUME Jobs!Inv, UNCHANGED <<v1, v2, v3>> PROVE Jobs!Inv'
  BY DEF vars
<1> QED
  BY DEF Jobs!Inv, Jobs!TypeOK, Jobs!At

-----------------------------------------------------------------------------
(* The environment and the probe of a deployment.                          *)

EditNames == Actors \cup {None}

\* The index of a variable is one of the variables there are.
LEMMA EditIndex ==
  ASSUME NEW vs \in Seq(EditNames), vs # <<>>, NEW name
  PROVE  Edits!Index(vs, name) \in 1..Len(vs)
<1> DEFINE Named == {i \in 1..Len(vs) : vs[i] = name}
<1> DEFINE Less == {ij \in Nat \X Nat : ij[1] < ij[2]}
<1>1. Len(vs) \in 1..Len(vs)
  BY EmptySeq, LenProperties
<1>2. CASE Named # {}
  <2>1. IsWellFoundedOn(Less, Nat)
    BY NatLessThanWellFounded DEF OpToRel
  <2>2. Named \subseteq Nat
    BY <1>1
  <2>3. PICK i \in Named : \A j \in Named : ~(<<j, i>> \in Less)
    <3> HIDE DEF Named, Less
    <3> QED
      BY <1>2, <2>1, <2>2, WFMin
  <2>4. ASSUME NEW j \in 1..(i - 1), vs[j] = name PROVE FALSE
    <3>1. j \in Named /\ j < i
      BY <1>1, <2>4
    <3>2. <<j, i>> \in Less
      BY <2>2, <3>1
    <3> QED
      BY <2>3, <3>1, <3>2
  <2> QED
    BY <2>3, <2>4 DEF Edits!Index
<1>3. CASE Named = {}
  BY <1>1, <1>3 DEF Edits!Index
<1> QED
  BY <1>2, <1>3

LEMMA EditsInit == Edits!Init => Edits!Inv
<1> SUFFICES ASSUME Edits!Init PROVE Edits!Inv
  OBVIOUS
<1>1. v1 \in Seq(EditNames) /\ v1 # <<>>
  BY DEF Edits!Init, EditNames
<1>2. v3 \in [Actors -> Edits!Calls]
  <2>1. Edits!Idle \in Edits!Calls
    BY DEF Edits!Idle, Edits!Calls
  <2> QED
    BY <2>1 DEF Edits!Init
<1>3. v4 \in 0..MaxFaults
  BY BoundsAssumption DEF Edits!Init
<1>4. Edits!TypeOK
  BY <1>1, <1>2, <1>3 DEF Edits!Init, Edits!TypeOK, EditNames
<1> QED
  BY <1>1, <1>4 DEF Edits!Init, Edits!Inv, Edits!Idle, Edits!ReadIsCurrent, Edits!EditsAreKept, Edits!At

\* What holds of each caller.
EditOk(d) ==
  /\ Edits!ReadIsCurrent(d)
  /\ Edits!At(d, "ok") /\ ~v3[d].excused =>
       /\ v3[d].op \in {"add_env", "change_env"} => d \in Edits!Sets
       /\ v3[d].op = "disable_probe" => ~v2

LEMMA EditsInv ==
  Edits!Inv <=> Edits!TypeOK /\ v1 # <<>> /\ \A d \in Actors : EditOk(d)
  BY DEF Edits!Inv, Edits!EditsAreKept, EditOk

LEMMA EditsInvNext ==
  Edits!Inv' <=> Edits!TypeOK' /\ v1' # <<>> /\ \A d \in Actors : EditOk(d)'
  BY DEF Edits!Inv, Edits!EditsAreKept, EditOk

\* Every step keeps the types and a variable.
LEMMA EditsType == Edits!Inv /\ Edits!Next => Edits!TypeOK' /\ v1' # <<>>
<1> SUFFICES ASSUME Edits!Inv, Edits!Next PROVE Edits!TypeOK' /\ v1' # <<>>
  OBVIOUS
<1>1. /\ v1 \in Seq(EditNames) /\ v1 # <<>> /\ v2 \in BOOLEAN
      /\ v3 \in [Actors -> Edits!Calls] /\ v4 \in 0..MaxFaults
  BY DEF Edits!Inv, Edits!TypeOK, EditNames
<1> DEFINE Calls == [op : {"none", "add_env", "change_env", "disable_probe"},
                     at : {"ok", "raised", "read", "replace"}, name : EditNames,
                     read : Seq(EditNames), probe : BOOLEAN, fresh : BOOLEAN, excused : BOOLEAN]
<1>2. Edits!Calls = Calls
  BY DEF Edits!Calls, EditNames
<1>3. Edits!Idle \in Calls
  <2>1. Edits!Idle \in Edits!Calls
    BY DEF Edits!Idle, Edits!Calls
  <2> QED
    BY <1>2, <2>1
<1>4. v4' \in 0..MaxFaults
  <2>1. v4' = v4 \/ (v4 > 0 /\ v4' = v4 - 1)
    BY DEF Edits!Next, Edits!OtherChange, Edits!add_env_to_workload, Edits!change_env_from_deployment,
       Edits!disable_liveness_probe, Edits!Begin, Edits!ReadWorkload, Edits!ReplaceWorkload,
       Edits!RequestFails
  <2> QED
    BY <1>1, <2>1, BoundsAssumption
<1>5. ASSUME v3' \in [Actors -> Calls], UNCHANGED <<v1, v2>> PROVE Edits!TypeOK' /\ v1' # <<>>
  BY <1>1, <1>2, <1>4, <1>5 DEF Edits!TypeOK, EditNames
<1> HIDE DEF Calls
<1>6. ASSUME NEW c \in Actors, Edits!Raise(c) PROVE v3' \in [Actors -> Calls]
  <2>1. [Edits!Idle EXCEPT !.at = "raised"] \in Calls
    BY <1>3 DEF Edits!Idle, Calls
  <2> QED
    BY <1>1, <1>2, <1>6, <2>1 DEF Edits!Raise
<1>7. CASE Edits!OtherChange
  <2>1. ASSUME NEW d \in Actors PROVE v3'[d] \in Calls
    BY <1>1, <1>2, <1>7 DEF Edits!OtherChange, Edits!Changed, Calls
  <2> QED
    BY <1>5, <1>7, <2>1 DEF Edits!OtherChange, Edits!Changed
<1>8. ASSUME NEW c \in Actors, NEW op \in {"add_env", "change_env", "disable_probe"},
             NEW name \in EditNames, Edits!Begin(c, op, name)
      PROVE  Edits!TypeOK' /\ v1' # <<>>
  <2>1. [Edits!Idle EXCEPT !.op = op, !.at = "read", !.name = name] \in Calls
    BY <1>3 DEF Edits!Idle, Calls
  <2> QED
    BY <1>1, <1>2, <1>3, <1>5, <1>8, <2>1 DEF Edits!Begin
<1>9. ASSUME NEW c \in Actors, Edits!ReadWorkload(c) PROVE Edits!TypeOK' /\ v1' # <<>>
  <2> DEFINE x == [v3[c] EXCEPT !.at = "replace", !.read = v1, !.probe = v2, !.fresh = TRUE]
  <2>1. v3' = [v3 EXCEPT ![c] = x]
    BY <1>1, <1>9 DEF Edits!ReadWorkload
  <2>2. x \in Calls
    BY <1>1, <1>2 DEF Calls
  <2>3. v3' \in [Actors -> Calls]
    BY <1>1, <1>2, <2>1, <2>2
  <2> QED
    BY <1>5, <1>9, <2>3 DEF Edits!ReadWorkload
<1>10. ASSUME NEW c \in Actors, Edits!RequestFails(c) PROVE Edits!TypeOK' /\ v1' # <<>>
  BY <1>5, <1>6, <1>10 DEF Edits!RequestFails
<1>11. ASSUME NEW c \in Actors, Edits!ReplaceWorkload(c), ~v3[c].fresh
       PROVE  Edits!TypeOK' /\ v1' # <<>>
  BY <1>5, <1>6, <1>11 DEF Edits!ReplaceWorkload
<1>12. ASSUME NEW c \in Actors, Edits!ReplaceWorkload(c), v3[c].fresh
       PROVE  Edits!TypeOK' /\ v1' # <<>>
  <2>1. Edits!Replace(c) /\ v3[c].read = v1
    BY <1>12 DEF Edits!ReplaceWorkload, Edits!Inv, Edits!ReadIsCurrent
  <2> DEFINE i == Edits!Index(v1, v3[c].name)
  <2>2. i \in 1..Len(v1)
    BY <1>1, EditIndex
  <2>3. Append(v1, c) \in Seq(EditNames) /\ Append(v1, c) # <<>>
    BY <1>1, AppendProperties DEF EditNames
  <2>4. [v1 EXCEPT ![i] = c] \in Seq(EditNames) /\ [v1 EXCEPT ![i] = c] # <<>>
    BY <1>1, <2>2, ExceptSeq DEF EditNames
  <2>5. v1' \in Seq(EditNames) /\ v1' # <<>> /\ v2' \in BOOLEAN
    BY <1>1, <2>1, <2>3, <2>4 DEF Edits!Replace
  <2>6. ASSUME NEW d \in Actors PROVE v3'[d] \in Calls
    <3>1. <<>> \in Seq(EditNames)
      OBVIOUS
    <3> QED
      <4> DEFINE Now == IF d = c THEN [v3[d] EXCEPT !.at = "ok", !.read = <<>>]
                        ELSE [v3[d] EXCEPT !.excused = v3[d].excused
                                             \/ (v3[c].op = "change_env" /\ v3[c].read[i] = d)]
      <4>1. v3'[d] = [Now EXCEPT !.fresh = FALSE]
        BY <2>1 DEF Edits!Replace, Edits!Changed
      <4>2. v3[d] \in Calls
        BY <1>1, <1>2
      <4>3. Now \in Calls
        <5> HIDE DEF i
        <5> QED
          BY <3>1, <4>2 DEF Calls
      <4> HIDE DEF Now
      <4> QED
        BY <4>1, <4>3 DEF Calls
  <2>7. v3' \in [Actors -> Calls]
    BY <2>1, <2>6 DEF Edits!Replace, Edits!Changed
  <2> QED
    BY <1>2, <1>4, <2>5, <2>7 DEF Edits!TypeOK, EditNames
<1> QED
  BY <1>7, <1>8, <1>9, <1>10, <1>11, <1>12 DEF Edits!Next, Edits!add_env_to_workload,
     Edits!change_env_from_deployment, Edits!disable_liveness_probe, EditNames

\* A caller to whom nothing happens but that what it has read is not current any more.
LEMMA EditOthers ==
  ASSUME NEW d \in Actors, EditOk(d), Edits!Sets \subseteq Edits!Sets', v2' => v2,
         v3'[d].at = v3[d].at, v3'[d].op = v3[d].op, v3'[d].read = v3[d].read,
         v3'[d].probe = v3[d].probe, v3[d].excused => v3'[d].excused,
         v3'[d].fresh => v3[d].fresh /\ UNCHANGED <<v1, v2>>
  PROVE  EditOk(d)'
  BY DEF EditOk, Edits!ReadIsCurrent, Edits!At

LEMMA EditsStep == Edits!Inv /\ Edits!Next => Edits!Inv'
<1> SUFFICES ASSUME Edits!Inv, Edits!Next PROVE \A d \in Actors : EditOk(d)'
  BY EditsType, EditsInvNext
<1>1. /\ v1 \in Seq(EditNames) /\ v1 # <<>> /\ v2 \in BOOLEAN /\ v3 \in [Actors -> Edits!Calls]
      /\ \A d \in Actors : EditOk(d)
  BY EditsInv DEF Edits!TypeOK, EditNames
<1>2. ASSUME UNCHANGED <<v1, v2>> PROVE Edits!Sets' = Edits!Sets
  BY <1>2 DEF Edits!Sets
<1>3. ASSUME NEW d \in Actors, v3'[d] = v3[d], UNCHANGED <<v1, v2>> PROVE EditOk(d)'
  BY <1>1, <1>2, <1>3, EditOthers
<1>4. ASSUME NEW d \in Actors, v3'[d].op = "none" \/ v3'[d].at = "read", v3'[d].at # "replace"
      PROVE  EditOk(d)'
  BY <1>4 DEF EditOk, Edits!ReadIsCurrent, Edits!At
<1>5. ASSUME NEW c \in Actors, Edits!Raise(c), UNCHANGED <<v1, v2>>, NEW d \in Actors
      PROVE  EditOk(d)'
  <2>1. v3'[c].op = "none" /\ v3'[c].at = "raised" /\ (d # c => v3'[d] = v3[d])
    BY <1>1, <1>5 DEF Edits!Raise, Edits!Idle
  <2> QED
    BY <1>3, <1>4, <1>5, <2>1
<1>6. ASSUME Edits!OtherChange, NEW d \in Actors PROVE EditOk(d)'
  <2>1. /\ v3'[d].at = v3[d].at /\ v3'[d].op = v3[d].op /\ v3'[d].read = v3[d].read
        /\ v3'[d].probe = v3[d].probe /\ v3'[d].excused = v3[d].excused /\ ~v3'[d].fresh
    BY <1>1, <1>6 DEF Edits!OtherChange, Edits!Changed, Edits!Calls
  <2>2. UNCHANGED <<v1, v2>>
    BY <1>6 DEF Edits!OtherChange
  <2> QED
    BY <1>1, <1>2, <2>1, <2>2, EditOthers
<1>7. ASSUME NEW c \in Actors, NEW op, NEW name, Edits!Begin(c, op, name), NEW d \in Actors
      PROVE  EditOk(d)'
  <2>1. CASE d = c
    BY <1>1, <1>4, <1>7, <2>1 DEF Edits!Begin, Edits!Idle
  <2>2. CASE d # c /\ Edits!Returned(d)
    BY <1>1, <1>4, <1>7, <2>2 DEF Edits!Begin, Edits!Idle
  <2>3. CASE d # c /\ ~Edits!Returned(d)
    BY <1>1, <1>3, <1>7, <2>3 DEF Edits!Begin
  <2> QED
    BY <2>1, <2>2, <2>3
<1>8. ASSUME NEW c \in Actors, Edits!ReadWorkload(c), NEW d \in Actors PROVE EditOk(d)'
  <2>1. v3'[c].at = "replace" /\ v3'[c].read = v1 /\ v3'[c].probe = v2 /\ UNCHANGED <<v1, v2>>
    BY <1>1, <1>8 DEF Edits!ReadWorkload, Edits!Calls
  <2>2. CASE d = c
    BY <2>1, <2>2 DEF EditOk, Edits!ReadIsCurrent, Edits!At
  <2>3. CASE d # c
    BY <1>1, <1>3, <1>8, <2>1, <2>3 DEF Edits!ReadWorkload
  <2> QED
    BY <2>2, <2>3
<1>9. ASSUME NEW c \in Actors, Edits!ReplaceWorkload(c), v3[c].fresh, NEW d \in Actors
      PROVE  EditOk(d)'
  <2>1. Edits!Replace(c) /\ v3[c].read = v1 /\ v3[c].probe = v2
    BY <1>1, <1>9 DEF Edits!ReplaceWorkload, EditOk, Edits!ReadIsCurrent
  <2> DEFINE i == Edits!Index(v1, v3[c].name)
  <2>2. i \in 1..Len(v1)
    BY <1>1, EditIndex
  <2> DEFINE Now(e) == IF e = c THEN [v3[e] EXCEPT !.at = "ok", !.read = <<>>]
                       ELSE [v3[e] EXCEPT !.excused = @ \/ (v3[c].op = "change_env" /\ v1[i] = e)]
  <2>3. v2' = (v2 /\ v3[c].op # "disable_probe")
    BY <2>1 DEF Edits!Replace
  <2>4. /\ v3'[c].at = "ok" /\ v3'[c].op = v3[c].op
    <3>1. v3'[c] = [Now(c) EXCEPT !.fresh = FALSE]
      BY <2>1 DEF Edits!Replace, Edits!Changed
    <3> QED
      BY <1>1, <3>1 DEF Edits!Calls
  <2>5. ASSUME d # c
        PROVE  /\ v3'[d].at = v3[d].at /\ v3'[d].op = v3[d].op /\ v3'[d].read = v3[d].read
               /\ v3'[d].probe = v3[d].probe /\ ~v3'[d].fresh
               /\ v3'[d].excused <=> (v3[d].excused \/ (v3[c].op = "change_env" /\ v1[i] = d))
    <3>1. v3'[d] = [Now(d) EXCEPT !.fresh = FALSE]
      BY <2>1 DEF Edits!Replace, Edits!Changed
    <3>2. v3[d] \in Edits!Calls
      BY <1>1
    <3> HIDE DEF i
    <3> QED
      BY <2>5, <3>1, <3>2 DEF Edits!Calls
  <2> DEFINE Named(vs) == {vs[j] : j \in 1..Len(vs)}
  <2>6. CASE v3[c].op = "add_env"
    <3>1. v1' = Append(v1, c)
      BY <2>1, <2>6 DEF Edits!Replace
    <3>2. Named(Append(v1, c)) = Named(v1) \cup {c}
      <4>1. Len(Append(v1, c)) = Len(v1) + 1 /\ Len(v1) \in Nat
        BY <1>1 DEF EditNames
      <4>2. /\ Append(v1, c)[Len(v1) + 1] = c
            /\ \A j \in 1..Len(v1) : Append(v1, c)[j] = v1[j]
        BY <1>1 DEF EditNames
      <4>3. 1..(Len(v1) + 1) = 1..Len(v1) \cup {Len(v1) + 1}
        BY <4>1
      <4> QED
        BY <4>1, <4>2, <4>3
    <3>3. Edits!Sets \cup {c} \subseteq Edits!Sets'
      BY <3>1, <3>2 DEF Edits!Sets
    <3> QED
      BY <1>1, <2>3, <2>4, <2>5, <2>6, <3>3 DEF EditOk, Edits!ReadIsCurrent, Edits!At
  <2>7. CASE v3[c].op = "change_env"
    <3>1. v1' = [v1 EXCEPT ![i] = c]
      BY <2>1, <2>7 DEF Edits!Replace
    <3>2. Len(v1') = Len(v1) /\ v1'[i] = c /\ \A j \in 1..Len(v1) : j # i => v1'[j] = v1[j]
      BY <1>1, <2>2, <3>1, ExceptSeq DEF EditNames
    <3>3. Edits!Sets \ {v1[i]} \subseteq Edits!Sets' /\ c \in Edits!Sets'
      BY <2>2, <3>2 DEF Edits!Sets
    <3> HIDE DEF i
    <3> QED
      BY <1>1, <2>3, <2>4, <2>5, <2>7, <3>3 DEF EditOk, Edits!ReadIsCurrent, Edits!At
  <2>8. CASE v3[c].op \notin {"add_env", "change_env"}
    <3>1. v1' = v1
      BY <2>1, <2>8 DEF Edits!Replace
    <3>2. Edits!Sets' = Edits!Sets
      BY <3>1 DEF Edits!Sets
    <3> QED
      BY <1>1, <2>3, <2>4, <2>5, <2>8, <3>2 DEF EditOk, Edits!ReadIsCurrent, Edits!At
  <2> QED
    BY <2>6, <2>7, <2>8
<1>10. ASSUME NEW c \in Actors,
              Edits!RequestFails(c) \/ (Edits!ReplaceWorkload(c) /\ ~v3[c].fresh), NEW d \in Actors
       PROVE  EditOk(d)'
  BY <1>5, <1>10 DEF Edits!RequestFails, Edits!ReplaceWorkload
<1> QED
  BY <1>6, <1>7, <1>8, <1>9, <1>10 DEF Edits!Next, Edits!add_env_to_workload,
     Edits!change_env_from_deployment, Edits!disable_liveness_probe

LEMMA EditsStutter == Edits!Inv /\ UNCHANGED vars => Edits!Inv'
<1> SUFFICES ASSUME Edits!Inv, UNCHANGED <<v1, v2, v3, v4>> PROVE Edits!Inv'
  BY DEF vars
<1>1. Edits!TypeOK' /\ v1' # <<>>
  BY EditsInv DEF Edits!TypeOK
<1>2. ASSUME NEW d \in Actors PROVE EditOk(d)'
  BY EditsInv DEF EditOk, Edits!ReadIsCurrent, Edits!At, Edits!Sets
<1> QED
  BY <1>1, <1>2, EditsInvNext

-----------------------------------------------------------------------------
(* A configmap, a deployment and its pods.                                 *)

K8sOk(d) == K8s!LabelsOf(d) /\ K8s!KeyIsKept(d) /\ K8s!CountIsTrue(d)

LEMMA K8sCardinality == ASSUME NEW ss PROVE K8s!Cardinality(ss) = Cardinality(ss)
  BY DEF K8s!Cardinality, Cardinality

\* There are as many replicas at most as there is room for pods.
LEMMA K8sCounts ==
  ASSUME NEW ss \in SUBSET Things
  PROVE  /\ K8s!Cardinality(ss) \in 0..K8s!MaxReplicas
         /\ K8s!Cardinality(ss) = 0 <=> ss = {}
         /\ \A ready \in SUBSET ss : K8s!Cardinality(ready) = K8s!Cardinality(ss) => ready = ss
<1>1. IsFiniteSet(ss) /\ Cardinality(ss) <= Cardinality(Things)
  BY ThingsAreFinite, FS_Subset
<1>2. Cardinality(ss) \in Nat /\ Cardinality(Things) \in Nat
  BY <1>1, ThingsAreFinite, FS_CardinalityType
<1>3. Cardinality(ss) = 0 <=> ss = {}
  BY <1>1, FS_EmptySet
<1>4. \A ready \in SUBSET ss : Cardinality(ready) = Cardinality(ss) => ready = ss
  BY <1>1, FS_Subset
<1> QED
  BY <1>1, <1>2, <1>3, <1>4, K8sCardinality DEF K8s!MaxReplicas

\* There is room for one.
LEMMA K8sReplicas == K8s!MaxReplicas \in Nat /\ 1 <= K8s!MaxReplicas
<1>1. K8s!MaxReplicas \in 0..K8s!MaxReplicas /\ K8s!MaxReplicas # 0
  BY ThingsAreFinite, K8sCounts DEF K8s!MaxReplicas
<1>2. K8s!MaxReplicas \in Nat
  BY ThingsAreFinite, FS_CardinalityType, K8sCardinality DEF K8s!MaxReplicas
<1> QED
  BY <1>1, <1>2

LEMMA K8sInit == K8s!Init => K8s!Inv
<1> SUFFICES ASSUME K8s!Init PROVE K8s!Inv
  OBVIOUS
<1>1. PICK live \in (SUBSET Things) \ {{}} :
        /\ v2 = [exists |-> TRUE, replicas |-> K8s!Cardinality(live), ready |-> K8s!Cardinality(live)]
        /\ v3 = [s \in Things |-> IF s \in live THEN [phase |-> "ready", config |-> {}] ELSE K8s!NoPod]
  BY DEF K8s!Init
<1>2. K8s!Cardinality(live) \in 0..K8s!MaxReplicas
  BY K8sCounts
<1>3. v2 \in [exists : BOOLEAN, replicas : 0..K8s!MaxReplicas, ready : 0..K8s!MaxReplicas]
  BY <1>1, <1>2
<1>4. v3 \in [Things -> K8s!Pods]
  BY <1>1 DEF K8s!Pods
<1>5. v4 \in [Actors -> K8s!Calls]
  <2>1. K8s!Idle \in K8s!Calls
    BY DEF K8s!Idle, K8s!Calls
  <2> QED
    BY <2>1 DEF K8s!Init
<1>6. /\ v5 \in 0..MaxFaults /\ v1 \subseteq Actors
      /\ v6 = K8s!Refused /\ v7 = K8s!Refused
  BY BoundsAssumption DEF K8s!Init
<1>7. K8s!TypeOK /\ K8s!FilesKeepKeys
  BY <1>3, <1>4, <1>5, <1>6 DEF K8s!TypeOK, K8s!FilesKeepKeys, K8s!Refused
<1>8. ASSUME NEW d \in Actors PROVE K8sOk(d)
  BY DEF K8s!Init, K8s!Idle, K8sOk, K8s!LabelsOf, K8s!KeyIsKept, K8s!CountIsTrue, K8s!At
<1> QED
  BY <1>7, <1>8 DEF K8s!Inv, K8sOk

\* What a command changes in what the other callers know.
LEMMA K8sOvertaken ==
  ASSUME v4 \in [Actors -> K8s!Calls], NEW op, NEW d \in Actors
  PROVE  /\ K8s!Overtaken(op, v4)[d] \in K8s!Calls
         /\ K8s!Overtaken(op, v4)[d].at = v4[d].at /\ K8s!Overtaken(op, v4)[d].op = v4[d].op
         /\ K8s!Overtaken(op, v4)[d].read = v4[d].read
         /\ K8s!Overtaken(op, v4)[d].excused = v4[d].excused
         /\ K8s!Overtaken(op, v4)[d].overwritten = v4[d].overwritten
         /\ K8s!Overtaken(op, v4)[d].fresh <=> v4[d].fresh /\ v4[d].op # op
<1>1. K8s!Overtaken(op, v4)[d] = [v4[d] EXCEPT !.fresh = v4[d].fresh /\ v4[d].op # op]
  BY DEF K8s!Overtaken
<1>2. v4[d] \in K8s!Calls
  OBVIOUS
<1> DEFINE now == [v4[d] EXCEPT !.fresh = v4[d].fresh /\ v4[d].op # op]
<1>3. now \in K8s!Calls
  BY <1>2 DEF K8s!Calls
<1>4. /\ now.at = v4[d].at /\ now.op = v4[d].op /\ now.read = v4[d].read
      /\ now.excused = v4[d].excused /\ now.overwritten = v4[d].overwritten
  BY <1>2 DEF K8s!Calls
<1>5. now.fresh <=> v4[d].fresh /\ v4[d].op # op
  BY <1>2 DEF K8s!Calls
<1> QED
  BY <1>1, <1>3, <1>4, <1>5

LEMMA K8sOverwrites ==
  ASSUME v4 \in [Actors -> K8s!Calls], NEW c, NEW labels, NEW d \in Actors
  PROVE  /\ K8s!Overwrites(c, labels, v4)[d] \in K8s!Calls
         /\ K8s!Overwrites(c, labels, v4)[d].at = v4[d].at
         /\ K8s!Overwrites(c, labels, v4)[d].op = v4[d].op
         /\ K8s!Overwrites(c, labels, v4)[d].read = v4[d].read
         /\ K8s!Overwrites(c, labels, v4)[d].excused = v4[d].excused
         /\ K8s!Overwrites(c, labels, v4)[d].fresh = v4[d].fresh
         /\ K8s!Overwrites(c, labels, v4)[d].overwritten <=>
              v4[d].overwritten \/ (d # c /\ v4[d].at \in labels)
<1> DEFINE marked == v4[d].overwritten \/ (d # c /\ v4[d].at \in labels)
           now == [v4[d] EXCEPT !.overwritten = marked]
<1>1. K8s!Overwrites(c, labels, v4)[d] = now
  BY DEF K8s!Overwrites
<1>2. v4[d] \in K8s!Calls /\ marked \in BOOLEAN
  OBVIOUS
<1> HIDE DEF marked
<1>3. now \in K8s!Calls
  BY <1>2 DEF K8s!Calls
<1>4. /\ now.at = v4[d].at /\ now.op = v4[d].op /\ now.read = v4[d].read
      /\ now.excused = v4[d].excused /\ now.fresh = v4[d].fresh /\ now.overwritten = marked
  BY <1>2 DEF K8s!Calls
<1> QED
  BY <1>1, <1>3, <1>4 DEF marked

\* Every step of a controller or a caller keeps the types.
LEMMA K8sType == K8s!Inv /\ K8s!Next => K8s!TypeOK'
<1> SUFFICES ASSUME K8s!Inv, K8s!Next PROVE K8s!TypeOK'
  OBVIOUS
<1> DEFINE Deployments == [exists : BOOLEAN, replicas : 0..K8s!MaxReplicas, ready : 0..K8s!MaxReplicas]
<1>1. /\ v1 \subseteq Actors /\ v2 \in Deployments /\ v3 \in [Things -> K8s!Pods]
      /\ v4 \in [Actors -> K8s!Calls] /\ v5 \in 0..MaxFaults
      /\ v6 \subseteq Actors /\ v7 \subseteq Actors
  BY DEF K8s!Inv, K8s!TypeOK
<1>2. K8s!Idle \in K8s!Calls
  BY DEF K8s!Idle, K8s!Calls
<1>3. 0 \in 0..K8s!MaxReplicas /\ K8s!Cardinality(K8s!Ready) \in 0..K8s!MaxReplicas
      /\ K8s!Cardinality(K8s!Live) \in 0..K8s!MaxReplicas
  <2>1. K8s!Ready \subseteq Things /\ K8s!Live \subseteq Things
    BY DEF K8s!Ready, K8s!Live
  <2> QED
    BY <2>1, K8sCounts, K8sReplicas
<1> DEFINE Controllers == \/ \E s \in Things : K8s!StartPod(s) \/ K8s!PodReady(s) \/ K8s!RemovePod(s)
                          \/ K8s!WriteStatus
<1>4. v5' \in 0..MaxFaults
  <2>1. v5' = v5 \/ (v5 > 0 /\ v5' = v5 - 1)
    BY DEF K8s!Next, K8s!StartPod, K8s!PodReady, K8s!RemovePod, K8s!WriteStatus, K8s!CommandFails,
       K8s!configmap_json, K8s!open_file, K8s!write_configmap_json, K8s!put, K8s!PutEnds,
       K8s!replace_config_map, K8s!delete_pod_by_service_name,
       K8s!AwaitOneReady, K8s!number_ready_pods_in_deployment, K8s!get_pods_using_selector_labels,
       K8s!scale_deployment, K8s!create_deployment, K8s!delete_deployment, K8s!Begin,
       K8s!insert_kv_into_configmap, K8s!restart_pod_by_service_name,
       K8s!all_deployments_pods_running, K8s!Fault
  <2> QED
    BY <1>1, <2>1, BoundsAssumption
<1>5. ASSUME NEW op PROVE K8s!Overtaken(op, v4) \in [Actors -> K8s!Calls]
  <2>1. K8s!Overtaken(op, v4) = [d \in Actors |-> K8s!Overtaken(op, v4)[d]]
    BY DEF K8s!Overtaken
  <2> QED
    BY <1>1, <2>1, K8sOvertaken
<1>6. ASSUME NEW c \in Actors, K8s!Raise(c) PROVE v4' \in [Actors -> K8s!Calls]
  <2>1. [K8s!Idle EXCEPT !.at = "raised"] \in K8s!Calls
    BY DEF K8s!Idle, K8s!Calls
  <2> QED
    BY <1>1, <1>6, <2>1 DEF K8s!Raise
<1>7. ASSUME NEW c \in Actors, NEW label \in {"ok", "raised", "one ready"}, K8s!Goto(c, label)
      PROVE  v4' \in [Actors -> K8s!Calls]
  <2>1. [v4[c] EXCEPT !.at = label, !.read = {}] \in K8s!Calls
    <3>1. v4[c] \in K8s!Calls
      BY <1>1
    <3> QED
      BY <3>1 DEF K8s!Calls
  <2>2. v4' = [v4 EXCEPT ![c] = [v4[c] EXCEPT !.at = label, !.read = {}]]
    BY <1>1, <1>7 DEF K8s!Goto
  <2> QED
    BY <1>1, <2>1, <2>2
<1>8. CASE Controllers
  <2>1. v4' \in [Actors -> K8s!Calls]
    BY <1>1, <1>5, <1>8 DEF K8s!StartPod, K8s!PodReady, K8s!RemovePod, K8s!WriteStatus
  <2>2. v3' \in [Things -> K8s!Pods]
    BY <1>1, <1>8 DEF K8s!StartPod, K8s!PodReady, K8s!RemovePod, K8s!WriteStatus, K8s!Pods, K8s!NoPod
  <2>3. v2' \in Deployments /\ v1' = v1
    <3>1. [v2 EXCEPT !.ready = K8s!Cardinality(K8s!Ready)] \in Deployments
      BY <1>1, <1>3
    <3> HIDE DEF Deployments
    <3> QED
      BY <1>1, <1>8, <3>1 DEF K8s!StartPod, K8s!PodReady, K8s!RemovePod, K8s!WriteStatus
  <2> QED
    BY <1>1, <1>4, <1>8, <2>1, <2>2, <2>3
    DEF K8s!TypeOK, K8s!StartPod, K8s!PodReady, K8s!RemovePod, K8s!WriteStatus, K8s!files
<1>9. ASSUME NEW c \in Actors, K8s!replace_config_map(c) PROVE K8s!TypeOK'
  <2>1. CASE v7 # K8s!Refused
    <3> DEFINE over == K8s!Overtaken("insert_kv", v4)
    <3>1. v4' = [over EXCEPT ![c].at = "delete pods"] /\ over \in [Actors -> K8s!Calls]
      BY <1>5, <1>9, <2>1 DEF K8s!replace_config_map, K8s!ReplaceMap
    <3> HIDE DEF over
    <3>2. [over[c] EXCEPT !.at = "delete pods"] \in K8s!Calls
      BY <3>1 DEF K8s!Calls
    <3>3. v4' \in [Actors -> K8s!Calls]
      BY <3>1, <3>2
    <3>4. v1' = v7 /\ v6' = {} /\ v7' = {} /\ UNCHANGED <<v2, v3>>
      BY <1>9, <2>1 DEF K8s!replace_config_map, K8s!ReplaceMap, K8s!Refused
    <3> QED
      BY <1>1, <1>4, <3>3, <3>4 DEF K8s!TypeOK
  <2>2. CASE v7 = K8s!Refused
    BY <1>1, <1>4, <1>6, <1>9, <2>2 DEF K8s!replace_config_map, K8s!files, K8s!TypeOK
  <2> QED
    BY <2>1, <2>2
<1>10. ASSUME NEW c \in Actors, K8s!delete_pod_by_service_name(c) PROVE K8s!TypeOK'
  <2> DEFINE over == K8s!Overtaken("all_running", v4)
  <2>1. over \in [Actors -> K8s!Calls]
    BY <1>1, <1>5
  <2>2. \/ v4' = [over EXCEPT ![c].at = "one ready"]
        \/ v4' = [v4 EXCEPT ![c].at = "one ready", ![c].excused = TRUE]
    BY <1>10 DEF K8s!delete_pod_by_service_name
  <2> HIDE DEF over
  <2>3. v4' \in [Actors -> K8s!Calls]
    <3>1. CASE v4' = [over EXCEPT ![c].at = "one ready"]
      <4>1. over[c] \in K8s!Calls
        BY <2>1
      <4>2. [over[c] EXCEPT !.at = "one ready"] \in K8s!Calls
        BY <4>1 DEF K8s!Calls
      <4>3. v4' = [over EXCEPT ![c] = [over[c] EXCEPT !.at = "one ready"]]
        BY <3>1
      <4> QED
        BY <2>1, <4>2, <4>3
    <3>2. CASE v4' = [v4 EXCEPT ![c].at = "one ready", ![c].excused = TRUE]
      <4>1. [v4[c] EXCEPT !.at = "one ready", !.excused = TRUE] \in K8s!Calls
        BY <1>1 DEF K8s!Calls
      <4>2. v4' = [v4 EXCEPT ![c] = [v4[c] EXCEPT !.at = "one ready", !.excused = TRUE]]
        BY <1>1, <3>2
      <4> QED
        BY <1>1, <4>1, <4>2
    <3> QED
      BY <2>2, <3>1, <3>2
  <2>4. v3' \in [Things -> K8s!Pods]
    BY <1>1, <1>10 DEF K8s!delete_pod_by_service_name, K8s!Pods
  <2> QED
    BY <1>1, <1>4, <1>10, <2>3, <2>4 DEF K8s!delete_pod_by_service_name, K8s!files, K8s!TypeOK
<1>11. ASSUME NEW c \in Actors,
              K8s!configmap_json(c) \/ K8s!number_ready_pods_in_deployment(c) \/ K8s!AwaitOneReady(c)
              \/ K8s!get_pods_using_selector_labels(c) \/ K8s!CommandFails(c)
       PROVE  K8s!TypeOK'
  <2>1. CASE K8s!configmap_json(c)
    <3>1. [v4[c] EXCEPT !.at = "open", !.read = v1, !.fresh = TRUE] \in K8s!Calls
      BY <1>1 DEF K8s!Calls
    <3>2. v4' = [v4 EXCEPT ![c] = [v4[c] EXCEPT !.at = "open", !.read = v1, !.fresh = TRUE]]
      BY <1>1, <2>1 DEF K8s!configmap_json
    <3>3. v4' \in [Actors -> K8s!Calls]
      BY <1>1, <3>1, <3>2
    <3> QED
      BY <1>1, <1>4, <2>1, <3>3 DEF K8s!configmap_json, K8s!files, K8s!TypeOK
  <2>2. CASE K8s!number_ready_pods_in_deployment(c)
    <3>1. v4' = [v4 EXCEPT ![c].at = "count pods", ![c].read = {v2.ready}]
      BY <2>2 DEF K8s!number_ready_pods_in_deployment
    <3>2. {v2.ready} \subseteq Actors \cup (0..K8s!MaxReplicas)
      BY <1>1
    <3>3. [v4[c] EXCEPT !.at = "count pods", !.read = {v2.ready}] \in K8s!Calls
      BY <1>1, <3>2 DEF K8s!Calls
    <3>4. v4' = [v4 EXCEPT ![c] = [v4[c] EXCEPT !.at = "count pods", !.read = {v2.ready}]]
      BY <1>1, <3>1
    <3>5. v4' \in [Actors -> K8s!Calls]
      BY <1>1, <3>3, <3>4
    <3> QED
      BY <1>1, <1>4, <2>2, <3>5 DEF K8s!number_ready_pods_in_deployment, K8s!files, K8s!TypeOK
  <2>3. CASE K8s!AwaitOneReady(c) \/ K8s!get_pods_using_selector_labels(c) \/ K8s!CommandFails(c)
    <3>1. v4' \in [Actors -> K8s!Calls]
      BY <1>6, <1>7, <2>3 DEF K8s!AwaitOneReady, K8s!get_pods_using_selector_labels, K8s!CommandFails
    <3>2. UNCHANGED <<v1, v2, v3, v6, v7>>
      BY <2>3 DEF K8s!AwaitOneReady, K8s!get_pods_using_selector_labels, K8s!CommandFails, K8s!files
    <3> QED
      BY <1>1, <1>4, <3>1, <3>2 DEF K8s!TypeOK
  <2> QED
    BY <1>11, <2>1, <2>2, <2>3
<1>12. ASSUME NEW c \in Actors,
              K8s!scale_deployment(c) \/ K8s!create_deployment(c) \/ K8s!delete_deployment(c)
       PROVE  K8s!TypeOK'
  <2>1. v2' \in Deployments
    <3>1. 1 \in 0..K8s!MaxReplicas /\ 0 \in 0..K8s!MaxReplicas
      BY K8sReplicas
    <3>2. ASSUME NEW n \in 0..K8s!MaxReplicas PROVE [v2 EXCEPT !.replicas = n] \in Deployments
      BY <1>1
    <3>3. /\ [exists |-> TRUE, replicas |-> 1, ready |-> 0] \in Deployments
          /\ [exists |-> FALSE, replicas |-> 0, ready |-> 0] \in Deployments
      BY <3>1
    <3> HIDE DEF Deployments
    <3> QED
      BY <1>12, <3>2, <3>3 DEF K8s!scale_deployment, K8s!create_deployment, K8s!delete_deployment
  <2>2. UNCHANGED <<v1, v3, v4, v6, v7>>
    BY <1>12 DEF K8s!scale_deployment, K8s!create_deployment, K8s!delete_deployment, K8s!files
  <2> QED
    BY <1>1, <1>4, <2>1, <2>2 DEF K8s!TypeOK
<1>13. ASSUME NEW c \in Actors, NEW op \in {"insert_kv", "restart_pod", "all_running"},
              NEW label \in {"get", "delete pods", "count ready"}, K8s!Begin(c, op, label)
       PROVE  K8s!TypeOK'
  <2> DEFINE new == [op |-> op, at |-> label, read |-> {}, excused |-> FALSE,
                     overwritten |-> FALSE,
                     fresh |-> op = "all_running" /\ v2.ready = K8s!Cardinality(K8s!Ready)]
  <2>1. new \in K8s!Calls
    BY DEF K8s!Calls
  <2>2. v4' = [d \in Actors |-> IF d = c THEN new ELSE IF K8s!Returned(d) THEN K8s!Idle ELSE v4[d]]
    BY <1>13 DEF K8s!Begin
  <2> HIDE DEF new
  <2>3. v4' \in [Actors -> K8s!Calls]
    BY <1>1, <1>2, <2>1, <2>2
  <2> QED
    BY <1>1, <1>4, <1>13, <2>3 DEF K8s!Begin, K8s!files, K8s!TypeOK
<1>14. ASSUME NEW c \in Actors, NEW labels, NEW over, over = K8s!Overwrites(c, labels, v4),
              NEW label \in {"dump", "putting", "replace"}, v4' = [over EXCEPT ![c].at = label]
       PROVE  v4' \in [Actors -> K8s!Calls]
  <2>1. over = [d \in Actors |-> over[d]]
    BY <1>14 DEF K8s!Overwrites
  <2>2. over \in [Actors -> K8s!Calls]
    BY <1>1, <1>14, <2>1, K8sOverwrites
  <2>3. [over[c] EXCEPT !.at = label] \in K8s!Calls
    BY <2>2 DEF K8s!Calls
  <2> QED
    BY <1>14, <2>2, <2>3
<1>15. ASSUME NEW c \in Actors, K8s!open_file(c) \/ K8s!put(c) \/ K8s!PutEnds(c)
       PROVE  K8s!TypeOK'
  <2>1. v4' \in [Actors -> K8s!Calls]
    BY <1>14, <1>15 DEF K8s!open_file, K8s!put, K8s!PutEnds
  <2>2. v6' \in {v6, {}} /\ v7' \in {v6, v7, {}} /\ UNCHANGED <<v1, v2, v3>>
    BY <1>15 DEF K8s!open_file, K8s!put, K8s!PutEnds, K8s!Refused
  <2> QED
    BY <1>1, <1>4, <2>1, <2>2 DEF K8s!TypeOK
<1>16. ASSUME NEW c \in Actors, K8s!write_configmap_json(c) PROVE K8s!TypeOK'
  <2> DEFINE over == K8s!Overwrites(c, {"dump", "put", "putting"}, v4)
  <2>1. v4' = [over EXCEPT ![c].at = "put", ![c].read = {}, ![c].fresh = FALSE]
    BY <1>16 DEF K8s!write_configmap_json
  <2>2. over = [d \in Actors |-> over[d]]
    BY DEF K8s!Overwrites
  <2>3. \A d \in Actors : over[d] \in K8s!Calls
    BY <1>1, K8sOverwrites
  <2> HIDE DEF over
  <2>4. over \in [Actors -> K8s!Calls]
    BY <2>2, <2>3
  <2>5. [over[c] EXCEPT !.at = "put", !.read = {}, !.fresh = FALSE] \in K8s!Calls
    BY <2>3 DEF K8s!Calls
  <2>6. v4' = [over EXCEPT ![c] = [over[c] EXCEPT !.at = "put", !.read = {}, !.fresh = FALSE]]
    BY <2>1, <2>4
  <2>7. v4' \in [Actors -> K8s!Calls]
    BY <2>4, <2>5, <2>6
  <2>8. v4[c].fresh => v4[c].read = v1
    BY <1>16 DEF K8s!write_configmap_json, K8s!Inv, K8s!LabelsOf, K8s!KeyIsKept, K8s!At
  <2>9. v6' = {} \/ v6' = v1 \cup {c}
    BY <1>16, <2>8 DEF K8s!write_configmap_json, K8s!Refused
  <2>10. UNCHANGED <<v1, v2, v3, v7>>
    BY <1>16 DEF K8s!write_configmap_json
  <2> QED
    BY <1>1, <1>4, <2>7, <2>9, <2>10 DEF K8s!TypeOK
<1> QED
  BY <1>8, <1>9, <1>10, <1>11, <1>12, <1>13, <1>15, <1>16 DEF K8s!Next, K8s!insert_kv_into_configmap,
     K8s!restart_pod_by_service_name, K8s!all_deployments_pods_running

\* What no call needs to look at again: pods that start with the map, a map that grows, a
\* file that another has written.
LEMMA K8sKeeps ==
  ASSUME NEW d \in Actors, K8sOk(d),
         v4'[d].at = v4[d].at, v4'[d].op = v4[d].op, v4'[d].read = v4[d].read,
         v4'[d].excused = v4[d].excused, v4'[d].fresh => v4[d].fresh,
         v1 \subseteq v1',
         \A s \in K8s!Live' : (s \in K8s!Live /\ v3'[s].config = v3[s].config) \/ v3'[s].config = v1,
         v4[d].op = "insert_kv" /\ v4'[d].fresh => v1' = v1,
         v4[d].overwritten => v4'[d].overwritten,
         v4[d].at \in {"put", "putting"} /\ ~v4'[d].overwritten => v6' = v6 \/ v6' = K8s!Refused,
         v4[d].at = "replace" /\ ~v4'[d].overwritten => v7' = v7 \/ v7' = K8s!Refused,
         v4[d].op = "all_running" /\ v4'[d].fresh =>
           v3' = v3 /\ v2'.ready \in {v2.ready, 0, K8s!Cardinality(K8s!Ready)}
  PROVE  K8sOk(d)'
<1>1. K8s!LabelsOf(d)'
  BY DEF K8sOk, K8s!LabelsOf, K8s!At
<1>2. K8s!KeyIsKept(d)'
  BY DEF K8sOk, K8s!KeyIsKept, K8s!At
<1>3. K8s!CountIsTrue(d)'
  <2>1. v3' = v3 => K8s!Live' = K8s!Live /\ K8s!Ready' = K8s!Ready
    BY DEF K8s!Live, K8s!Ready
  <2> QED
    BY <2>1 DEF K8sOk, K8s!CountIsTrue, K8s!At
<1> QED
  BY <1>1, <1>2, <1>3 DEF K8sOk

LEMMA K8sCalls == K8s!Inv /\ K8s!Next => \A d \in Actors : K8sOk(d)'
<1> SUFFICES ASSUME K8s!Inv, K8s!Next PROVE \A d \in Actors : K8sOk(d)'
  OBVIOUS
<1>1. /\ v1 \subseteq Actors /\ v3 \in [Things -> K8s!Pods] /\ v4 \in [Actors -> K8s!Calls]
      /\ K8s!FilesKeepKeys /\ \A d \in Actors : K8sOk(d)
      /\ v2 \in [exists : BOOLEAN, replicas : 0..K8s!MaxReplicas, ready : 0..K8s!MaxReplicas]
  BY DEF K8s!Inv, K8s!TypeOK, K8sOk
<1>2. ASSUME UNCHANGED v3, NEW s \in K8s!Live' PROVE s \in K8s!Live /\ v3'[s].config = v3[s].config
  BY <1>2 DEF K8s!Live
<1>3. ASSUME NEW d \in Actors, v4'[d] = v4[d], v1' = v1, v3' = v3, v6' = v6, v7' = v7,
             v2'.ready \in {v2.ready, 0, K8s!Cardinality(K8s!Ready)}
      PROVE  K8sOk(d)'
  BY <1>1, <1>2, <1>3, K8sKeeps
<1>4. ASSUME NEW s \in Things, K8s!StartPod(s) \/ K8s!PodReady(s) \/ K8s!RemovePod(s), NEW d \in Actors
      PROVE  K8sOk(d)'
  <2>1. v4' = K8s!Overtaken("all_running", v4) /\ UNCHANGED <<v1, v2, v6, v7>>
    BY <1>4 DEF K8s!StartPod, K8s!PodReady, K8s!RemovePod, K8s!files
  <2>2. ASSUME NEW t \in K8s!Live'
        PROVE  (t \in K8s!Live /\ v3'[t].config = v3[t].config) \/ v3'[t].config = v1
    BY <1>1, <1>4, <2>2
    DEF K8s!StartPod, K8s!PodReady, K8s!RemovePod, K8s!Live, K8s!Pods, K8s!NoPod
  <2> QED
    BY <1>1, <2>1, <2>2, K8sOvertaken, K8sKeeps
<1>5. ASSUME K8s!WriteStatus, NEW d \in Actors PROVE K8sOk(d)'
  BY <1>1, <1>3, <1>5 DEF K8s!WriteStatus, K8s!files
<1>6. ASSUME NEW c \in Actors, K8s!Raise(c), UNCHANGED <<v1, v2, v3, v6, v7>>, NEW d \in Actors
      PROVE  K8sOk(d)'
  <2>1. v4'[c].op = "none" /\ v4'[c].at = "raised" /\ (d # c => v4'[d] = v4[d])
    BY <1>1, <1>6 DEF K8s!Raise, K8s!Idle
  <2>2. CASE d = c
    BY <2>1, <2>2 DEF K8sOk, K8s!LabelsOf, K8s!KeyIsKept, K8s!CountIsTrue, K8s!At
  <2> QED
    BY <1>3, <1>6, <2>1, <2>2
<1>7. ASSUME NEW c \in Actors, K8s!Goto(c, "ok"), UNCHANGED <<v1, v2, v3, v6, v7>>, NEW d \in Actors,
             v4[c].at = "one ready" \/ (v4[c].at = "count pods" /\ v4[c].read = {K8s!Cardinality(K8s!Live)})
      PROVE  K8sOk(d)'
  <2>1. /\ v4'[c].at = "ok" /\ v4'[c].op = v4[c].op /\ v4'[c].fresh = v4[c].fresh
        /\ v4'[c].excused = v4[c].excused /\ v4'[c].overwritten = v4[c].overwritten
        /\ (d # c => v4'[d] = v4[d])
    <3>1. v4' = [v4 EXCEPT ![c] = [v4[c] EXCEPT !.at = "ok", !.read = {}]] /\ v4[c] \in K8s!Calls
      BY <1>1, <1>7 DEF K8s!Goto
    <3>2. v4'[c] = [v4[c] EXCEPT !.at = "ok", !.read = {}] /\ (d # c => v4'[d] = v4[d])
      BY <1>1, <3>1
    <3>3. v4[c] \in K8s!Calls
      BY <3>1
    <3> QED
      BY <3>2, <3>3 DEF K8s!Calls
  <2>2. K8s!Live' = K8s!Live /\ K8s!Ready' = K8s!Ready
    BY <1>7 DEF K8s!Live, K8s!Ready
  <2>3. v4[c].at = "count pods" /\ v4[c].op = "all_running" /\ v4[c].fresh => K8s!Live = K8s!Ready
    <3>1. K8s!Live \subseteq Things /\ K8s!Ready \subseteq K8s!Live
      BY DEF K8s!Live, K8s!Ready
    <3>2. v4[c].at = "count pods" /\ v4[c].op = "all_running" /\ v4[c].fresh =>
            v4[c].read = {0} \/ v4[c].read = {K8s!Cardinality(K8s!Ready)}
      BY <1>1 DEF K8sOk, K8s!CountIsTrue, K8s!At
    <3>3. K8s!Cardinality(K8s!Live) = 0 => K8s!Live = {}
      BY <3>1, K8sCounts
    <3>4. K8s!Cardinality(K8s!Live) = K8s!Cardinality(K8s!Ready) => K8s!Live = K8s!Ready
      BY <3>1, K8sCounts
    <3> QED
      BY <1>7, <3>1, <3>2, <3>3, <3>4
  <2>4. CASE d = c
    <3>1. K8s!LabelsOf(c)'
      BY <1>1, <2>1 DEF K8sOk, K8s!LabelsOf, K8s!At
    <3>2. K8s!KeyIsKept(c)'
      <4>1. v4[c].op = "insert_kv" => v4[c].at = "one ready"
        BY <1>1, <1>7 DEF K8sOk, K8s!LabelsOf, K8s!At
      <4>2. v4[c].op = "insert_kv" /\ ~v4[c].overwritten =>
              c \in v1 /\ (~v4[c].excused => \A s \in K8s!Live : c \in v3[s].config)
        BY <1>1, <4>1 DEF K8sOk, K8s!KeyIsKept
      <4> QED
        BY <1>7, <2>1, <2>2, <4>2 DEF K8s!KeyIsKept, K8s!At
    <3>3. K8s!CountIsTrue(c)'
      <4>1. v4[c].op = "all_running" => v4[c].at = "count pods"
        BY <1>1, <1>7 DEF K8sOk, K8s!LabelsOf, K8s!At
      <4> QED
        BY <2>1, <2>2, <2>3, <4>1 DEF K8s!CountIsTrue, K8s!At
    <3> QED
      BY <2>4, <3>1, <3>2, <3>3 DEF K8sOk
  <2> QED
    BY <1>3, <1>7, <2>1, <2>4
<1>8. ASSUME NEW c \in Actors, K8s!configmap_json(c), NEW d \in Actors PROVE K8sOk(d)'
  <2>1. /\ v4'[c].at = "open" /\ v4'[c].op = v4[c].op /\ v4'[c].read = v1
        /\ (d # c => v4'[d] = v4[d]) /\ v4[c].at = "get" /\ UNCHANGED <<v1, v2, v3, v6, v7>>
    BY <1>1, <1>8 DEF K8s!configmap_json, K8s!Calls, K8s!At, K8s!files
  <2>2. CASE d = c
    BY <1>1, <2>1, <2>2 DEF K8sOk, K8s!LabelsOf, K8s!KeyIsKept, K8s!CountIsTrue, K8s!At
  <2> QED
    BY <1>3, <2>1, <2>2
<1>9. ASSUME NEW c \in Actors, K8s!replace_config_map(c), v7 # K8s!Refused, NEW d \in Actors
      PROVE  K8sOk(d)'
  <2> DEFINE over == K8s!Overtaken("insert_kv", v4)
  <2>1. /\ v4' = [over EXCEPT ![c].at = "delete pods"] /\ UNCHANGED <<v2, v3>>
        /\ v1' = v7 /\ v4[c].at = "replace"
        /\ v6' = K8s!Refused /\ v7' = K8s!Refused
    BY <1>9 DEF K8s!replace_config_map, K8s!ReplaceMap, K8s!At
  <2>2. v4[c].op = "insert_kv" /\ v1 \subseteq v7 /\ (~v4[c].overwritten => c \in v7)
    BY <1>1, <1>9, <2>1 DEF K8sOk, K8s!LabelsOf, K8s!KeyIsKept, K8s!FilesKeepKeys, K8s!At
  <2>3. DOMAIN over = Actors
    BY DEF K8s!Overtaken
  <2>4. /\ over[d] \in K8s!Calls /\ over[d].at = v4[d].at /\ over[d].op = v4[d].op
        /\ over[d].read = v4[d].read /\ over[d].excused = v4[d].excused
        /\ over[d].overwritten = v4[d].overwritten
        /\ over[d].fresh <=> v4[d].fresh /\ v4[d].op # "insert_kv"
    BY <1>1, K8sOvertaken
  <2> HIDE DEF over
  <2>5. CASE d = c
    <3>1. /\ v4'[c].at = "delete pods" /\ v4'[c].op = "insert_kv"
          /\ v4'[c].overwritten = v4[c].overwritten
      BY <2>1, <2>2, <2>3, <2>4, <2>5 DEF K8s!Calls
    <3> QED
      BY <2>1, <2>2, <2>5, <3>1 DEF K8sOk, K8s!LabelsOf, K8s!KeyIsKept, K8s!CountIsTrue, K8s!At
  <2>6. CASE d # c
    <3>1. v4'[d] = over[d]
      BY <2>1, <2>3, <2>6
    <3> QED
      BY <1>1, <1>2, <2>1, <2>2, <2>4, <3>1, K8sKeeps
  <2> QED
    BY <2>5, <2>6
<1>10. ASSUME NEW c \in Actors, K8s!delete_pod_by_service_name(c), NEW d \in Actors PROVE K8sOk(d)'
  <2> DEFINE over == K8s!Overtaken("all_running", v4)
  <2>1. v4[c].at = "delete pods" /\ UNCHANGED <<v1, v2, v6, v7>>
    BY <1>10 DEF K8s!delete_pod_by_service_name, K8s!At, K8s!files
  <2>2. DOMAIN over = Actors
    BY DEF K8s!Overtaken
  <2>3. /\ over[d] \in K8s!Calls /\ over[d].at = v4[d].at /\ over[d].op = v4[d].op
        /\ over[d].read = v4[d].read /\ over[d].excused = v4[d].excused
        /\ over[d].overwritten = v4[d].overwritten
        /\ over[d].fresh <=> v4[d].fresh /\ v4[d].op # "all_running"
    BY <1>1, K8sOvertaken
  <2>4. v4[c].op # "all_running"
    BY <1>1, <2>1 DEF K8sOk, K8s!LabelsOf, K8s!At
  <2>5. CASE v3' = [s \in Things |-> K8s!NoPod] /\ v4' = [over EXCEPT ![c].at = "one ready"]
    <3> HIDE DEF over
    <3>1. K8s!Live' = {}
      BY <2>5 DEF K8s!Live, K8s!NoPod
    <3>2. CASE d = c
      <4>1. /\ v4'[c].at = "one ready" /\ v4'[c].op = v4[c].op
            /\ v4'[c].overwritten = v4[c].overwritten
        BY <2>2, <2>3, <2>5, <3>2 DEF K8s!Calls
      <4> QED
        BY <1>1, <2>1, <2>4, <3>1, <3>2, <4>1 DEF K8sOk, K8s!LabelsOf, K8s!KeyIsKept, K8s!CountIsTrue, K8s!At
    <3>3. CASE d # c
      <4>1. v4'[d] = over[d]
        BY <2>2, <2>5, <3>3
      <4> QED
        BY <1>1, <2>1, <2>3, <3>1, <4>1, K8sKeeps
    <3> QED
      BY <3>2, <3>3
  <2>6. CASE v3' = v3 /\ v4' = [v4 EXCEPT ![c].at = "one ready", ![c].excused = TRUE]
    <3>1. /\ v4'[c].at = "one ready" /\ v4'[c].op = v4[c].op /\ v4'[c].excused
          /\ v4'[c].overwritten = v4[c].overwritten
          /\ (d # c => v4'[d] = v4[d])
      BY <1>1, <2>6 DEF K8s!Calls
    <3>2. CASE d = c
      BY <1>1, <2>1, <2>4, <3>1, <3>2 DEF K8sOk, K8s!LabelsOf, K8s!KeyIsKept, K8s!CountIsTrue, K8s!At
    <3> QED
      BY <1>3, <2>1, <2>6, <3>1, <3>2
  <2> QED
    BY <1>10, <2>5, <2>6 DEF K8s!delete_pod_by_service_name
<1>11. ASSUME NEW c \in Actors, K8s!number_ready_pods_in_deployment(c), NEW d \in Actors PROVE K8sOk(d)'
  <2>1. /\ v4'[c].at = "count pods" /\ v4'[c].op = v4[c].op /\ v4'[c].read = {v2.ready}
        /\ v4'[c].fresh = v4[c].fresh
        /\ (d # c => v4'[d] = v4[d]) /\ v4[c].at = "count ready"
        /\ UNCHANGED <<v1, v2, v3, v6, v7>>
    BY <1>1, <1>11 DEF K8s!number_ready_pods_in_deployment, K8s!Calls, K8s!At, K8s!files
  <2>2. K8s!Ready' = K8s!Ready
    BY <2>1 DEF K8s!Ready
  <2>3. CASE d = c
    BY <1>1, <2>1, <2>2, <2>3 DEF K8sOk, K8s!LabelsOf, K8s!KeyIsKept, K8s!CountIsTrue, K8s!At
  <2> QED
    BY <1>3, <2>1, <2>3
<1>12. ASSUME NEW c \in Actors,
              K8s!scale_deployment(c) \/ K8s!create_deployment(c) \/ K8s!delete_deployment(c),
              NEW d \in Actors
       PROVE  K8sOk(d)'
  <2>1. UNCHANGED <<v1, v3, v4, v6, v7>> /\ v2'.ready \in {v2.ready, 0}
    BY <1>1, <1>12 DEF K8s!scale_deployment, K8s!create_deployment, K8s!delete_deployment, K8s!files
  <2> QED
    BY <1>3, <2>1
<1>13. ASSUME NEW c \in Actors, NEW op, NEW label, K8s!Begin(c, op, label), NEW d \in Actors,
              \/ op = "insert_kv" /\ label = "get"
              \/ op = "restart_pod" /\ label = "delete pods"
              \/ op = "all_running" /\ label = "count ready"
       PROVE  K8sOk(d)'
  <2>1. UNCHANGED <<v1, v2, v3, v6, v7>>
    BY <1>13 DEF K8s!Begin, K8s!files
  <2>2. K8s!Ready' = K8s!Ready
    BY <2>1 DEF K8s!Ready
  <2>3. CASE d = c
    <3>1. /\ v4'[c].at = label /\ v4'[c].op = op
          /\ v4'[c].fresh => v2.ready = K8s!Cardinality(K8s!Ready)
      BY <1>13 DEF K8s!Begin
    <3> QED
      BY <1>13, <2>1, <2>2, <2>3, <3>1 DEF K8sOk, K8s!LabelsOf, K8s!KeyIsKept, K8s!CountIsTrue, K8s!At
  <2>4. CASE d # c /\ K8s!Returned(d)
    <3>1. v4'[d].at = "ok" /\ v4'[d].op = "none"
      BY <1>13, <2>4 DEF K8s!Begin, K8s!Idle
    <3> QED
      BY <3>1 DEF K8sOk, K8s!LabelsOf, K8s!KeyIsKept, K8s!CountIsTrue, K8s!At
  <2>5. CASE d # c /\ ~K8s!Returned(d)
    BY <1>3, <1>13, <2>1, <2>5 DEF K8s!Begin
  <2> QED
    BY <2>3, <2>4, <2>5
<1>14. ASSUME NEW c \in Actors,
              \/ K8s!replace_config_map(c) /\ v7 = K8s!Refused
              \/ K8s!AwaitOneReady(c) \/ K8s!get_pods_using_selector_labels(c) \/ K8s!CommandFails(c),
              NEW d \in Actors
       PROVE  K8sOk(d)'
  BY <1>6, <1>7, <1>14
  DEF K8s!replace_config_map, K8s!AwaitOneReady, K8s!get_pods_using_selector_labels,
      K8s!CommandFails, K8s!files, K8s!At
<1>15. ASSUME NEW c \in Actors, K8s!open_file(c) \/ K8s!write_configmap_json(c), NEW d \in Actors
       PROVE  K8sOk(d)'
  <2> DEFINE over == K8s!Overwrites(c, {"dump", "put", "putting"}, v4)
  <2>1. UNCHANGED <<v1, v2, v3, v7>> /\ v4[c].at \in {"open", "dump"}
    BY <1>15 DEF K8s!open_file, K8s!write_configmap_json, K8s!At
  <2>2. DOMAIN over = Actors
    BY DEF K8s!Overwrites
  <2>3. /\ over[d] \in K8s!Calls /\ over[d].at = v4[d].at /\ over[d].op = v4[d].op
        /\ over[d].read = v4[d].read /\ over[d].excused = v4[d].excused
        /\ over[d].fresh = v4[d].fresh
        /\ over[d].overwritten <=>
             v4[d].overwritten \/ (d # c /\ v4[d].at \in {"dump", "put", "putting"})
    BY <1>1, K8sOverwrites
  <2>4. v4[c].op = "insert_kv" /\ (v4[c].fresh => v4[c].read = v1)
    BY <1>1, <2>1 DEF K8sOk, K8s!LabelsOf, K8s!KeyIsKept, K8s!At
  <2>5. \/ /\ v4' = [over EXCEPT ![c].at = "dump"]
        \/ /\ v4' = [over EXCEPT ![c].at = "put", ![c].read = {}, ![c].fresh = FALSE]
           /\ v6' = K8s!Refused \/ v6' = v1 \cup {c}
    BY <1>15, <2>4 DEF K8s!open_file, K8s!write_configmap_json
  <2> HIDE DEF over
  <2>6. CASE d = c
    <3>1. \/ v4'[c] = [over[c] EXCEPT !.at = "dump"]
          \/ /\ v4'[c] = [over[c] EXCEPT !.at = "put", !.read = {}, !.fresh = FALSE]
             /\ v6' = K8s!Refused \/ c \in v6'
      BY <2>2, <2>5
    <3>2. over[c] \in K8s!Calls
      BY <2>3, <2>6
    <3>3. /\ v4'[c].op = over[c].op
          /\ \/ v4'[c].at = "dump" /\ v4'[c].read = over[c].read /\ v4'[c].fresh = over[c].fresh
             \/ v4'[c].at = "put" /\ (v6' = K8s!Refused \/ c \in v6')
      BY <3>1, <3>2 DEF K8s!Calls
    <3>4. over[c].op = "insert_kv" /\ over[c].read = v4[c].read /\ over[c].fresh = v4[c].fresh
      BY <2>3, <2>4, <2>6
    <3> QED
      BY <2>1, <2>4, <2>6, <3>3, <3>4 DEF K8sOk, K8s!LabelsOf, K8s!KeyIsKept, K8s!CountIsTrue, K8s!At
  <2>7. CASE d # c
    <3>1. v4'[d] = over[d]
      BY <2>2, <2>5, <2>7
    <3> QED
      BY <1>1, <1>2, <2>1, <2>3, <2>7, <3>1, K8sKeeps
  <2> QED
    BY <2>6, <2>7
<1>16. ASSUME NEW c \in Actors, K8s!put(c) \/ K8s!PutEnds(c), NEW d \in Actors PROVE K8sOk(d)'
  <2> DEFINE over == K8s!Overwrites(c, {"putting", "replace"}, v4)
  <2>1. /\ UNCHANGED <<v1, v2, v3, v6>>
        /\ \/ /\ v4[c].at = "put" /\ v4' = [over EXCEPT ![c].at = "putting"]
              /\ v7' = K8s!Refused
           \/ /\ v4[c].at = "putting" /\ v4' = [over EXCEPT ![c].at = "replace"]
              /\ v7' = K8s!Refused \/ v7' = v6
    BY <1>16 DEF K8s!put, K8s!PutEnds, K8s!At
  <2>2. DOMAIN over = Actors
    BY DEF K8s!Overwrites
  <2>3. /\ over[d] \in K8s!Calls /\ over[d].at = v4[d].at /\ over[d].op = v4[d].op
        /\ over[d].read = v4[d].read /\ over[d].excused = v4[d].excused
        /\ over[d].fresh = v4[d].fresh
        /\ over[d].overwritten <=>
             v4[d].overwritten \/ (d # c /\ v4[d].at \in {"putting", "replace"})
    BY <1>1, K8sOverwrites
  <2>4. v4[c].op = "insert_kv" /\ (~v4[c].overwritten => v6 = K8s!Refused \/ c \in v6)
    BY <1>1, <2>1 DEF K8sOk, K8s!LabelsOf, K8s!KeyIsKept, K8s!At
  <2> HIDE DEF over
  <2>5. CASE d = c
    <3>1. \/ v4'[c] = [over[c] EXCEPT !.at = "putting"]
          \/ /\ v4'[c] = [over[c] EXCEPT !.at = "replace"]
             /\ v7' = K8s!Refused \/ v7' = v6
      BY <2>1, <2>2
    <3>2. over[c] \in K8s!Calls
      BY <2>3, <2>5
    <3>3. /\ v4'[c].op = over[c].op /\ v4'[c].overwritten = over[c].overwritten
          /\ \/ v4'[c].at = "putting"
             \/ v4'[c].at = "replace" /\ (v7' = K8s!Refused \/ v7' = v6)
      BY <3>1, <3>2 DEF K8s!Calls
    <3>4. over[c].op = "insert_kv" /\ (over[c].overwritten <=> v4[c].overwritten)
      BY <2>3, <2>4, <2>5
    <3> QED
      BY <2>1, <2>4, <2>5, <3>3, <3>4 DEF K8sOk, K8s!LabelsOf, K8s!KeyIsKept, K8s!CountIsTrue, K8s!At
  <2>6. CASE d # c
    <3>1. v4'[d] = over[d]
      BY <2>1, <2>2, <2>6
    <3> QED
      BY <1>1, <1>2, <2>1, <2>3, <2>6, <3>1, K8sKeeps
  <2> QED
    BY <2>5, <2>6
<1> QED
  BY <1>4, <1>5, <1>8, <1>9, <1>10, <1>11, <1>12, <1>13, <1>14, <1>15, <1>16
  DEF K8s!Next, K8s!insert_kv_into_configmap, K8s!restart_pod_by_service_name,
      K8s!all_deployments_pods_running

\* A file that is not refused is one that was written with all keys of the map as it is now.
LEMMA K8sFiles == K8s!Inv /\ K8s!Next => K8s!FilesKeepKeys'
<1> SUFFICES ASSUME K8s!Inv, K8s!Next PROVE K8s!FilesKeepKeys'
  OBVIOUS
<1>1. K8s!FilesKeepKeys
  BY DEF K8s!Inv
<1>2. ASSUME NEW c \in Actors,
             K8s!open_file(c) \/ K8s!put(c) \/ K8s!PutEnds(c) \/ K8s!replace_config_map(c)
      PROVE  K8s!FilesKeepKeys'
  BY <1>1, <1>2 DEF K8s!open_file, K8s!put, K8s!PutEnds, K8s!replace_config_map, K8s!ReplaceMap,
     K8s!files, K8s!FilesKeepKeys
<1>3. ASSUME NEW c \in Actors, K8s!write_configmap_json(c) PROVE K8s!FilesKeepKeys'
  <2>1. v4[c].fresh => v4[c].read = v1
    BY <1>3 DEF K8s!write_configmap_json, K8s!Inv, K8s!LabelsOf, K8s!KeyIsKept, K8s!At
  <2> QED
    BY <1>1, <1>3, <2>1 DEF K8s!write_configmap_json, K8s!FilesKeepKeys
<1>4. CASE v1' = v1 /\ v6' = v6 /\ v7' = v7
  BY <1>1, <1>4 DEF K8s!FilesKeepKeys
<1> QED
  BY <1>2, <1>3, <1>4
  DEF K8s!Next, K8s!files, K8s!StartPod, K8s!PodReady, K8s!RemovePod, K8s!WriteStatus,
      K8s!CommandFails, K8s!configmap_json, K8s!delete_pod_by_service_name, K8s!AwaitOneReady,
      K8s!number_ready_pods_in_deployment, K8s!get_pods_using_selector_labels,
      K8s!scale_deployment, K8s!create_deployment, K8s!delete_deployment, K8s!Begin,
      K8s!insert_kv_into_configmap, K8s!restart_pod_by_service_name,
      K8s!all_deployments_pods_running

LEMMA K8sStep == K8s!Inv /\ K8s!Next => K8s!Inv'
BY K8sType, K8sFiles, K8sCalls DEF K8s!Inv, K8sOk

LEMMA K8sStutter == K8s!Inv /\ UNCHANGED vars => K8s!Inv'
<1> SUFFICES ASSUME K8s!Inv, UNCHANGED <<v1, v2, v3, v4, v5, v6, v7>> PROVE K8s!Inv'
  BY DEF vars
<1>1. K8s!TypeOK' /\ K8s!FilesKeepKeys'
  BY DEF K8s!Inv, K8s!TypeOK, K8s!FilesKeepKeys
<1>2. ASSUME NEW d \in Actors PROVE K8sOk(d)'
  <2>1. ASSUME NEW s \in K8s!Live' PROVE s \in K8s!Live
    BY <2>1 DEF K8s!Live
  <2> QED
    BY <2>1, K8sKeeps DEF K8s!Inv, K8sOk
<1> QED
  BY <1>1, <1>2 DEF K8s!Inv, K8sOk

LEMMA EditsAlways == 
  Spec => [](/\ focus = "k8s" => K8s!Inv
             /\ focus = "job" => Jobs!Inv
             /\ focus = "edits" => Edits!Inv)
<1> DEFINE Holds == /\ focus = "k8s" => K8s!Inv
                    /\ focus = "job" => Jobs!Inv
                    /\ focus = "edits" => Edits!Inv
<1>1. Init => Holds
  BY K8sInit, JobInit, EditsInit DEF Init
<1>2. Holds /\ [Next]_vars => Holds'
  <2>1. ASSUME Holds, Next PROVE Holds'
    <3>1. ASSUME focus' = "k8s" PROVE K8s!Inv'
      BY <2>1, <3>1, K8sStep DEF Next
    <3>2. ASSUME focus' = "job" PROVE Jobs!Inv'
      BY <2>1, <3>2, JobStep DEF Next
    <3>3. ASSUME focus' = "edits" PROVE Edits!Inv'
      BY <2>1, <3>3, EditsStep DEF Next
    <3> QED
      BY <3>1, <3>2, <3>3
  <2>2. ASSUME Holds, UNCHANGED vars PROVE Holds'
    BY <2>2, K8sStutter, JobStutter, EditsStutter DEF vars
  <2> QED
    BY <2>1, <2>2
<1> QED
  BY <1>1, <1>2, PTL DEF Spec

\* A key that was inserted stays and is in the pods that run, unless another wrote the file
\* meanwhile from which the map is replaced; pods that are counted are ready, a job that is
\* waited for is new, and no edit of a deployment is lost, for any number of callers and of commands that fail.
THEOREM ConcurrentEditsHold == Spec => []EditsAndWaitsHold
<1> DEFINE Holds == /\ focus = "k8s" => K8s!Inv
                    /\ focus = "job" => Jobs!Inv
                    /\ focus = "edits" => Edits!Inv
<1>1. Holds => EditsAndWaitsHold
  <2>1. K8s!Inv => K8s!TypeOK /\ K8s!InsertedKeysAreKept /\ K8s!CountsReadyPods
    BY DEF K8s!Inv, K8s!InsertedKeysAreKept, K8s!CountsReadyPods, K8s!KeyIsKept, K8s!CountIsTrue, K8s!At
  <2>2. Jobs!Inv => Jobs!TypeOK /\ Jobs!WaitsForNewJob
    BY DEF Jobs!Inv, Jobs!WaitsForNewJob
  <2>3. Edits!Inv => Edits!TypeOK /\ Edits!EditsAreKept
    BY DEF Edits!Inv
  <2> QED
    BY <2>1, <2>2, <2>3 DEF EditsAndWaitsHold
<1> QED
  BY <1>1, EditsAlways, PTL

-----------------------------------------------------------------------------
(* The setup of k3s, and the apps and catalogs of Rancher.                 *)

LEMMA K3sInit == K3s!Init => K3s!Inv
<1> SUFFICES ASSUME K3s!Init PROVE K3s!Inv
  OBVIOUS
<1>1. K3s!TypeOK
  <2>1. v10 \in 0..MaxFaults
    BY BoundsAssumption DEF K3s!Init
  <2>2. /\ v2 \in [Boxes -> {"none", "registered", "ready"}]
        /\ v4 \in [Boxes -> {"none", "join", "active", "done", "failed"}]
        /\ v8 \in [Things -> {"none", "old", "new"}]
        /\ v9 \in [Things -> {"no", "there", "gone"}]
    BY DEF K3s!Init
  <2> QED
    BY <2>1, <2>2 DEF K3s!Init, K3s!TypeOK
<1>2. K3s!MarkedHaveJoined /\ K3s!CountedAreReady
  BY DEF K3s!Init, K3s!MarkedHaveJoined, K3s!CountedAreReady, K3s!Labelled
<1>3. K3s!OldPodsAreListed
  BY DEF K3s!Init, K3s!OldPodsAreListed
<1> QED
  BY <1>1, <1>2, <1>3 DEF K3s!Inv

\* The hosts whose role is master stay, and so does the main one of them.
LEMMA MainStays == ASSUME v1' = v1 PROVE K3s!Main' = K3s!Main
BY DEF K3s!Main

LEMMA MainIsAHost == ASSUME v1 \subseteq Boxes, v1 # {} PROVE K3s!Main \in Boxes
BY DEF K3s!Main

LEMMA K3sFault == v10 \in 0..MaxFaults /\ K3s!Fault => v10' \in 0..MaxFaults
BY BoundsAssumption DEF K3s!Fault

\* A step that is not one at which the hook looks at the nodes or the certificate.
K3sOther ==
  \/ \E h \in Boxes :
       \/ K3s!NodeReady(h) \/ K3s!NodeNotReady(h) \/ K3s!Join(h) \/ K3s!JoinMaster(h)
       \/ K3s!JobDone(h) \/ K3s!Register(h) \/ K3s!LabelAndTaint(h)
  \/ \E s \in Things : K3s!StartRancherPod(s) \/ K3s!EvictRancherPod(s) \/ K3s!DeletePod(s)
  \/ K3s!LoseSnapshotNode \/ K3s!ForgetSnapshotNode \/ K3s!RenewCertificate \/ K3s!HookFails
  \/ K3s!PickMain \/ K3s!RestoreSnapshot \/ K3s!StartServer \/ K3s!AwaitServer \/ K3s!JobsEnd
  \/ K3s!AllMarked \/ K3s!AwaitRenewal \/ K3s!ListPods \/ K3s!PodsDeleted
  \/ K3s!AwaitDeployment \/ K3s!cli_login

LEMMA K3sNext ==
  K3s!Next =>
    K3s!NodesCounted \/ K3s!ClusterReady \/ K3s!CheckCertificate \/ (K3sOther /\ v11' = v11)
BY DEF K3s!Next, K3sOther

LEMMA K3sType == K3s!Inv /\ K3s!Next => K3s!TypeOK' /\ v1' = v1
<1> SUFFICES ASSUME K3s!Inv, K3s!Next PROVE K3s!TypeOK' /\ v1' = v1
  OBVIOUS
<1> DEFINE Typed ==
      /\ v1 \subseteq Boxes
      /\ v2 \in [Boxes -> {"none", "registered", "ready"}]
      /\ v3 \in {"none", "ready", "not ready"}
      /\ v4 \in [Boxes -> {"none", "join", "active", "done", "failed"}]
      /\ v5 \in {"masters", "restore", "start", "nodes", "join", "count", "ready", "label", "cert",
                 "renew", "list", "delete", "deployed", "login", "ok", "raised"}
      /\ v6 \subseteq Boxes
      /\ v7 \in BOOLEAN
      /\ v8 \in [Things -> {"none", "old", "new"}]
      /\ v9 \in [Things -> {"no", "there", "gone"}]
      /\ v10 \in 0..MaxFaults
      Seen == v11 \in [counted : BOOLEAN, ready : SUBSET Boxes, expired : BOOLEAN]
<1>0. Typed /\ Seen
  BY DEF K3s!Inv, K3s!TypeOK
<1> USE <1>0, K3sFault DEF K3s!cluster, K3s!rancher
<1>1. ASSUME NEW h \in Boxes,
             \/ K3s!NodeReady(h) \/ K3s!NodeNotReady(h) \/ K3s!Register(h)
      PROVE  Typed' /\ v1' = v1
  BY <1>1 DEF K3s!NodeReady, K3s!NodeNotReady, K3s!Register
<1>2. ASSUME NEW h \in Boxes,
             \/ K3s!Join(h) \/ K3s!JoinMaster(h) \/ K3s!JobDone(h)
      PROVE  Typed' /\ v1' = v1
  BY <1>2 DEF K3s!Join, K3s!JoinMaster, K3s!JobDone
<1>3. ASSUME NEW h \in Boxes, K3s!LabelAndTaint(h) PROVE Typed' /\ v1' = v1
  <2>1. v5' = v5 \/ v5' = "raised"
    BY <1>3 DEF K3s!LabelAndTaint
  <2>2. v6' = v6 \/ v6' = v6 \cup {h}
    BY <1>3 DEF K3s!LabelAndTaint
  <2>3. UNCHANGED <<v1, v2, v3, v4, v7, v8, v9, v10>>
    BY <1>3 DEF K3s!LabelAndTaint
  <2> QED
    BY <2>1, <2>2, <2>3
<1>4. ASSUME NEW s \in Things,
             \/ K3s!StartRancherPod(s) \/ K3s!EvictRancherPod(s) \/ K3s!DeletePod(s)
      PROVE  Typed' /\ v1' = v1
  BY <1>4 DEF K3s!StartRancherPod, K3s!EvictRancherPod, K3s!DeletePod
<1>5. ASSUME \/ K3s!LoseSnapshotNode \/ K3s!ForgetSnapshotNode \/ K3s!RenewCertificate
             \/ K3s!HookFails \/ K3s!PickMain
      PROVE  Typed' /\ v1' = v1
  BY <1>5 DEF K3s!LoseSnapshotNode, K3s!ForgetSnapshotNode, K3s!RenewCertificate, K3s!HookFails,
     K3s!PickMain
<1>6. ASSUME K3s!RestoreSnapshot \/ K3s!StartServer \/ K3s!AwaitServer \/ K3s!JobsEnd
      PROVE  Typed' /\ v1' = v1
  BY <1>6 DEF K3s!RestoreSnapshot, K3s!StartServer, K3s!AwaitServer, K3s!JobsEnd, K3s!Goes
<1>7. ASSUME K3s!NodesCounted \/ K3s!ClusterReady \/ K3s!CheckCertificate
      PROVE  Typed' /\ v1' = v1
  BY <1>7 DEF K3s!NodesCounted, K3s!ClusterReady, K3s!CheckCertificate, K3s!Goes
<1>8. ASSUME \/ K3s!AllMarked \/ K3s!AwaitRenewal \/ K3s!PodsDeleted \/ K3s!AwaitDeployment
             \/ K3s!cli_login
      PROVE  Typed' /\ v1' = v1
  BY <1>8 DEF K3s!AllMarked, K3s!AwaitRenewal, K3s!PodsDeleted, K3s!AwaitDeployment,
     K3s!cli_login, K3s!Goes
<1>9. ASSUME K3s!ListPods PROVE Typed' /\ v1' = v1
  BY <1>9 DEF K3s!ListPods, K3s!Goes
<1>10. Seen'
  BY K3sNext DEF K3s!NodesCounted, K3s!ClusterReady, K3s!CheckCertificate
<1> HIDE <1>0
<1>11. Typed' /\ v1' = v1
  <2> HIDE DEF Typed
  <2> QED
    BY <1>1, <1>2, <1>3, <1>4, <1>5, <1>6, <1>7, <1>8, <1>9, K3sNext DEF K3sOther
<1> QED
  BY <1>10, <1>11 DEF K3s!TypeOK

LEMMA K3sMarked == K3s!Inv /\ K3s!Next => K3s!MarkedHaveJoined'
<1> SUFFICES ASSUME K3s!Inv, K3s!Next PROVE K3s!MarkedHaveJoined'
  OBVIOUS
<1>0. K3s!Main' = K3s!Main
  BY K3sType, MainStays
<1> USE <1>0, MainIsAHost DEF K3s!Inv, K3s!TypeOK, K3s!MarkedHaveJoined, K3s!Labelled, K3s!Nodes,
    K3s!cluster, K3s!rancher
<1>1. ASSUME NEW h \in Boxes,
             \/ K3s!NodeReady(h) \/ K3s!NodeNotReady(h) \/ K3s!Register(h)
      PROVE  K3s!MarkedHaveJoined'
  BY <1>1 DEF K3s!NodeReady, K3s!NodeNotReady, K3s!Register
<1>2. ASSUME NEW h \in Boxes,
             \/ K3s!Join(h) \/ K3s!JoinMaster(h) \/ K3s!JobDone(h)
      PROVE  K3s!MarkedHaveJoined'
  BY <1>2 DEF K3s!Join, K3s!JoinMaster, K3s!JobDone
<1>3. ASSUME NEW h \in Boxes, K3s!LabelAndTaint(h) PROVE K3s!MarkedHaveJoined'
  BY <1>3 DEF K3s!LabelAndTaint
<1>4. ASSUME NEW s \in Things,
             \/ K3s!StartRancherPod(s) \/ K3s!EvictRancherPod(s) \/ K3s!DeletePod(s)
      PROVE  K3s!MarkedHaveJoined'
  BY <1>4 DEF K3s!StartRancherPod, K3s!EvictRancherPod, K3s!DeletePod
<1>5. CASE \/ K3s!LoseSnapshotNode \/ K3s!ForgetSnapshotNode \/ K3s!RenewCertificate
           \/ K3s!HookFails \/ K3s!PickMain
  BY <1>5 DEF K3s!LoseSnapshotNode, K3s!ForgetSnapshotNode, K3s!RenewCertificate, K3s!HookFails,
     K3s!PickMain
<1>6. CASE K3s!RestoreSnapshot \/ K3s!AwaitServer \/ K3s!JobsEnd
  BY <1>6 DEF K3s!RestoreSnapshot, K3s!AwaitServer, K3s!JobsEnd, K3s!Goes
<1>7. CASE K3s!StartServer
  BY <1>7 DEF K3s!StartServer, K3s!Goes
<1>8. CASE K3s!NodesCounted \/ K3s!ClusterReady \/ K3s!CheckCertificate
  BY <1>8 DEF K3s!NodesCounted, K3s!ClusterReady, K3s!CheckCertificate, K3s!Goes
<1>9. CASE K3s!AllMarked \/ K3s!AwaitRenewal \/ K3s!ListPods
  BY <1>9 DEF K3s!AllMarked, K3s!AwaitRenewal, K3s!ListPods, K3s!Goes
<1>10. CASE K3s!PodsDeleted \/ K3s!AwaitDeployment \/ K3s!cli_login
  BY <1>10 DEF K3s!PodsDeleted, K3s!AwaitDeployment, K3s!cli_login, K3s!Goes
<1> QED
  BY <1>1, <1>2, <1>3, <1>4, <1>5, <1>6, <1>7, <1>8, <1>9, <1>10, K3sNext DEF K3sOther

\* As many nodes as hosts, none of them that of the snapshot, are the nodes of all hosts.
LEMMA K3sCount ==
  ASSUME K3s!NodesCounted, v3 = "none" PROVE K3s!Nodes = Boxes
<1>1. K3s!Nodes \subseteq Boxes
  BY DEF K3s!Nodes
<1>2. /\ K3s!Cardinality(K3s!Nodes) = Cardinality(K3s!Nodes)
      /\ K3s!Cardinality(Boxes) = Cardinality(Boxes)
  BY DEF K3s!Cardinality, Cardinality
<1>3. Cardinality(K3s!Nodes) \in Nat
  BY <1>1, BoxesAreFinite, FS_Subset, FS_CardinalityType
<1>4. Cardinality(K3s!Nodes) + 0 = Cardinality(Boxes)
  BY <1>2 DEF K3s!NodesCounted
<1>5. Cardinality(K3s!Nodes) = Cardinality(Boxes)
  BY <1>3, <1>4
<1> QED
  BY <1>1, <1>5, BoxesAreFinite, FS_Subset

LEMMA K3sCounted == K3s!Inv /\ K3s!Next => K3s!CountedAreReady'
<1> SUFFICES ASSUME K3s!Inv, K3s!Next PROVE K3s!CountedAreReady'
  OBVIOUS
<1>1. v2 \in [Boxes -> {"none", "registered", "ready"}] /\ K3s!CountedAreReady
      /\ v11 \in [counted : BOOLEAN, ready : SUBSET Boxes, expired : BOOLEAN]
  BY DEF K3s!Inv, K3s!TypeOK
<1>2. CASE K3s!NodesCounted
  <2>1. v5' = "ready" /\ K3s!Nodes' = K3s!Nodes /\ v11'.counted = (v3 # "none")
    BY <1>1, <1>2 DEF K3s!NodesCounted, K3s!Goes, K3s!cluster, K3s!Nodes
  <2> QED
    BY <1>2, <2>1, K3sCount DEF K3s!CountedAreReady, K3s!Labelled
<1>3. CASE K3s!ClusterReady
  <2>1. /\ v5 = "ready" /\ v5' = "label" /\ K3s!Nodes' = K3s!Nodes
        /\ v11'.counted = v11.counted /\ v11'.ready = {h \in Boxes : v2[h] = "ready"}
    BY <1>1, <1>3 DEF K3s!ClusterReady, K3s!Goes, K3s!cluster, K3s!Nodes
  <2>2. K3s!Nodes = Boxes => v11'.ready = Boxes
    BY <1>3, <2>1 DEF K3s!ClusterReady, K3s!is_cluster_ready
  <2> QED
    BY <1>1, <2>1, <2>2 DEF K3s!CountedAreReady, K3s!Labelled
<1>4. CASE K3s!CheckCertificate
  <2>1. /\ v5 = "cert" /\ v5' \in {"renew", "login"} /\ K3s!Nodes' = K3s!Nodes
        /\ v11'.counted = v11.counted /\ v11'.ready = v11.ready
    BY <1>1, <1>4 DEF K3s!CheckCertificate, K3s!Goes, K3s!cluster, K3s!Nodes
  <2> QED
    BY <1>1, <2>1 DEF K3s!CountedAreReady, K3s!Labelled
<1>5. CASE K3sOther /\ v11' = v11
  <2>1. K3s!Nodes = Boxes => K3s!Nodes' = Boxes
    BY <1>1, <1>5 DEF K3s!Nodes, K3sOther, K3s!cluster, K3s!NodeReady, K3s!NodeNotReady, K3s!Join,
       K3s!JoinMaster, K3s!JobDone, K3s!Register, K3s!LabelAndTaint, K3s!StartRancherPod,
       K3s!EvictRancherPod, K3s!DeletePod, K3s!LoseSnapshotNode, K3s!ForgetSnapshotNode,
       K3s!RenewCertificate, K3s!HookFails, K3s!PickMain, K3s!RestoreSnapshot, K3s!StartServer,
       K3s!AwaitServer, K3s!JobsEnd, K3s!AllMarked, K3s!AwaitRenewal, K3s!ListPods,
       K3s!PodsDeleted, K3s!AwaitDeployment, K3s!cli_login
  <2>2. \/ v5' = v5
        \/ v5' \notin {"ready", "label", "cert", "renew", "list", "delete", "deployed", "login", "ok"}
        \/ (v5 = "label" \/ K3s!Labelled) /\ K3s!Labelled'
    BY <1>5 DEF K3sOther, K3s!Goes, K3s!Labelled, K3s!NodeReady, K3s!NodeNotReady, K3s!Join,
       K3s!JoinMaster, K3s!JobDone, K3s!Register, K3s!LabelAndTaint, K3s!StartRancherPod,
       K3s!EvictRancherPod, K3s!DeletePod, K3s!LoseSnapshotNode, K3s!ForgetSnapshotNode,
       K3s!RenewCertificate, K3s!HookFails, K3s!PickMain, K3s!RestoreSnapshot, K3s!StartServer,
       K3s!AwaitServer, K3s!JobsEnd, K3s!AllMarked, K3s!AwaitRenewal, K3s!ListPods,
       K3s!PodsDeleted, K3s!AwaitDeployment, K3s!cli_login
  <2> QED
    BY <1>1, <1>5, <2>1, <2>2 DEF K3s!CountedAreReady, K3s!Labelled
<1> QED
  BY <1>2, <1>3, <1>4, <1>5, K3sNext

LEMMA K3sPods == K3s!Inv /\ K3s!Next => K3s!OldPodsAreListed'
<1> SUFFICES ASSUME K3s!Inv, K3s!Next PROVE K3s!OldPodsAreListed'
  OBVIOUS
<1>0. /\ v8 \in [Things -> {"none", "old", "new"}] /\ v9 \in [Things -> {"no", "there", "gone"}]
      /\ v7 \in BOOLEAN /\ K3s!OldPodsAreListed
  BY DEF K3s!Inv, K3s!TypeOK
<1> USE <1>0 DEF K3s!OldPodsAreListed, K3s!cluster, K3s!rancher
<1>1. ASSUME NEW h \in Boxes, v11' = v11,
             \/ K3s!NodeReady(h) \/ K3s!NodeNotReady(h) \/ K3s!Register(h)
             \/ K3s!Join(h) \/ K3s!JoinMaster(h) \/ K3s!JobDone(h)
      PROVE  K3s!OldPodsAreListed'
  BY <1>1 DEF K3s!NodeReady, K3s!NodeNotReady, K3s!Register, K3s!Join, K3s!JoinMaster, K3s!JobDone
<1>2. ASSUME NEW h \in Boxes, v11' = v11, K3s!LabelAndTaint(h) PROVE K3s!OldPodsAreListed'
  BY <1>2 DEF K3s!LabelAndTaint
<1>3. ASSUME NEW s \in Things, v11' = v11, K3s!StartRancherPod(s) \/ K3s!EvictRancherPod(s)
      PROVE  K3s!OldPodsAreListed'
  BY <1>3 DEF K3s!StartRancherPod, K3s!EvictRancherPod
<1>4. ASSUME NEW s \in Things, v11' = v11, K3s!DeletePod(s) PROVE K3s!OldPodsAreListed'
  BY <1>4 DEF K3s!DeletePod
<1>5. CASE /\ v11' = v11
           /\ \/ K3s!LoseSnapshotNode \/ K3s!ForgetSnapshotNode \/ K3s!RenewCertificate
              \/ K3s!HookFails \/ K3s!PickMain
  <2>1. UNCHANGED <<v8, v9>> /\ (v5' = v5 \/ v5' = "raised" \/ v5' = "restore")
    BY <1>5 DEF K3s!LoseSnapshotNode, K3s!ForgetSnapshotNode, K3s!RenewCertificate,
       K3s!HookFails, K3s!PickMain
  <2>2. v7' = v7 \/ v7' = FALSE
    BY <1>5 DEF K3s!LoseSnapshotNode, K3s!ForgetSnapshotNode, K3s!RenewCertificate,
       K3s!HookFails, K3s!PickMain
  <2>3. CASE v5' = v5
    BY <1>5, <2>1, <2>2, <2>3
  <2>4. CASE v5' = "raised" \/ v5' = "restore"
    BY <2>4
  <2> QED
    BY <2>1, <2>3, <2>4
<1>6. CASE /\ v11' = v11
           /\ K3s!RestoreSnapshot \/ K3s!StartServer \/ K3s!AwaitServer \/ K3s!JobsEnd
  BY <1>6 DEF K3s!RestoreSnapshot, K3s!StartServer, K3s!AwaitServer, K3s!JobsEnd, K3s!Goes
<1>7. CASE K3s!NodesCounted \/ K3s!ClusterReady
  BY <1>7 DEF K3s!NodesCounted, K3s!ClusterReady, K3s!Goes
<1>8. CASE K3s!CheckCertificate
  BY <1>8 DEF K3s!CheckCertificate, K3s!Goes
<1>9. CASE /\ v11' = v11
           /\ \/ K3s!AllMarked \/ K3s!AwaitRenewal \/ K3s!PodsDeleted \/ K3s!AwaitDeployment
              \/ K3s!cli_login
  BY <1>9 DEF K3s!AllMarked, K3s!AwaitRenewal, K3s!PodsDeleted, K3s!AwaitDeployment,
     K3s!cli_login, K3s!Goes
<1>10. CASE v11' = v11 /\ K3s!ListPods
  BY <1>10 DEF K3s!ListPods, K3s!Goes
<1> QED
  BY <1>1, <1>2, <1>3, <1>4, <1>5, <1>6, <1>7, <1>8, <1>9, <1>10, K3sNext DEF K3sOther

LEMMA K3sStutter == K3s!Inv /\ UNCHANGED vars => K3s!Inv'
<1> SUFFICES ASSUME K3s!Inv, UNCHANGED <<v1, v2, v3, v4, v5, v6, v7, v8, v9, v10, v11>>
  PROVE K3s!Inv'
  BY DEF vars
<1>1. K3s!Main' = K3s!Main
  BY MainStays
<1>2. K3s!MarkedHaveJoined' /\ K3s!CountedAreReady'
  BY <1>1 DEF K3s!Inv, K3s!MarkedHaveJoined, K3s!CountedAreReady, K3s!Labelled, K3s!Nodes
<1>3. K3s!TypeOK' /\ K3s!OldPodsAreListed'
  BY DEF K3s!Inv, K3s!TypeOK, K3s!OldPodsAreListed
<1> QED
  BY <1>2, <1>3 DEF K3s!Inv

RancherOk(c) ==
  /\ Rancher!LabelsOf(c)
  /\ Rancher!AppAsLeft(c) /\ Rancher!CatalogAsLeft(c)
  /\ Rancher!AppHolds(c) /\ Rancher!CatalogHolds(c)

LEMMA RancherInit == Rancher!Init => Rancher!Inv
<1> SUFFICES ASSUME Rancher!Init PROVE Rancher!Inv
  OBVIOUS
<1>1. Rancher!Idle \in Rancher!Calls
  BY DEF Rancher!Idle, Rancher!Calls
<1>2. v3 \in [Actors -> Rancher!Calls]
  BY <1>1 DEF Rancher!Init
<1>3. v4 \in 0..MaxFaults
  BY BoundsAssumption DEF Rancher!Init
<1>4. Rancher!TypeOK
  BY <1>2, <1>3 DEF Rancher!Init, Rancher!TypeOK
<1>5. ASSUME NEW c \in Actors PROVE RancherOk(c)
  BY DEF Rancher!Init, Rancher!Idle, RancherOk, Rancher!LabelsOf, Rancher!AppAsLeft,
     Rancher!CatalogAsLeft, Rancher!AppHolds, Rancher!CatalogHolds, Rancher!At
<1> QED
  BY <1>4, <1>5 DEF Rancher!Inv, RancherOk

LEMMA RancherFault == ASSUME Rancher!TypeOK, Rancher!Fault PROVE v4' \in 0..MaxFaults
BY BoundsAssumption DEF Rancher!TypeOK, Rancher!Fault

\* What another caller has the app and the catalog changed to is the concern of a call that
\* has begun only as far as it is told; it is not told of anything else.
LEMMA RancherOthers ==
  ASSUME NEW d \in Actors, RancherOk(d),
         v3[d] \in Rancher!Calls, v3'[d] \in Rancher!Calls,
         v3'[d].op = v3[d].op, v3'[d].at = v3[d].at, v3'[d].force = v3[d].force,
         v3'[d].bare = v3[d].bare, v3'[d].missed = v3[d].missed,
         v3'[d].excused = v3[d].excused,
         v3[d].touched \subseteq v3'[d].touched,
         v1' # v1 /\ v3[d].op # "none" => "app" \in v3'[d].touched,
         v2' # v2 /\ v3[d].op # "none" => "catalog" \in v3'[d].touched,
         v2' = v2 \/ v2' # None
  PROVE  RancherOk(d)'
<1>1. v3[d].op = "none" => RancherOk(d)'
  BY DEF RancherOk, Rancher!LabelsOf, Rancher!AppAsLeft, Rancher!CatalogAsLeft, Rancher!AppHolds,
     Rancher!CatalogHolds, Rancher!At
<1>2. ASSUME v3[d].op # "none" PROVE RancherOk(d)'
  <2>1. Rancher!LabelsOf(d)'
    BY DEF RancherOk, Rancher!LabelsOf, Rancher!At
  <2>2. Rancher!AppAsLeft(d)'
    BY <1>2 DEF RancherOk, Rancher!AppAsLeft, Rancher!At
  <2>3. Rancher!CatalogAsLeft(d)'
    BY <1>2 DEF RancherOk, Rancher!CatalogAsLeft, Rancher!At
  <2>4. Rancher!AppHolds(d)'
    BY <1>2 DEF RancherOk, Rancher!AppHolds, Rancher!At
  <2>5. Rancher!CatalogHolds(d)'
    BY <1>2 DEF RancherOk, Rancher!CatalogHolds, Rancher!At
  <2> QED
    BY <2>1, <2>2, <2>3, <2>4, <2>5 DEF RancherOk
<1> QED
  BY <1>1, <1>2

\* What Goto and Raise do.
LEMMA RancherMoves ==
  ASSUME Rancher!Inv, NEW c \in Actors,
         NEW label \in {"ok", "raised", "install", "upgrade", "wait", "refresh"},
         v3' = [v3 EXCEPT ![c].at = label], v1' = v1, v2' = v2, v4' = v4
  PROVE  /\ Rancher!TypeOK'
         /\ v3'[c].at = label /\ v3'[c].op = v3[c].op /\ v3'[c].force = v3[c].force
         /\ v3'[c].bare = v3[c].bare /\ v3'[c].missed = v3[c].missed
         /\ v3'[c].touched = v3[c].touched /\ v3'[c].excused = v3[c].excused
         /\ \A d \in Actors \ {c} : RancherOk(d)'
<1>1. v3 \in [Actors -> Rancher!Calls]
  BY DEF Rancher!Inv, Rancher!TypeOK
<1>2. v3[c] \in Rancher!Calls
  BY <1>1
<1>3. [v3[c] EXCEPT !.at = label] \in Rancher!Calls
  BY <1>2 DEF Rancher!Calls
<1>4. v3' = [v3 EXCEPT ![c] = [v3[c] EXCEPT !.at = label]]
  OBVIOUS
<1>5. v3' \in [Actors -> Rancher!Calls]
  BY <1>1, <1>3, <1>4
<1>6. Rancher!TypeOK'
  BY <1>5 DEF Rancher!Inv, Rancher!TypeOK
<1>7. v3'[c] = [v3[c] EXCEPT !.at = label]
  BY <1>1, <1>4
<1>8. ASSUME NEW d \in Actors \ {c} PROVE RancherOk(d)'
  <2>1. v3'[d] = v3[d] /\ v3[d] \in Rancher!Calls
    BY <1>1, <1>4
  <2>2. RancherOk(d)
    BY DEF Rancher!Inv, RancherOk
  <2> QED
    BY <2>1, <2>2, RancherOthers
<1> QED
  BY <1>2, <1>6, <1>7, <1>8 DEF Rancher!Calls

\* What a command that Rancher executes does, answered or not.
LEMMA RancherExecutes ==
  ASSUME Rancher!Inv, NEW c \in Actors,
         NEW app2 \in Actors \cup {None}, NEW catalog2 \in Actors \cup {None},
         NEW label \in {"ok", "wait", "refresh"},
         catalog2 = v2 \/ catalog2 # None,
         Rancher!Executed(c, app2, catalog2, label)
  PROVE  /\ Rancher!TypeOK'
         /\ v1' = app2 /\ v2' = catalog2
         /\ \/ v3'[c].at = label /\ v3'[c].excused = v3[c].excused
            \/ v3'[c].at = "raised" /\ v3'[c].excused
         /\ v3'[c].op = v3[c].op /\ v3'[c].force = v3[c].force
         /\ v3'[c].bare = v3[c].bare /\ v3'[c].missed = v3[c].missed
         /\ v3'[c].touched = v3[c].touched
         /\ \A d \in Actors \ {c} : RancherOk(d)'
<1> DEFINE changed == {x \in {"app", "catalog"} : IF x = "app" THEN app2 # v1 ELSE catalog2 # v2}
           now == [d \in Actors |-> IF d = c \/ v3[d].op = "none" THEN v3[d]
                                    ELSE [v3[d] EXCEPT !.touched = @ \cup changed]]
<1>1. v3 \in [Actors -> Rancher!Calls]
  BY DEF Rancher!Inv, Rancher!TypeOK
<1>2. /\ v1' = app2 /\ v2' = catalog2
      /\ \/ v3' = [now EXCEPT ![c].at = label] /\ v4' = v4
         \/ v3' = [now EXCEPT ![c].at = "raised", ![c].excused = TRUE] /\ Rancher!Fault
  BY DEF Rancher!Executed
<1>3. changed \subseteq {"app", "catalog"} /\ ("app" \in changed <=> app2 # v1)
      /\ ("catalog" \in changed <=> catalog2 # v2)
  OBVIOUS
<1> HIDE DEF changed
<1>4. now[c] = v3[c] /\ v3[c] \in Rancher!Calls
  BY <1>1
<1>5. ASSUME NEW d \in Actors \ {c}
      PROVE  /\ now[d] \in Rancher!Calls
             /\ now[d].op = v3[d].op /\ now[d].at = v3[d].at /\ now[d].force = v3[d].force
             /\ now[d].bare = v3[d].bare /\ now[d].missed = v3[d].missed
             /\ now[d].excused = v3[d].excused
             /\ v3[d].touched \subseteq now[d].touched
             /\ v3[d].op # "none" => changed \subseteq now[d].touched
  <2>1. v3[d] \in Rancher!Calls
    BY <1>1
  <2>2. CASE v3[d].op = "none"
    BY <2>1, <2>2
  <2>3. CASE v3[d].op # "none"
    <3>1. now[d] = [v3[d] EXCEPT !.touched = v3[d].touched \cup changed]
      BY <2>3
    <3>2. v3[d].touched \cup changed \in SUBSET {"app", "catalog"}
      BY <1>3, <2>1 DEF Rancher!Calls
    <3> QED
      BY <2>1, <3>1, <3>2 DEF Rancher!Calls
  <2> QED
    BY <2>2, <2>3
<1>6. now \in [Actors -> Rancher!Calls]
  BY <1>4, <1>5
<1> HIDE DEF now
<1>7. PICK mine \in Rancher!Calls :
        /\ v3' = [now EXCEPT ![c] = mine]
        /\ \/ mine.at = label /\ mine.excused = v3[c].excused
           \/ mine.at = "raised" /\ mine.excused
        /\ mine.op = v3[c].op /\ mine.force = v3[c].force /\ mine.bare = v3[c].bare
        /\ mine.missed = v3[c].missed /\ mine.touched = v3[c].touched
  <2>1. CASE v3' = [now EXCEPT ![c].at = label]
    <3> DEFINE answer == [v3[c] EXCEPT !.at = label]
    <3>1. answer \in Rancher!Calls
      BY <1>4 DEF Rancher!Calls
    <3>2. /\ answer.at = label /\ answer.excused = v3[c].excused
          /\ answer.op = v3[c].op /\ answer.force = v3[c].force /\ answer.bare = v3[c].bare
          /\ answer.missed = v3[c].missed /\ answer.touched = v3[c].touched
      BY <1>4 DEF Rancher!Calls
    <3>3. v3' = [now EXCEPT ![c] = answer]
      BY <1>4, <1>6, <2>1
    <3> HIDE DEF answer
    <3> QED
      BY <3>1, <3>2, <3>3
  <2>2. CASE v3' = [now EXCEPT ![c].at = "raised", ![c].excused = TRUE]
    <3> DEFINE answer == [v3[c] EXCEPT !.at = "raised", !.excused = TRUE]
    <3>1. answer \in Rancher!Calls
      BY <1>4 DEF Rancher!Calls
    <3>2. /\ answer.at = "raised" /\ answer.excused
          /\ answer.op = v3[c].op /\ answer.force = v3[c].force /\ answer.bare = v3[c].bare
          /\ answer.missed = v3[c].missed /\ answer.touched = v3[c].touched
      BY <1>4 DEF Rancher!Calls
    <3>3. v3' = [now EXCEPT ![c] = answer]
      BY <1>4, <1>6, <2>2
    <3> HIDE DEF answer
    <3> QED
      BY <3>1, <3>2, <3>3
  <2> QED
    BY <1>2, <2>1, <2>2
<1>8. v3'[c] = mine
  BY <1>6, <1>7
<1>10. ASSUME NEW d \in Actors \ {c} PROVE v3'[d] = now[d]
  BY <1>6, <1>7
<1>11. v3' \in [Actors -> Rancher!Calls]
  BY <1>6, <1>7
<1>12. v4' \in 0..MaxFaults
  BY <1>2, RancherFault DEF Rancher!Inv, Rancher!TypeOK
<1>13. Rancher!TypeOK'
  BY <1>2, <1>11, <1>12 DEF Rancher!TypeOK
<1>14. ASSUME NEW d \in Actors \ {c} PROVE RancherOk(d)'
  <2>1. RancherOk(d)
    BY DEF Rancher!Inv, RancherOk
  <2>2. v3[d] \in Rancher!Calls
    BY <1>1
  <2> QED
    BY <1>2, <1>3, <1>5, <1>10, <2>1, <2>2, RancherOthers
<1> QED
  BY <1>2, <1>7, <1>8, <1>13, <1>14

\* What is left to show of a step of caller c is that its own call is as it should be.
LEMMA RancherKeeps ==
  ASSUME Rancher!TypeOK', NEW c \in Actors,
         \A d \in Actors \ {c} : RancherOk(d)', RancherOk(c)'
  PROVE  Rancher!Inv'
BY DEF Rancher!Inv, RancherOk

LEMMA RancherBegins ==
  ASSUME Rancher!Inv, NEW c \in Actors,
         \/ Rancher!install_app(c) \/ Rancher!upgrade_app(c) \/ Rancher!delete_app(c)
         \/ Rancher!add_catalog(c) \/ Rancher!delete_catalog(c)
  PROVE  Rancher!Inv'
<1>1. v3 \in [Actors -> Rancher!Calls]
  BY DEF Rancher!Inv, Rancher!TypeOK
<1>2. PICK op \in {"install_app", "upgrade_app", "delete_app", "add_catalog", "delete_catalog"},
           label \in {"exists", "upgrade", "delete", "post", "unpost"},
           force \in BOOLEAN, bare \in BOOLEAN, missed \in BOOLEAN :
        /\ Rancher!Begin(c, op, label, force, bare, missed)
        /\ \/ op = "install_app" /\ label = "exists" /\ ~bare /\ (missed <=> v1 # None)
           \/ op = "upgrade_app" /\ label = "upgrade" /\ (missed <=> v1 = None)
           \/ op = "delete_app" /\ label = "delete" /\ ~bare /\ (missed <=> v1 = None)
           \/ op = "add_catalog" /\ label = "post" /\ ~bare
           \/ op = "delete_catalog" /\ label = "unpost" /\ ~bare /\ (missed <=> v2 = None)
  BY DEF Rancher!install_app, Rancher!upgrade_app, Rancher!delete_app, Rancher!add_catalog,
     Rancher!delete_catalog
<1>3. Rancher!Idle \in Rancher!Calls
  BY DEF Rancher!Idle, Rancher!Calls
<1> DEFINE new == [Rancher!Idle EXCEPT !.op = op, !.at = label, !.force = force, !.bare = bare,
                                       !.missed = missed]
<1>4. /\ new \in Rancher!Calls /\ new.op = op /\ new.at = label /\ new.force = force
      /\ new.bare = bare /\ new.missed = missed
  <2>1. /\ new.op = op /\ new.at = label /\ new.force = force
        /\ new.bare = bare /\ new.missed = missed
    BY <1>3 DEF Rancher!Calls
  <2>2. new \in Rancher!Calls
    BY <1>3 DEF Rancher!Calls
  <2> QED
    BY <2>1, <2>2
<1> HIDE DEF new
<1>5. /\ v3' = [d \in Actors |-> IF d = c THEN new
                               ELSE IF Rancher!Returned(d) THEN Rancher!Idle ELSE v3[d]]
      /\ v1' = v1 /\ v2' = v2 /\ v4' = v4
  BY <1>2 DEF Rancher!Begin, new
<1>6. Rancher!TypeOK'
  <2>1. v3' \in [Actors -> Rancher!Calls]
    BY <1>1, <1>3, <1>4, <1>5
  <2> QED
    BY <1>5, <2>1 DEF Rancher!Inv, Rancher!TypeOK
<1>7. ASSUME NEW d \in Actors \ {c} PROVE RancherOk(d)'
  <2>1. CASE Rancher!Returned(d)
    <3>1. v3'[d] = Rancher!Idle
      BY <1>5, <2>1
    <3> QED
      BY <3>1 DEF Rancher!Idle, RancherOk, Rancher!LabelsOf, Rancher!AppAsLeft,
         Rancher!CatalogAsLeft, Rancher!AppHolds, Rancher!CatalogHolds, Rancher!At
  <2>2. CASE ~Rancher!Returned(d)
    <3>1. v3'[d] = v3[d] /\ v3[d] \in Rancher!Calls
      BY <1>1, <1>5, <2>2
    <3>2. RancherOk(d)
      BY DEF Rancher!Inv, RancherOk
    <3> QED
      BY <1>5, <3>1, <3>2, RancherOthers
  <2> QED
    BY <2>1, <2>2
<1>8. RancherOk(c)'
  <2>1. v3'[c] = new
    BY <1>5
  <2> QED
    BY <1>2, <1>4, <1>5, <2>1 DEF RancherOk, Rancher!LabelsOf, Rancher!AppAsLeft,
       Rancher!CatalogAsLeft, Rancher!AppHolds, Rancher!CatalogHolds, Rancher!At
<1> QED
  BY <1>6, <1>7, <1>8, RancherKeeps

LEMMA RancherMoved ==
  ASSUME Rancher!Inv, NEW c \in Actors,
         \/ Rancher!app_exists(c) \/ Rancher!wait_for_app(c) \/ Rancher!refresh_catalog(c)
         \/ Rancher!PostToCatalog(c)
  PROVE  Rancher!Inv'
<1>1. PICK label \in {"ok", "raised", "install", "upgrade"} :
        v3' = [v3 EXCEPT ![c].at = label] /\ v1' = v1 /\ v2' = v2 /\ v4' = v4
        /\ \/ /\ Rancher!At(c, "exists")
              /\ label = IF v1 # None /\ v3[c].force THEN "upgrade" ELSE "install"
           \/ Rancher!At(c, "wait") /\ label = IF v1 = None THEN "raised" ELSE "ok"
           \/ Rancher!At(c, "refresh") /\ label = IF v2 = None THEN "raised" ELSE "ok"
           \/ Rancher!At(c, "unpost") /\ label = IF v2 = None THEN "ok" ELSE "raised"
  BY DEF Rancher!app_exists, Rancher!wait_for_app, Rancher!refresh_catalog, Rancher!PostToCatalog,
     Rancher!Goto, Rancher!Raise
<1>2. /\ Rancher!TypeOK'
      /\ v3'[c].at = label /\ v3'[c].op = v3[c].op /\ v3'[c].force = v3[c].force
      /\ v3'[c].bare = v3[c].bare /\ v3'[c].missed = v3[c].missed
      /\ v3'[c].touched = v3[c].touched /\ v3'[c].excused = v3[c].excused
      /\ \A d \in Actors \ {c} : RancherOk(d)'
  <2>1. label \in {"ok", "raised", "install", "upgrade", "wait", "refresh"}
    OBVIOUS
  <2>2. v3' = [v3 EXCEPT ![c].at = label]
    BY <1>1
  <2>3. v1' = v1 /\ v2' = v2 /\ v4' = v4
    BY <1>1
  <2> QED
    BY <2>1, <2>2, <2>3, RancherMoves
<1>3. RancherOk(c)
  BY DEF Rancher!Inv, RancherOk
<1>4. c # None
  BY NoneIsNobody
<1>5. Rancher!LabelsOf(c)'
  BY <1>1, <1>2, <1>3 DEF RancherOk, Rancher!LabelsOf, Rancher!At
<1>6. Rancher!AppAsLeft(c)' /\ Rancher!CatalogAsLeft(c)'
  BY <1>1, <1>2, <1>3 DEF RancherOk, Rancher!LabelsOf, Rancher!AppAsLeft,
     Rancher!CatalogAsLeft, Rancher!At
<1>7. Rancher!AppHolds(c)'
  BY <1>1, <1>2, <1>3, <1>4 DEF RancherOk, Rancher!LabelsOf, Rancher!AppAsLeft, Rancher!AppHolds,
     Rancher!At
<1>8. Rancher!CatalogHolds(c)'
  BY <1>1, <1>2, <1>3 DEF RancherOk, Rancher!LabelsOf, Rancher!CatalogAsLeft,
     Rancher!CatalogHolds, Rancher!At
<1>9. RancherOk(c)'
  BY <1>5, <1>6, <1>7, <1>8 DEF RancherOk
<1> QED
  BY <1>2, <1>9, RancherKeeps

\* A command that fails excuses its call.
LEMMA RancherCommandFails ==
  ASSUME Rancher!Inv, NEW c \in Actors, Rancher!CommandFails(c) PROVE Rancher!Inv'
<1>1. v3 \in [Actors -> Rancher!Calls]
  BY DEF Rancher!Inv, Rancher!TypeOK
<1>2. v3[c] \in Rancher!Calls
  BY <1>1
<1> DEFINE failed == [v3[c] EXCEPT !.at = "raised", !.excused = TRUE]
<1>3. /\ failed \in Rancher!Calls /\ failed.at = "raised" /\ failed.excused
      /\ failed.op = v3[c].op /\ failed.bare = v3[c].bare
  BY <1>2 DEF Rancher!Calls
<1>4. v3' = [v3 EXCEPT ![c] = failed] /\ v1' = v1 /\ v2' = v2
  BY <1>1 DEF Rancher!CommandFails
<1> HIDE DEF failed
<1>5. Rancher!TypeOK'
  <2>1. v3' \in [Actors -> Rancher!Calls]
    BY <1>1, <1>3, <1>4
  <2>2. v4' \in 0..MaxFaults
    BY RancherFault DEF Rancher!Inv, Rancher!CommandFails
  <2> QED
    BY <1>4, <2>1, <2>2 DEF Rancher!Inv, Rancher!TypeOK
<1>6. ASSUME NEW d \in Actors \ {c} PROVE RancherOk(d)'
  <2>1. v3'[d] = v3[d] /\ v3[d] \in Rancher!Calls
    BY <1>1, <1>4
  <2>2. RancherOk(d)
    BY DEF Rancher!Inv, RancherOk
  <2> QED
    BY <1>4, <2>1, <2>2, RancherOthers
<1>7. RancherOk(c)'
  <2>1. v3'[c] = failed
    BY <1>1, <1>4
  <2>2. RancherOk(c)
    BY DEF Rancher!Inv, RancherOk
  <2> QED
    BY <1>3, <2>1, <2>2 DEF RancherOk, Rancher!LabelsOf, Rancher!AppAsLeft,
       Rancher!CatalogAsLeft, Rancher!AppHolds, Rancher!CatalogHolds, Rancher!At
<1> QED
  BY <1>5, <1>6, <1>7, RancherKeeps

\* A command that Rancher refuses, an upgrade without settings, or a catalog that is there.
LEMMA RancherRefuses ==
  ASSUME Rancher!Inv, NEW c \in Actors,
         NEW label \in {"ok", "raised", "wait", "refresh"},
         v3' = [v3 EXCEPT ![c].at = label], v1' = v1, v2' = v2, v4' = v4,
         \/ Rancher!At(c, "install") /\ v1 # None /\ label = "raised"
         \/ /\ Rancher!At(c, "upgrade") /\ v3[c].bare
            /\ label \in {"raised", "ok", "wait"}
         \/ Rancher!At(c, "upgrade") /\ v1 = None /\ label = "raised"
         \/ Rancher!At(c, "delete") /\ v1 = None /\ label = "raised"
         \/ Rancher!At(c, "post") /\ v2 # None /\ label = "refresh"
  PROVE  Rancher!Inv'
<1>2. /\ Rancher!TypeOK'
      /\ v3'[c].at = label /\ v3'[c].op = v3[c].op /\ v3'[c].force = v3[c].force
      /\ v3'[c].bare = v3[c].bare /\ v3'[c].missed = v3[c].missed
      /\ v3'[c].touched = v3[c].touched /\ v3'[c].excused = v3[c].excused
      /\ \A d \in Actors \ {c} : RancherOk(d)'
  BY RancherMoves
<1>3. RancherOk(c)
  BY DEF Rancher!Inv, RancherOk
<1>5. Rancher!LabelsOf(c)'
  BY <1>2, <1>3 DEF RancherOk, Rancher!LabelsOf, Rancher!At
<1>6. Rancher!AppAsLeft(c)' /\ Rancher!CatalogAsLeft(c)'
  BY <1>2, <1>3 DEF RancherOk, Rancher!LabelsOf, Rancher!AppAsLeft,
     Rancher!CatalogAsLeft, Rancher!At
<1>7. Rancher!AppHolds(c)'
  BY <1>2, <1>3 DEF RancherOk, Rancher!LabelsOf, Rancher!AppAsLeft, Rancher!AppHolds, Rancher!At
<1>8. Rancher!CatalogHolds(c)'
  BY <1>2, <1>3 DEF RancherOk, Rancher!LabelsOf, Rancher!CatalogAsLeft,
     Rancher!CatalogHolds, Rancher!At
<1>9. RancherOk(c)'
  BY <1>5, <1>6, <1>7, <1>8 DEF RancherOk
<1> QED
  BY <1>2, <1>9, RancherKeeps

\* A command that Rancher executes.
LEMMA RancherChanges ==
  ASSUME Rancher!Inv, NEW c \in Actors,
         NEW app2 \in Actors \cup {None}, NEW catalog2 \in Actors \cup {None},
         NEW label \in {"ok", "wait", "refresh"},
         Rancher!Executed(c, app2, catalog2, label),
         \/ /\ Rancher!At(c, "install") \/ (Rancher!At(c, "upgrade") /\ ~v3[c].bare)
            /\ app2 = c /\ catalog2 = v2 /\ label \in {"ok", "wait"}
         \/ Rancher!At(c, "delete") /\ app2 = None /\ catalog2 = v2 /\ label = "ok"
         \/ Rancher!At(c, "post") /\ app2 = v1 /\ catalog2 = c /\ label = "refresh"
  PROVE  Rancher!Inv'
<1>1. c # None
  BY NoneIsNobody
<1>2. /\ Rancher!TypeOK'
      /\ v1' = app2 /\ v2' = catalog2
      /\ \/ v3'[c].at = label /\ v3'[c].excused = v3[c].excused
         \/ v3'[c].at = "raised" /\ v3'[c].excused
      /\ v3'[c].op = v3[c].op /\ v3'[c].force = v3[c].force
      /\ v3'[c].bare = v3[c].bare /\ v3'[c].missed = v3[c].missed
      /\ v3'[c].touched = v3[c].touched
      /\ \A d \in Actors \ {c} : RancherOk(d)'
  BY <1>1, RancherExecutes
<1>3. RancherOk(c)
  BY DEF Rancher!Inv, RancherOk
<1>5. Rancher!LabelsOf(c)'
  BY <1>2, <1>3 DEF RancherOk, Rancher!LabelsOf, Rancher!At
<1>6. Rancher!AppAsLeft(c)' /\ Rancher!CatalogAsLeft(c)'
  BY <1>1, <1>2, <1>3 DEF RancherOk, Rancher!LabelsOf, Rancher!AppAsLeft,
     Rancher!CatalogAsLeft, Rancher!At
<1>7. Rancher!AppHolds(c)'
  BY <1>2, <1>3 DEF RancherOk, Rancher!LabelsOf, Rancher!AppAsLeft, Rancher!AppHolds, Rancher!At
<1>8. Rancher!CatalogHolds(c)'
  BY <1>1, <1>2, <1>3 DEF RancherOk, Rancher!LabelsOf, Rancher!CatalogAsLeft,
     Rancher!CatalogHolds, Rancher!At
<1>9. RancherOk(c)'
  BY <1>5, <1>6, <1>7, <1>8 DEF RancherOk
<1> QED
  BY <1>2, <1>9, RancherKeeps

LEMMA RancherCommands ==
  ASSUME Rancher!Inv, NEW c \in Actors,
         \/ Rancher!Install(c) \/ Rancher!Upgrade(c) \/ Rancher!Delete(c)
         \/ Rancher!PostCatalog(c)
  PROVE  Rancher!Inv'
<1> USE DEF Rancher!Raise, Rancher!Goto, Rancher!AfterCommand
<1>1. v1 \in Actors \cup {None} /\ v2 \in Actors \cup {None}
  BY DEF Rancher!Inv, Rancher!TypeOK
<1>2. CASE Rancher!Install(c)
  <2>1. Rancher!At(c, "install")
    BY <1>2 DEF Rancher!Install
  <2>2. CASE v1 = None
    <3>1. PICK next \in {"ok", "wait"} : Rancher!Executed(c, c, v2, next)
      BY <1>2, <2>2 DEF Rancher!Install
    <3>2. CASE next = "ok"
      BY <1>1, <2>1, <3>1, <3>2, RancherChanges
    <3>3. CASE next = "wait"
      BY <1>1, <2>1, <3>1, <3>3, RancherChanges
    <3> QED
      BY <3>2, <3>3
  <2>3. CASE v1 # None
    BY <1>2, <2>1, <2>3, RancherRefuses DEF Rancher!Install
  <2> QED
    BY <2>2, <2>3
<1>3. CASE Rancher!Upgrade(c)
  <2>1. Rancher!At(c, "upgrade")
    BY <1>3 DEF Rancher!Upgrade
  <2>2. CASE v3[c].bare
    BY <1>3, <2>1, <2>2, RancherRefuses DEF Rancher!Upgrade
  <2>3. CASE ~v3[c].bare
    BY <1>1, <1>3, <2>1, <2>3, RancherRefuses, RancherChanges DEF Rancher!Upgrade
  <2> QED
    BY <2>2, <2>3
<1>4. CASE Rancher!Delete(c)
  BY <1>1, <1>4, RancherRefuses, RancherChanges DEF Rancher!Delete
<1>5. CASE Rancher!PostCatalog(c)
  BY <1>1, <1>5, RancherRefuses, RancherChanges DEF Rancher!PostCatalog
<1> QED
  BY <1>2, <1>3, <1>4, <1>5

LEMMA RancherStep == Rancher!Inv /\ Rancher!Next => Rancher!Inv'
BY RancherBegins, RancherMoved, RancherCommandFails, RancherCommands DEF Rancher!Next

LEMMA RancherStutter == Rancher!Inv /\ UNCHANGED vars => Rancher!Inv'
<1> SUFFICES ASSUME Rancher!Inv, UNCHANGED <<v1, v2, v3, v4>> PROVE Rancher!Inv'
  BY DEF vars
<1>1. Rancher!TypeOK'
  BY DEF Rancher!Inv, Rancher!TypeOK
<1>2. ASSUME NEW c \in Actors PROVE RancherOk(c)'
  BY DEF Rancher!Inv, RancherOk, Rancher!LabelsOf, Rancher!AppAsLeft, Rancher!CatalogAsLeft,
     Rancher!AppHolds, Rancher!CatalogHolds, Rancher!At
<1> QED
  BY <1>1, <1>2 DEF Rancher!Inv, RancherOk

LEMMA SetupsAlways == 
  Spec => [](/\ focus = "k3s" => K3s!Inv
             /\ focus = "rancher" => Rancher!Inv)
<1> DEFINE Holds == /\ focus = "k3s" => K3s!Inv
                    /\ focus = "rancher" => Rancher!Inv
<1>1. Init => Holds
  BY K3sInit, RancherInit DEF Init
<1>2. Holds /\ [Next]_vars => Holds'
  <2>1. ASSUME Holds, Next PROVE Holds'
    <3>1. CASE focus = "k3s" /\ K3s!Next /\ focus' = focus
      BY <2>1, <3>1, K3sType, K3sMarked, K3sCounted, K3sPods DEF K3s!Inv
    <3>2. CASE focus = "rancher" /\ Rancher!Next /\ focus' = focus
      BY <2>1, <3>2, RancherStep
    <3>3. CASE focus \notin {"k3s", "rancher"} /\ focus' = focus
      BY <3>3
    <3> QED
      BY <2>1, <3>1, <3>2, <3>3 DEF Next
  <2>2. ASSUME Holds, UNCHANGED vars PROVE Holds'
    <3>1. focus' = focus
      BY <2>2 DEF vars
    <3> QED
      BY <2>2, <3>1, K3sStutter, RancherStutter
  <2> QED
    BY <2>1, <2>2
<1> QED
  BY <1>1, <1>2, PTL DEF Spec

\* A setup of k3s that returns has joined and labelled all hosts and has left no pod of
\* Rancher with a certificate that it saw expired, for any hosts, masters and pods; and an app or a
\* catalog of Rancher is what the call has made it, for any callers.
THEOREM SetupsAreComplete == Spec => []ClusterIsSetUp
<1> DEFINE Holds == /\ focus = "k3s" => K3s!Inv
                    /\ focus = "rancher" => Rancher!Inv
<1>1. Holds => ClusterIsSetUp
  <2>1. ASSUME K3s!Inv PROVE K3s!TypeOK /\ K3s!SetupOkMeansJoined /\ K3s!SetupOkMeansRenewed
    <3>1. K3s!TypeOK
      BY <2>1 DEF K3s!Inv
    <3> QED
      BY <2>1, <3>1 DEF K3s!Inv, K3s!TypeOK, K3s!MarkedHaveJoined,
         K3s!CountedAreReady, K3s!OldPodsAreListed, K3s!Labelled, K3s!Nodes, K3s!SetupOkMeansJoined,
         K3s!SetupOkMeansRenewed
  <2>2. ASSUME Rancher!Inv PROVE Rancher!TypeOK /\ Rancher!AppsHold /\ Rancher!CatalogsHold
    BY <2>2 DEF Rancher!Inv, Rancher!AppsHold, Rancher!CatalogsHold
  <2> QED
    BY <2>1, <2>2 DEF ClusterIsSetUp
<1> QED
  BY <1>1, SetupsAlways, PTL

-----------------------------------------------------------------------------
(* The rpyc server of Kafka on a docker host, its calls and checks.        *)

\* The labels of the threads, and the rest of the types.
RpycLabels ==
  {"ok", "raised", "start", "snippet", "await", "connect", "topics", "delete", "absent", "create",
   "present", "produce", "consume", "cleanup"}

RpycTyped ==
  /\ v1 \in Actors \cup {None} /\ v2 \in BOOLEAN /\ v3 \in Nat
  /\ v4 \in {"none", "starting", "listening", "dead"} /\ v5 \in BOOLEAN
  /\ v6 \in {"none", "there", "deleting"} /\ v7 \in Nat
  /\ v8 \in [Actors -> RpycLabels] /\ v9 \in [Actors -> {"ping", "verify_functionality"}]
  /\ v10 \subseteq Actors /\ v11 \in 0..MaxFaults

RpycThreadOk(t) == Rpyc!FindsOwn(t) /\ (v8[t] = "raised" => t \in v10 \/ v4 = "dead")

LEMMA RpycInvIs ==
  Rpyc!Inv <=> /\ RpycTyped /\ Rpyc!StartsOnce /\ Rpyc!ChecksApart /\ (v6 = "none" => v7 = 0)
               /\ \A t \in Actors : RpycThreadOk(t)
BY DEF Rpyc!Inv, Rpyc!TypeOK, RpycTyped, RpycLabels, RpycThreadOk, Rpyc!CallsFailForCause, Rpyc!At

LEMMA RpycInvPrimed ==
  Rpyc!Inv' <=> (/\ RpycTyped /\ Rpyc!StartsOnce /\ Rpyc!ChecksApart /\ (v6 = "none" => v7 = 0)
                 /\ \A t \in Actors : RpycThreadOk(t))'
BY RpycInvIs, PTL

LEMMA RpycInit == Rpyc!Init => Rpyc!Inv
<1> SUFFICES ASSUME Rpyc!Init PROVE Rpyc!Inv
  OBVIOUS
<1>1. RpycTyped
  <2>1. v8 \in [Actors -> RpycLabels] /\ v9 \in [Actors -> {"ping", "verify_functionality"}]
    BY DEF Rpyc!Init, RpycLabels
  <2>2. v11 \in 0..MaxFaults /\ v3 \in Nat /\ v7 \in Nat
    BY BoundsAssumption DEF Rpyc!Init
  <2> QED
    BY <2>1, <2>2 DEF Rpyc!Init, RpycTyped
<1>2. Rpyc!StartsOnce /\ Rpyc!ChecksApart
  BY NoneIsNobody DEF Rpyc!Init, Rpyc!StartsOnce, Rpyc!ChecksApart, Rpyc!At, Rpyc!Verifies, Rpyc!Returned
<1>3. \A t \in Actors : RpycThreadOk(t)
  BY DEF Rpyc!Init, RpycThreadOk, Rpyc!FindsOwn, Rpyc!At
<1> QED
  BY <1>1, <1>2, <1>3, RpycInvIs DEF Rpyc!Init

\* The lock and the server, when no thread comes to the start of it or leaves it.
LEMMA RpycStarts ==
  ASSUME Rpyc!Inv, UNCHANGED <<v1, v2, v3>>,
         \A t \in Actors : v8'[t] = "snippet" <=> v8[t] = "snippet"
  PROVE  Rpyc!StartsOnce'
BY RpycInvIs DEF Rpyc!StartsOnce, Rpyc!At

\* What another thread is asked of the topic, while this one is not checking or both are.
LEMMA RpycOther ==
  ASSUME Rpyc!Inv, NEW u \in Actors, v8'[u] = v8[u], v9'[u] = v9[u], u \in v10 => u \in v10',
         v4 = "dead" => v4' = "dead",
         u \in v10 \/ Rpyc!Returned(u) \/ v9[u] = "ping" \/ (UNCHANGED <<v6, v7>>)
  PROVE  RpycThreadOk(u)'
BY RpycInvIs DEF RpycTyped, RpycThreadOk, Rpyc!FindsOwn, Rpyc!At, Rpyc!Returned

\* Threads that check stay excused when one goes on.
LEMMA RpycApart ==
  ASSUME Rpyc!Inv, NEW t \in Actors, UNCHANGED v9, v10 \subseteq v10',
         v8 \in [Actors -> RpycLabels], NEW label, v8' = [v8 EXCEPT ![t] = label],
         ~Rpyc!Returned(t)
  PROVE  Rpyc!ChecksApart'
BY RpycInvIs DEF Rpyc!ChecksApart, Rpyc!Verifies, Rpyc!Returned
\* A step of thread t that takes no lock.
RpycGoes(t, label) ==
  /\ v8' = [v8 EXCEPT ![t] = label] /\ UNCHANGED <<v1, v2, v3, v4, v5, v9>>
  /\ v10' \in {v10, v10 \cup {t}} /\ v11' \in 0..MaxFaults
  /\ v6' \in {"none", "there", "deleting"} /\ v7' \in Nat /\ (v6' = "none" => v7' = 0)

LEMMA RpycThread ==
  ASSUME Rpyc!Inv, NEW t \in Actors, v8[t] \notin {"snippet", "ok", "raised"},
         NEW label \in RpycLabels \ {"snippet"}, RpycGoes(t, label),
         v9[t] = "verify_functionality" \/ UNCHANGED <<v6, v7>>, RpycThreadOk(t)'
  PROVE  Rpyc!Inv'
<1>1. RpycTyped /\ Rpyc!ChecksApart
  BY RpycInvIs
<1>2. RpycTyped'
  BY <1>1 DEF RpycTyped, RpycGoes
<1>3. v8'[t] = label /\ \A u \in Actors \ {t} : v8'[u] = v8[u]
  BY <1>1 DEF RpycTyped, RpycGoes
<1>4. Rpyc!StartsOnce'
  BY <1>3, RpycStarts DEF RpycGoes
<1>5. Rpyc!ChecksApart'
  BY <1>1, RpycApart DEF RpycTyped, RpycGoes, Rpyc!Returned, Rpyc!At
<1>6. ASSUME NEW u \in Actors \ {t} PROVE RpycThreadOk(u)'
  <2>1. u \in v10 \/ Rpyc!Returned(u) \/ v9[u] = "ping" \/ (UNCHANGED <<v6, v7>>)
    BY <1>1 DEF Rpyc!ChecksApart, Rpyc!Verifies, Rpyc!Returned, Rpyc!At, RpycTyped
  <2> QED
    BY <1>3, <2>1, RpycOther DEF RpycGoes
<1> QED
  BY <1>2, <1>4, <1>5, <1>6, RpycInvPrimed DEF RpycGoes

\* What a request comes to.
LEMMA RpycRequested ==
  ASSUME Rpyc!Inv, NEW t \in Actors, NEW next, Rpyc!Request(t, next)
  PROVE  /\ UNCHANGED <<v1, v2, v3, v4, v9>> /\ v11' \in 0..MaxFaults
         /\ \/ v8' = [v8 EXCEPT ![t] = next] /\ v10' = v10
            \/ v8' = [v8 EXCEPT ![t] = "raised"] /\ v10' = v10 \cup {t}
<1>1. v11 \in 0..MaxFaults
  BY RpycInvIs DEF RpycTyped
<1>2. v11' = v11 \/ (v11 > 0 /\ v11' = v11 - 1)
  BY DEF Rpyc!Request, Rpyc!Fault
<1>3. v11' \in 0..MaxFaults
  BY <1>1, <1>2, BoundsAssumption
<1> QED
  BY <1>3 DEF Rpyc!Request, Rpyc!Goto, Rpyc!Fault

LEMMA RpycRaises ==
  ASSUME Rpyc!Inv, NEW t \in Actors, v8'[t] = "raised", v10' = v10 \cup {t}
  PROVE  RpycThreadOk(t)'
BY DEF RpycThreadOk, Rpyc!FindsOwn, Rpyc!At
\* The requests of a client.
LEMMA RpycGetTopicsStep ==
  ASSUME Rpyc!Inv, NEW t \in Actors, Rpyc!GetTopics(t) PROVE Rpyc!Inv'
<1> DEFINE next == IF v9[t] = "ping" THEN "ok" ELSE "delete"
<1>1. v8[t] = "topics" /\ Rpyc!Request(t, next) /\ UNCHANGED <<v5, v6, v7>>
  BY DEF Rpyc!GetTopics, Rpyc!At, Rpyc!host
<1>2. RpycTyped /\ (v6 = "none" => v7 = 0)
  BY RpycInvIs
<1>3. next \in RpycLabels \ {"snippet"} /\ (next = "delete" => v9[t] = "verify_functionality")
  BY <1>2 DEF RpycLabels, RpycTyped
<1>4. next \in {"ok", "delete"}
  OBVIOUS
<1> HIDE DEF next
<1>5. PICK label \in {next, "raised"} : v8' = [v8 EXCEPT ![t] = label] /\ RpycGoes(t, label)
                                     /\ (label = "raised" => v10' = v10 \cup {t})
  BY <1>1, <1>2, <1>4, RpycRequested DEF RpycGoes, RpycTyped
<1>6. v8'[t] = label
  BY <1>2, <1>5 DEF RpycTyped
<1>7. RpycThreadOk(t)'
  BY <1>1, <1>3, <1>4, <1>5, <1>6 DEF RpycThreadOk, Rpyc!FindsOwn, Rpyc!At, RpycGoes
<1>8. label \in RpycLabels \ {"snippet"}
  BY <1>3, <1>5 DEF RpycLabels
<1> QED
  BY <1>1, <1>5, <1>7, <1>8, RpycThread
RpycChecking ==
  {"delete", "absent", "create", "present", "produce", "consume", "cleanup"}

LEMMA RpycCheckStep ==
  ASSUME Rpyc!Inv, NEW t \in Actors, v8[t] \in RpycChecking,
         NEW next \in RpycLabels \ {"snippet"}, Rpyc!Request(t, next), UNCHANGED v5,
         v6' \in {"none", "there", "deleting"}, v7' \in Nat, v6' = "none" => v7' = 0,
         v8'[t] = next /\ v10' = v10 => RpycThreadOk(t)'
  PROVE  Rpyc!Inv'
<1>1. RpycTyped /\ v9[t] = "verify_functionality"
  BY RpycInvIs DEF RpycThreadOk, Rpyc!FindsOwn, RpycChecking
<1>2. PICK label \in {next, "raised"} :
        /\ v8' = [v8 EXCEPT ![t] = label] /\ RpycGoes(t, label)
        /\ (label = next /\ v10' = v10) \/ (label = "raised" /\ v10' = v10 \cup {t})
  BY <1>1, RpycRequested DEF RpycGoes
<1>3. v8'[t] = label
  BY <1>1, <1>2 DEF RpycTyped
<1>4. RpycThreadOk(t)'
  BY <1>2, <1>3, RpycRaises
<1>5. label \in RpycLabels \ {"snippet"} /\ v8[t] \notin {"snippet", "ok", "raised"}
  BY <1>2 DEF RpycLabels, RpycChecking
<1> QED
  BY <1>1, <1>2, <1>4, <1>5, RpycThread

\* What a check finds at its next request.
LEMMA RpycFound ==
  ASSUME Rpyc!Inv, NEW t \in Actors
  PROVE  /\ v6 \in {"none", "there", "deleting"} /\ v7 \in Nat /\ (v6 = "none" => v7 = 0)
         /\ v8[t] \in RpycChecking => v9[t] = "verify_functionality"
         /\ t \notin v10 =>
              /\ v8[t] = "absent" => v6 # "there"
              /\ v8[t] = "create" => v6 = "none"
              /\ v8[t] \in {"present", "produce"} => v6 = "there" /\ v7 = 0
              /\ v8[t] = "consume" => v6 = "there" /\ v7 = 1
              /\ v8[t] = "cleanup" => v6 = "there"
BY RpycInvIs DEF RpycTyped, RpycThreadOk, Rpyc!FindsOwn, Rpyc!At, RpycChecking

LEMMA RpycThreadIs ==
  ASSUME NEW t
  PROVE  RpycThreadOk(t)' <=>
           /\ v8'[t] \in RpycChecking => v9'[t] = "verify_functionality"
           /\ t \notin v10' =>
                /\ v8'[t] = "absent" => v6' # "there"
                /\ v8'[t] = "create" => v6' = "none"
                /\ v8'[t] \in {"present", "produce"} => v6' = "there" /\ v7' = 0
                /\ v8'[t] = "consume" => v6' = "there" /\ v7' = 1
                /\ v8'[t] = "cleanup" => v6' = "there"
           /\ v8'[t] = "raised" => t \in v10' \/ v4' = "dead"
BY DEF RpycThreadOk, Rpyc!FindsOwn, Rpyc!At, RpycChecking

LEMMA RpycDeleteStep ==
  ASSUME Rpyc!Inv, NEW t \in Actors, Rpyc!DeleteTopic(t) PROVE Rpyc!Inv'
<1>1. v8[t] = "delete" /\ v8[t] \in RpycChecking /\ UNCHANGED <<v5, v7>>
  BY DEF Rpyc!DeleteTopic, Rpyc!At, RpycChecking
<1>2. CASE /\ Rpyc!Request(t, "absent")
           /\ v6' = IF v8'[t] # "raised" /\ v6 = "there" THEN "deleting" ELSE v6
  <2>1. v6' \in {"none", "there", "deleting"} /\ v7' \in Nat /\ (v6' = "none" => v7' = 0)
    BY <1>1, <1>2, RpycFound
  <2>2. v9' = v9
    BY <1>2, RpycRequested
  <2>3. v8'[t] = "absent" /\ v10' = v10 => RpycThreadOk(t)'
    BY <1>1, <1>2, <2>2, RpycFound, RpycThreadIs DEF RpycChecking
  <2>4. "absent" \in RpycLabels \ {"snippet"}
    BY DEF RpycLabels
  <2> QED
    BY <1>1, <1>2, <2>1, <2>3, <2>4, RpycCheckStep
<1>3. CASE Rpyc!Fault(t) /\ Rpyc!Goto(t, "absent") /\ UNCHANGED <<v6, v1, v2, v3, v4, v9>>
  <2>1. RpycTyped
    BY RpycInvIs
  <2>2. v8' = [v8 EXCEPT ![t] = "absent"] /\ v10' = v10 \cup {t} /\ v11' \in 0..MaxFaults
    BY <1>3, <2>1, BoundsAssumption DEF RpycTyped, Rpyc!Fault, Rpyc!Goto
  <2>3. RpycGoes(t, "absent")
    BY <1>1, <1>3, <2>2, RpycFound DEF RpycGoes
  <2>4. RpycThreadOk(t)'
    BY <1>1, <1>3, <2>1, <2>2, RpycFound, RpycThreadIs DEF RpycTyped, RpycChecking
  <2>5. "absent" \in RpycLabels \ {"snippet"}
    BY DEF RpycLabels
  <2> QED
    BY <1>1, <1>3, <2>3, <2>4, <2>5, RpycThread
<1> QED
  BY <1>2, <1>3, Zenon DEF Rpyc!DeleteTopic, Rpyc!Answered

LEMMA RpycAbsentStep ==
  ASSUME Rpyc!Inv, NEW t \in Actors, Rpyc!AssertAbsent(t) PROVE Rpyc!Inv'
<1>1. v8[t] = "absent" /\ v8[t] \in RpycChecking /\ UNCHANGED <<v5, v6, v7>>
  BY DEF Rpyc!AssertAbsent, Rpyc!At, Rpyc!host, RpycChecking
<1>2. CASE v6 = "none" /\ Rpyc!Request(t, "create")
  <2>1. v6' \in {"none", "there", "deleting"} /\ v7' \in Nat /\ (v6' = "none" => v7' = 0)
    BY <1>1, RpycFound
  <2>2. v9' = v9
    BY <1>2, RpycRequested
  <2>3. v8'[t] = "create" /\ v10' = v10 => RpycThreadOk(t)'
    BY <1>1, <1>2, <2>2, RpycFound, RpycThreadIs DEF RpycChecking
  <2>4. "create" \in RpycLabels \ {"snippet"}
    BY DEF RpycLabels
  <2> QED
    BY <1>1, <1>2, <2>1, <2>3, <2>4, RpycCheckStep
<1>3. CASE /\ v6 # "none" /\ Rpyc!Goto(t, "raised")
           /\ v10' = v10 \cup {u \in {t} : v6 = "deleting"}
           /\ UNCHANGED <<v1, v2, v3, v4, v9, v11>>
  <2>1. t \in v10'
    BY <1>1, <1>3, RpycFound
  <2>2. v10' \in {v10, v10 \cup {t}}
    BY <1>3
  <2>3. RpycTyped
    BY RpycInvIs
  <2>4. v8' = [v8 EXCEPT ![t] = "raised"] /\ v8'[t] = "raised"
    BY <1>3, <2>3 DEF RpycTyped, Rpyc!Goto
  <2>5. RpycGoes(t, "raised")
    BY <1>1, <1>3, <2>2, <2>3, <2>4, RpycFound DEF RpycGoes, RpycTyped
  <2>6. RpycThreadOk(t)'
    BY <1>1, <2>1, <2>4, RpycThreadIs DEF RpycChecking
  <2>7. "raised" \in RpycLabels \ {"snippet"}
    BY DEF RpycLabels
  <2> QED
    BY <1>1, <2>5, <2>6, <2>7, RpycThread
<1> QED
  BY <1>2, <1>3, Zenon DEF Rpyc!AssertAbsent

LEMMA RpycCreateStep ==
  ASSUME Rpyc!Inv, NEW t \in Actors, Rpyc!CreateTopic(t) PROVE Rpyc!Inv'
<1> DEFINE next == IF v6 = "none" THEN "present" ELSE "raised"
<1>1. /\ v8[t] = "create" /\ v8[t] \in RpycChecking /\ UNCHANGED <<v5, v7>>
      /\ Rpyc!Request(t, next)
      /\ v6' = "there" \/ (v8'[t] = "raised" /\ v6' = v6)
  BY DEF Rpyc!CreateTopic, Rpyc!At, Rpyc!Answered, RpycChecking
<1>2. v6' \in {"none", "there", "deleting"} /\ v7' \in Nat /\ (v6' = "none" => v7' = 0)
  BY <1>1, RpycFound
<1>3. v9' = v9 /\ next \in RpycLabels \ {"snippet"}
  BY <1>1, RpycRequested DEF RpycLabels
<1>4. v8'[t] = next /\ v10' = v10 => RpycThreadOk(t)'
  BY <1>1, <1>3, RpycFound, RpycThreadIs DEF RpycChecking
<1> QED
  BY <1>1, <1>2, <1>3, <1>4, RpycCheckStep

\* A request that changes at most the number of batches.
LEMMA RpycRestStep ==
  ASSUME Rpyc!Inv, NEW t \in Actors,
         Rpyc!AssertPresent(t) \/ Rpyc!Produce(t) \/ Rpyc!Consume(t) \/ Rpyc!CleanUp(t)
  PROVE  Rpyc!Inv'
<1> DEFINE here == IF v6 = "there" THEN "produce" ELSE "raised"
           whole == IF v7 = 1 THEN "cleanup" ELSE "raised"
           end == IF v6 = "there" THEN "ok" ELSE "raised"
<1>1. {here, whole, end, "consume"} \subseteq RpycLabels \ {"snippet"}
  BY DEF RpycLabels
<1>2. CASE Rpyc!AssertPresent(t)
  <2>1. /\ v8[t] = "present" /\ v8[t] \in RpycChecking /\ UNCHANGED <<v5, v6, v7>>
        /\ Rpyc!Request(t, here)
    BY <1>2 DEF Rpyc!AssertPresent, Rpyc!At, Rpyc!host, RpycChecking
  <2>2. v9' = v9
    BY <2>1, RpycRequested
  <2>3. v8'[t] = here /\ v10' = v10 => RpycThreadOk(t)'
    BY <2>1, <2>2, RpycFound, RpycThreadIs DEF RpycChecking
  <2> QED
    BY <1>1, <2>1, <2>3, RpycCheckStep, RpycFound
<1>3. CASE Rpyc!Produce(t)
  <2>1. /\ v8[t] = "produce" /\ v8[t] \in RpycChecking /\ UNCHANGED <<v5, v6>>
        /\ Rpyc!Request(t, "consume")
        /\ v7' = IF v8'[t] # "raised" /\ v6 = "there" THEN v7 + 1 ELSE v7
    BY <1>3 DEF Rpyc!Produce, Rpyc!At, Rpyc!Answered, RpycChecking
  <2>2. v9' = v9
    BY <2>1, RpycRequested
  <2>3. v7' \in Nat /\ (v6' = "none" => v7' = 0)
    BY <2>1, RpycFound
  <2>4. t \notin v10 => v6 = "there" /\ v7 = 0
    BY <2>1, RpycFound
  <2>5. v8'[t] = "consume" /\ t \notin v10 => v7' = 1
    BY <2>1, <2>4
  <2>6. v8'[t] = "consume" /\ v10' = v10 => RpycThreadOk(t)'
    BY <2>1, <2>2, <2>4, <2>5, RpycFound, RpycThreadIs DEF RpycChecking
  <2> QED
    BY <1>1, <2>1, <2>3, <2>6, RpycCheckStep, RpycFound
<1>4. CASE Rpyc!Consume(t)
  <2>1. /\ v8[t] = "consume" /\ v8[t] \in RpycChecking /\ UNCHANGED <<v5, v6, v7>>
        /\ Rpyc!Request(t, whole)
    BY <1>4 DEF Rpyc!Consume, Rpyc!At, Rpyc!host, RpycChecking
  <2>2. v9' = v9
    BY <2>1, RpycRequested
  <2>3. v8'[t] = whole /\ v10' = v10 => RpycThreadOk(t)'
    BY <2>1, <2>2, RpycFound, RpycThreadIs DEF RpycChecking
  <2> QED
    BY <1>1, <2>1, <2>3, RpycCheckStep, RpycFound
<1>5. CASE Rpyc!CleanUp(t)
  <2>1. /\ v8[t] = "cleanup" /\ v8[t] \in RpycChecking /\ UNCHANGED <<v5, v7>>
        /\ Rpyc!Request(t, end) /\ v6' = IF v8'[t] # "raised" THEN "deleting" ELSE v6
    BY <1>5 DEF Rpyc!CleanUp, Rpyc!At, Rpyc!Answered, RpycChecking
  <2>2. v9' = v9
    BY <2>1, RpycRequested
  <2>3. v8'[t] = end /\ v10' = v10 => RpycThreadOk(t)'
    BY <2>1, <2>2, RpycFound, RpycThreadIs DEF RpycChecking
  <2> QED
    BY <1>1, <2>1, <2>3, RpycCheckStep, RpycFound
<1> QED
  BY <1>2, <1>3, <1>4, <1>5
\* A step of the server, the broker or those who stop it.
LEMMA RpycHost ==
  ASSUME Rpyc!Inv, UNCHANGED <<v1, v2, v3, v8, v9>>, v10 \subseteq v10', v10' \subseteq Actors,
         v4' \in {"none", "starting", "listening", "dead"}, v4 = "dead" => v4' = "dead",
         v5' \in BOOLEAN, v6' \in {"none", "there", "deleting"}, v7' \in Nat,
         v6' = "none" => v7' = 0, v11' \in 0..MaxFaults,
         \/ UNCHANGED <<v6, v7>> \/ v6 = "deleting"
         \/ \A t \in Actors : t \in v10' \/ Rpyc!Returned(t),
         v6 = "deleting" => v6' \in {"none", "deleting"}
  PROVE  Rpyc!Inv'
<1>1. RpycTyped /\ Rpyc!ChecksApart
  BY RpycInvIs
<1>2. RpycTyped'
  BY <1>1 DEF RpycTyped
<1>3. Rpyc!StartsOnce'
  BY RpycStarts
<1>4. Rpyc!ChecksApart'
  BY <1>1 DEF Rpyc!ChecksApart, Rpyc!Verifies, Rpyc!Returned, Rpyc!At
<1>5. ASSUME NEW t \in Actors PROVE RpycThreadOk(t)'
  <2>1. v8[t] = "raised" => t \in v10 \/ v4 = "dead"
    BY RpycInvIs DEF RpycThreadOk
  <2>2. Rpyc!Returned(t) => v8[t] \in {"ok", "raised"}
    BY DEF Rpyc!Returned, Rpyc!At
  <2>3. CASE t \in v10'
    BY <2>1, <2>3, RpycFound, RpycThreadIs
  <2>4. CASE UNCHANGED <<v6, v7>>
    BY <2>1, <2>4, RpycFound, RpycThreadIs
  <2>5. CASE Rpyc!Returned(t)
    BY <2>1, <2>2, <2>5, RpycFound, RpycThreadIs DEF RpycChecking
  <2>6. CASE v6 = "deleting"
    BY <2>1, <2>6, RpycFound, RpycThreadIs
  <2> QED
    BY <2>3, <2>4, <2>5, <2>6
<1> QED
  BY <1>2, <1>3, <1>4, <1>5, RpycInvPrimed

LEMMA RpycHostStep ==
  ASSUME Rpyc!Inv,
         Rpyc!ServerListens \/ Rpyc!ServerDies \/ Rpyc!TopicDeleted \/ Rpyc!Maintain
  PROVE  Rpyc!Inv'
<1>0. RpycTyped /\ (v6 = "none" => v7 = 0)
  BY RpycInvIs
<1>1. CASE Rpyc!ServerListens
  BY <1>0, <1>1, RpycHost DEF RpycTyped, Rpyc!ServerListens, Rpyc!host
<1>2. CASE Rpyc!ServerDies
  <2>1. v4' = "dead" /\ UNCHANGED <<v1, v2, v3, v5, v6, v7, v8, v9, v10>>
    BY <1>2 DEF Rpyc!ServerDies, Rpyc!host
  <2>2. v11' \in 0..MaxFaults
    BY <1>0, <1>2, BoundsAssumption DEF RpycTyped, Rpyc!ServerDies
  <2> QED
    BY <1>0, <2>1, <2>2, RpycHost DEF RpycTyped
<1>3. CASE Rpyc!TopicDeleted
  BY <1>0, <1>3, RpycHost DEF RpycTyped, Rpyc!TopicDeleted
<1>4. CASE Rpyc!Maintain
  <2>1. /\ UNCHANGED <<v1, v2, v3, v4, v8, v9, v11>>
        /\ v10' = v10 \cup {t \in Actors : ~Rpyc!Returned(t)}
        /\ \/ v5' = ~v5 /\ UNCHANGED <<v6, v7>>
           \/ v6 # "none" /\ v6' = "none" /\ v7' = 0 /\ UNCHANGED v5
    BY <1>4 DEF Rpyc!Maintain
  <2>2. v5' \in BOOLEAN
    BY <1>0, <2>1 DEF RpycTyped
  <2> QED
    BY <1>0, <2>1, <2>2, RpycHost DEF RpycTyped
<1> QED
  BY <1>1, <1>2, <1>3, <1>4

\* The calls, the lock and the connection.
LEMMA RpycCallStep ==
  ASSUME Rpyc!Inv, NEW t \in Actors, NEW method \in {"ping", "verify_functionality"},
         Rpyc!Call(t, method)
  PROVE  Rpyc!Inv'
<1>1. RpycTyped /\ Rpyc!ChecksApart
  BY RpycInvIs
<1>2. /\ v8[t] \in {"ok", "raised"} /\ v8' = [v8 EXCEPT ![t] = "start"]
      /\ v9' = [v9 EXCEPT ![t] = method] /\ UNCHANGED <<v1, v2, v3, v4, v5, v6, v7, v11>>
      /\ v10' = IF method = "verify_functionality" /\ \E u \in Actors : Rpyc!Verifies(u)
                THEN v10 \cup {t} \cup {u \in Actors : Rpyc!Verifies(u)}
                ELSE v10 \ {t}
  BY DEF Rpyc!Call, Rpyc!Returned, Rpyc!Goto, Rpyc!host
<1>3. /\ v8'[t] = "start" /\ v9'[t] = method
      /\ \A u \in Actors \ {t} : v8'[u] = v8[u] /\ v9'[u] = v9[u]
  BY <1>1, <1>2 DEF RpycTyped
<1>4. RpycTyped'
  <2>1. v8' \in [Actors -> RpycLabels]
    BY <1>1, <1>2 DEF RpycTyped, RpycLabels
  <2>2. v9' \in [Actors -> {"ping", "verify_functionality"}]
    BY <1>1, <1>2 DEF RpycTyped
  <2>3. v10' \subseteq Actors
    BY <1>1, <1>2 DEF RpycTyped
  <2> QED
    BY <1>1, <1>2, <2>1, <2>2, <2>3 DEF RpycTyped
<1>5. Rpyc!StartsOnce'
  BY <1>2, <1>3, RpycStarts
<1>6. \A u \in Actors \ {t} : u \in v10 => u \in v10'
  BY <1>2
<1>7. Rpyc!ChecksApart'
  <2> SUFFICES ASSUME NEW u \in Actors, NEW w \in Actors, u # w,
                      Rpyc!Verifies(u)', Rpyc!Verifies(w)'
               PROVE  u \in v10' /\ w \in v10'
    BY DEF Rpyc!ChecksApart
  <2>1. \A x \in Actors \ {t} : Rpyc!Verifies(x)' <=> Rpyc!Verifies(x)
    BY <1>3 DEF Rpyc!Verifies, Rpyc!Returned
  <2>2. Rpyc!Verifies(t)' => method = "verify_functionality"
    BY <1>3 DEF Rpyc!Verifies
  <2>3. CASE u # t /\ w # t
    BY <1>1, <1>6, <2>1, <2>3 DEF Rpyc!ChecksApart
  <2>4. CASE u = t \/ w = t
    <3>1. method = "verify_functionality" /\ \E x \in Actors : Rpyc!Verifies(x)
      BY <2>1, <2>2, <2>4
    <3> QED
      BY <1>2, <2>1, <2>4, <3>1
  <2> QED
    BY <2>3, <2>4
<1>8. ASSUME NEW u \in Actors PROVE RpycThreadOk(u)'
  <2>1. CASE u = t
    BY <1>3, <2>1, RpycThreadIs DEF RpycChecking
  <2>2. CASE u # t
    BY <1>2, <1>3, <1>6, <2>2, RpycOther
  <2> QED
    BY <2>1, <2>2
<1> QED
  BY <1>2, <1>4, <1>5, <1>7, <1>8, RpycInvIs, RpycInvPrimed

LEMMA RpycStartStep ==
  ASSUME Rpyc!Inv, NEW t \in Actors, Rpyc!StartServer(t) \/ Rpyc!RunSnippet(t)
  PROVE  Rpyc!Inv'
<1>1. RpycTyped /\ Rpyc!ChecksApart /\ Rpyc!StartsOnce
  BY RpycInvIs
<1>2. /\ v8[t] \in {"start", "snippet"} /\ UNCHANGED <<v5, v6, v7, v9>>
      /\ v10' \in {v10, v10 \cup {t}} /\ (v4 = "dead" => v4' = "dead")
  BY DEF Rpyc!StartServer, Rpyc!RunSnippet, Rpyc!At, Rpyc!host, Rpyc!Fault
<1>3. PICK label \in {"connect", "snippet", "await", "raised"} :
        v8' = [v8 EXCEPT ![t] = label] /\ (label = "raised" => v10' = v10 \cup {t})
  <2>1. CASE Rpyc!StartServer(t)
    BY <2>1 DEF Rpyc!StartServer, Rpyc!Goto
  <2>2. CASE Rpyc!RunSnippet(t)
    BY <2>2 DEF Rpyc!RunSnippet, Rpyc!Goto, Rpyc!Fault
  <2> QED
    BY <2>1, <2>2
<1>4. v8'[t] = label /\ \A u \in Actors \ {t} : v8'[u] = v8[u]
  BY <1>1, <1>3 DEF RpycTyped
<1>5. RpycTyped'
  <2>1. v8' \in [Actors -> RpycLabels]
    BY <1>1, <1>3 DEF RpycTyped, RpycLabels
  <2>2. v11' \in 0..MaxFaults
    BY <1>1, BoundsAssumption DEF RpycTyped, Rpyc!StartServer, Rpyc!RunSnippet, Rpyc!Fault
  <2>3. v1' \in Actors \cup {None} /\ v2' \in BOOLEAN
    BY <1>1 DEF RpycTyped, Rpyc!StartServer, Rpyc!RunSnippet
  <2>4. v3' \in Nat
    BY <1>1 DEF RpycTyped, Rpyc!StartServer, Rpyc!RunSnippet
  <2>5. v4' \in {"none", "starting", "listening", "dead"}
    BY <1>1 DEF RpycTyped, Rpyc!StartServer, Rpyc!RunSnippet
  <2> QED
    BY <1>1, <1>2, <2>1, <2>2, <2>3, <2>4, <2>5 DEF RpycTyped
<1>6. Rpyc!StartsOnce'
  <2>1. CASE Rpyc!StartServer(t)
    <3>1. /\ v8[t] = "start" /\ v1 = None /\ UNCHANGED <<v2, v3>>
          /\ \/ v2 /\ v8'[t] = "connect" /\ v1' = v1
             \/ ~v2 /\ v8'[t] = "snippet" /\ v1' = t
      BY <1>1, <2>1 DEF Rpyc!StartServer, Rpyc!At, Rpyc!Goto, RpycTyped
    <3>2. \A u \in Actors : v8[u] # "snippet" /\ u # None
      BY <1>1, <3>1, NoneIsNobody DEF Rpyc!StartsOnce, Rpyc!At
    <3> QED
      BY <1>1, <1>4, <3>1, <3>2 DEF Rpyc!StartsOnce, Rpyc!At
  <2>2. CASE Rpyc!RunSnippet(t)
    <3>1. /\ v8[t] = "snippet" /\ v1' = None
          /\ \/ v2' = TRUE /\ v3' = v3 + 1 /\ v8'[t] = "await"
             \/ UNCHANGED <<v2, v3>> /\ v8'[t] = "raised"
      BY <1>1, <2>2 DEF Rpyc!RunSnippet, Rpyc!At, Rpyc!Goto, RpycTyped
    <3>2. v1 = t /\ ~v2 /\ v3 = 0 /\ \A u \in Actors \ {t} : v8[u] # "snippet"
      BY <1>1, <3>1, NoneIsNobody DEF Rpyc!StartsOnce, Rpyc!At
    <3>3. v3' = IF v2' THEN 1 ELSE 0
      BY <3>1, <3>2
    <3>4. \A u \in Actors : v8'[u] # "snippet" /\ u # None
      BY <1>4, <3>1, <3>2, NoneIsNobody
    <3> QED
      BY <3>1, <3>3, <3>4 DEF Rpyc!StartsOnce, Rpyc!At
  <2> QED
    BY <2>1, <2>2
<1>7. Rpyc!ChecksApart'
  BY <1>1, <1>2, <1>3, RpycApart DEF RpycTyped, Rpyc!Returned, Rpyc!At
<1>8. ASSUME NEW u \in Actors PROVE RpycThreadOk(u)'
  <2>1. CASE u = t
    BY <1>3, <1>4, <2>1, RpycThreadIs DEF RpycChecking
  <2>2. CASE u # t
    BY <1>2, <1>4, <2>2, RpycOther
  <2> QED
    BY <2>1, <2>2
<1> QED
  BY <1>2, <1>5, <1>6, <1>7, <1>8, RpycInvIs, RpycInvPrimed

LEMMA RpycConnectStep ==
  ASSUME Rpyc!Inv, NEW t \in Actors, Rpyc!AwaitServer(t) \/ Rpyc!CreateConnection(t)
  PROVE  Rpyc!Inv'
<1>1. RpycTyped /\ (v6 = "none" => v7 = 0)
  BY RpycInvIs
<1>2. v8[t] \in {"await", "connect"} /\ UNCHANGED <<v1, v2, v3, v4, v5, v6, v7, v9>>
      /\ v10' \in {v10, v10 \cup {t}}
  BY DEF Rpyc!AwaitServer, Rpyc!CreateConnection, Rpyc!At, Rpyc!host, Rpyc!Fault
<1>3. PICK label \in {"connect", "topics", "raised"} :
        /\ v8' = [v8 EXCEPT ![t] = label]
        /\ label = "raised" => v4 = "dead" \/ v10' = v10 \cup {t}
  <2>1. CASE Rpyc!AwaitServer(t)
    BY <2>1 DEF Rpyc!AwaitServer, Rpyc!Goto
  <2>2. CASE Rpyc!CreateConnection(t)
    BY <2>2 DEF Rpyc!CreateConnection, Rpyc!Goto, Rpyc!Fault
  <2> QED
    BY <2>1, <2>2
<1>4. v8'[t] = label
  BY <1>1, <1>3 DEF RpycTyped
<1>5. v11' \in 0..MaxFaults
  BY <1>1, BoundsAssumption DEF RpycTyped, Rpyc!AwaitServer, Rpyc!CreateConnection, Rpyc!Fault
<1>6. RpycGoes(t, label)
  BY <1>1, <1>2, <1>3, <1>5 DEF RpycGoes, RpycTyped
<1>7. RpycThreadOk(t)'
  BY <1>2, <1>3, <1>4, RpycThreadIs DEF RpycChecking
<1>8. label \in RpycLabels \ {"snippet"} /\ v8[t] \notin {"snippet", "ok", "raised"}
  BY <1>2 DEF RpycLabels
<1> QED
  BY <1>2, <1>6, <1>7, <1>8, RpycThread

LEMMA RpycNext == Rpyc!Inv /\ [Rpyc!Next]_(Rpyc!vars) => Rpyc!Inv'
<1> SUFFICES ASSUME Rpyc!Inv, [Rpyc!Next]_(Rpyc!vars) PROVE Rpyc!Inv'
  OBVIOUS
<1>1. CASE Rpyc!ServerListens \/ Rpyc!ServerDies \/ Rpyc!TopicDeleted \/ Rpyc!Maintain
  BY <1>1, RpycHostStep
<1>2. ASSUME NEW t \in Actors,
             \/ Rpyc!ping(t) \/ Rpyc!verify_functionality(t)
             \/ Rpyc!StartServer(t) \/ Rpyc!RunSnippet(t) \/ Rpyc!AwaitServer(t)
             \/ Rpyc!CreateConnection(t) \/ Rpyc!GetTopics(t) \/ Rpyc!DeleteTopic(t)
             \/ Rpyc!AssertAbsent(t) \/ Rpyc!CreateTopic(t) \/ Rpyc!AssertPresent(t)
             \/ Rpyc!Produce(t) \/ Rpyc!Consume(t) \/ Rpyc!CleanUp(t)
      PROVE  Rpyc!Inv'
  BY <1>2, RpycCallStep, RpycStartStep, RpycConnectStep, RpycGetTopicsStep, RpycDeleteStep,
     RpycAbsentStep, RpycCreateStep, RpycRestStep DEF Rpyc!ping, Rpyc!verify_functionality
<1>3. CASE UNCHANGED Rpyc!vars
  <2>1. UNCHANGED <<v1, v2, v3, v4, v5, v6, v7, v8, v9, v10, v11>>
    BY <1>3 DEF Rpyc!vars, Rpyc!host
  <2>2. RpycTyped /\ (v6 = "none" => v7 = 0)
    BY RpycInvIs
  <2>3. v6 = "deleting" => v6' \in {"none", "deleting"}
    BY <2>1
  <2> QED
    BY <2>1, <2>2, <2>3, RpycHost DEF RpycTyped
<1> QED
  BY <1>1, <1>2, <1>3, Zenon DEF Rpyc!Next
LEMMA RpycHolds == Rpyc!Inv => Rpyc!OneServer /\ Rpyc!CallsFailForCause
<1> SUFFICES ASSUME Rpyc!Inv PROVE Rpyc!OneServer /\ Rpyc!CallsFailForCause
  OBVIOUS
<1>1. v3 = IF v2 THEN 1 ELSE 0
  BY DEF Rpyc!Inv, Rpyc!StartsOnce
<1> QED
  BY <1>1 DEF Rpyc!Inv, Rpyc!OneServer

-----------------------------------------------------------------------------
(* Clearing topics.                                                        *)
TopicsTyped ==
  /\ v1 \in [Things -> {"own", "short"}] /\ v2 \subseteq Things
  /\ v3 \in BOOLEAN /\ v4 \in BOOLEAN
  /\ v5 \in {"none", "clear_topic", "clear_all_topics"}
  /\ v6 \in {"ok", "raised", "next", "get", "shorten", "subscribe", "wait", "restore", "close"}
  /\ v7 \subseteq Things /\ v8 \in Things \cup {None} /\ v9 \in {"own", "short"}
  /\ v10 \subseteq Things /\ v11 \subseteq Things /\ v12 \in 0..MaxFaults

\* The retentions, with None for the topic of a call that clears none.
TopicsKept ==
  /\ v6 \in {"get", "shorten", "subscribe", "wait", "restore", "close"} => v8 \in Things
  /\ v6 \in {"ok", "raised", "next"} => v8 = None
  /\ v6 \in {"get", "close"} /\ v1[v8] = "short" => v8 \in v11
  /\ v6 \in {"shorten", "subscribe", "wait", "restore"} /\ v9 = "short" => v8 \in v11
  /\ \A t \in Things : v1[t] = "short" => t = v8 \/ t \in v11
  /\ v2 \cap v10 = {}

LEMMA TopicsInvIs == Topics!Inv <=> TopicsTyped /\ TopicsKept
BY DEF Topics!Inv, Topics!TypeOK, Topics!KeptIsOwn, Topics!RetentionLostByFailure, TopicsTyped,
   TopicsKept

LEMMA TopicsInvPrimed == Topics!Inv' <=> (TopicsTyped /\ TopicsKept)'
BY TopicsInvIs, PTL

LEMMA TopicsInit == Topics!Init => Topics!Inv
<1> SUFFICES ASSUME Topics!Init PROVE Topics!Inv
  OBVIOUS
<1>1. TopicsTyped
  <2>1. v1 \in [Things -> {"own", "short"}]
    BY DEF Topics!Init
  <2>2. v12 \in 0..MaxFaults
    BY BoundsAssumption DEF Topics!Init
  <2> QED
    BY <2>1, <2>2 DEF Topics!Init, TopicsTyped
<1>2. TopicsKept
  BY DEF Topics!Init, TopicsKept
<1> QED
  BY <1>1, <1>2, TopicsInvIs

\* Steps between the calls.
LEMMA TopicsRestStep ==
  ASSUME Topics!Inv,
         \/ \E t \in Things : Topics!Expire(t) \/ Topics!Produce(t) \/ Topics!clear_topic(t)
         \/ Topics!NewConsumer \/ Topics!clear_all_topics \/ UNCHANGED Topics!vars
  PROVE  Topics!Inv'
<1>1. TopicsTyped /\ TopicsKept
  BY TopicsInvIs
<1>2. CASE \E t \in Things : Topics!Expire(t) \/ Topics!Produce(t)
  BY <1>1, <1>2, TopicsInvPrimed DEF TopicsTyped, TopicsKept, Topics!Expire, Topics!Produce
<1>3. CASE Topics!NewConsumer
  BY <1>1, <1>3, TopicsInvPrimed DEF TopicsTyped, TopicsKept, Topics!NewConsumer
<1>6. CASE UNCHANGED Topics!vars
  <2>1. UNCHANGED <<v1, v2, v3, v4, v5, v6, v7, v8, v9, v10, v11, v12>>
    BY <1>6 DEF Topics!vars
  <2> QED
    BY <1>1, <2>1, TopicsInvPrimed DEF TopicsTyped, TopicsKept
<1>4. ASSUME NEW name \in {"clear_topic", "clear_all_topics"}, NEW ts \in SUBSET Things,
             Topics!Call(name, ts)
      PROVE  Topics!Inv'
  BY <1>1, <1>4, TopicsInvPrimed DEF TopicsTyped, TopicsKept, Topics!Call, Topics!Returned
<1>5. \A t \in Things : {t} \in SUBSET Things
  OBVIOUS
<1> QED
  BY <1>2, <1>3, <1>4, <1>5, <1>6 DEF Topics!clear_topic, Topics!clear_all_topics

\* A request that sets the retention of the topic that is being cleared.
LEMMA TopicsRequest ==
  ASSUME Topics!Inv, NEW next \in {"shorten", "subscribe", "close"}, NEW r \in {"own", "short"},
         v8 \in Things, v6 \in {"get", "shorten", "restore"}, UNCHANGED <<v2, v3, v4, v5, v7, v10>>,
         Topics!Request([v1 EXCEPT ![v8] = r], next), v9' \in {"own", "short"},
         v6' = "shorten" => (v9' = "short" => v8 \in v11),
         next = "subscribe" => (v9 = "short" => v8 \in v11) /\ v9' = v9,
         next = "close" => (r = "short" => v8 \in v11)
  PROVE  Topics!Inv'
<1>1. TopicsTyped /\ TopicsKept
  BY TopicsInvIs
<1>2. v12' \in 0..MaxFaults
  BY <1>1, BoundsAssumption DEF TopicsTyped, Topics!Request
<1>3. v1' \in {v1, [v1 EXCEPT ![v8] = r]}
  BY DEF Topics!Request
<1>4. v1' \in [Things -> {"own", "short"}] /\ \A t \in Things \ {v8} : v1'[t] = v1[t]
  BY <1>1, <1>3 DEF TopicsTyped
<1>5. CASE v6' = next /\ v11' = v11 /\ v8' = v8 /\ v1' = [v1 EXCEPT ![v8] = r]
  <2>1. v1'[v8] = r
    BY <1>1, <1>5 DEF TopicsTyped
  <2> QED
    BY <1>1, <1>2, <1>4, <1>5, <2>1, TopicsInvPrimed DEF TopicsTyped, TopicsKept
<1>6. CASE v6' = "raised" /\ v11' = v11 \cup {v8} /\ v8' = None
  BY <1>1, <1>2, <1>4, <1>6, TopicsInvPrimed DEF TopicsTyped, TopicsKept
<1> QED
  BY <1>5, <1>6 DEF Topics!Request, Topics!Goto, Topics!Raise

LEMMA TopicsGetStep ==
  ASSUME Topics!Inv, Topics!GetTopicConfigValue PROVE Topics!Inv'
<1>1. TopicsTyped /\ TopicsKept
  BY TopicsInvIs
<1>2. /\ v6 = "get" /\ v8 \in Things /\ (v1[v8] = "short" => v8 \in v11)
      /\ Topics!Request(v1, "shorten") /\ UNCHANGED <<v2, v3, v4, v5, v7, v10>>
      /\ v9' = IF v6' = "shorten" THEN v1[v8] ELSE v9
  BY <1>1 DEF Topics!GetTopicConfigValue, TopicsKept
<1> DEFINE r == v1[v8]
<1>3. [v1 EXCEPT ![v8] = r] = v1 /\ r \in {"own", "short"}
  BY <1>1, <1>2 DEF TopicsTyped
<1>4. v9' \in {"own", "short"} /\ (v6' = "shorten" => (v9' = "short" => v8 \in v11))
  BY <1>1, <1>2, <1>3 DEF TopicsTyped
<1>5. Topics!Request([v1 EXCEPT ![v8] = r], "shorten")
  BY <1>2, <1>3
<1> HIDE DEF r
<1> QED
  BY <1>2, <1>3, <1>4, <1>5, TopicsRequest

LEMMA TopicsSetStep ==
  ASSUME Topics!Inv, Topics!Shorten \/ Topics!Restore PROVE Topics!Inv'
<1>1. TopicsTyped /\ TopicsKept
  BY TopicsInvIs
<1>2. CASE Topics!Shorten
  <2>1. /\ v6 = "shorten" /\ v8 \in Things /\ (v9 = "short" => v8 \in v11)
        /\ Topics!Request([v1 EXCEPT ![v8] = "short"], "subscribe")
        /\ UNCHANGED <<v2, v3, v4, v5, v7, v9, v10>>
    BY <1>1, <1>2 DEF Topics!Shorten, TopicsKept
  <2> QED
    BY <1>1, <2>1, TopicsRequest DEF TopicsTyped
<1>3. CASE Topics!Restore
  <2>1. /\ v6 = "restore" /\ v8 \in Things /\ (v9 = "short" => v8 \in v11)
        /\ Topics!Request([v1 EXCEPT ![v8] = v9], "close")
        /\ UNCHANGED <<v2, v3, v4, v5, v7, v9, v10>>
    BY <1>1, <1>3 DEF Topics!Restore, TopicsKept
  <2>2. v6' # "shorten"
    BY <2>1 DEF Topics!Request, Topics!Goto, Topics!Raise
  <2> QED
    BY <1>1, <2>1, <2>2, TopicsRequest DEF TopicsTyped
<1> QED
  BY <1>2, <1>3

\* The other steps of a call.
LEMMA TopicsCallStep ==
  ASSUME Topics!Inv,
         Topics!NextTopic \/ Topics!Subscribe \/ Topics!AwaitEmpty \/ Topics!CloseConsumer
  PROVE  Topics!Inv'
<1>1. TopicsTyped /\ TopicsKept
  BY TopicsInvIs
<1>2. CASE Topics!NextTopic
  BY <1>1, <1>2, NoneIsNobody, TopicsInvPrimed DEF TopicsTyped, TopicsKept, Topics!NextTopic
<1>3. CASE Topics!Subscribe
  BY <1>1, <1>3, TopicsInvPrimed
     DEF TopicsTyped, TopicsKept, Topics!Subscribe, Topics!Goto, Topics!Raise
<1>4. CASE Topics!AwaitEmpty
  <2>1. v12' \in 0..MaxFaults
    BY <1>1, <1>4, BoundsAssumption DEF TopicsTyped, Topics!AwaitEmpty
  <2> QED
    BY <1>1, <1>4, <2>1, TopicsInvPrimed
       DEF TopicsTyped, TopicsKept, Topics!AwaitEmpty, Topics!Goto, Topics!Raise
<1>5. CASE Topics!CloseConsumer
  BY <1>1, <1>5, TopicsInvPrimed DEF TopicsTyped, TopicsKept, Topics!CloseConsumer
<1> QED
  BY <1>2, <1>3, <1>4, <1>5

LEMMA TopicsNext == Topics!Inv /\ [Topics!Next]_(Topics!vars) => Topics!Inv'
BY TopicsRestStep, TopicsGetStep, TopicsSetStep, TopicsCallStep DEF Topics!Next

LEMMA TopicsHolds == Topics!Inv => Topics!RetentionLostByFailure
BY DEF Topics!Inv
-----------------------------------------------------------------------------
(* The queues of Rabbitmq, and the checks and resets of the plugin.        *)

RabbitTyped ==
  /\ v1 \subseteq {"test_queue", "other"} /\ v2 \in Seq({"check", "test"})
  /\ "test_queue" \notin v1 => v2 = <<>>
  /\ v3 \in {"none", "open", "lost", "closed"} /\ v4 \in BOOLEAN
  /\ v5 \in [Actors -> Rabbit!Calls] /\ v6 \in 0..MaxFaults

\* What is true of a call k while the queues are qs and their messages ms.
RabbitGood(k, qs, ms) ==
  /\ k.at \in {"connect", "declare", "publish", "get", "delete"} => k.op = "verify_functionality"
  /\ k.at \in {"list", "purge"} => k.op = "reset_state"
  /\ k.at \in {"cached", "passive"} => k.op = "get_queue"
  /\ k.at \in {"publish", "get"} => "test_queue" \in qs \cup k.touched
  /\ k.at = "get" => ms # <<>> \/ "test_queue" \in k.touched
  /\ k.at = "purge" => qs \subseteq k.todo \cup k.touched /\ k.todo \subseteq qs \cup k.touched
  /\ k.at = "ok" /\ k.op = "verify_functionality" => qs \subseteq {"other"} \cup k.touched
  /\ k.at = "ok" /\ k.op = "reset_state" => qs \subseteq k.touched
  /\ k.at = "raised" /\ ~k.excused =>
       /\ k.op = "verify_functionality" => "test_queue" \in k.touched
       /\ k.op = "reset_state" => k.todo \cap k.touched # {}

\* The connection that is kept, and what get_queue answers.
RabbitLink ==
  /\ v3 = "closed" => v4 \/ v6 < MaxFaults
  /\ v3 = "lost" => v6 < MaxFaults
  /\ v4 => v3 = "closed"
  /\ \A c \in Actors : v5[c].at = "passive" => v3 # "none"
  /\ \A c, d \in Actors : v5[c].op = "get_queue" /\ v5[d].op = "get_queue" => c = d
  /\ \A c \in Actors : v5[c].op = "get_queue" =>
       /\ v5[c].at = "raised" => v4 \/ v6 < MaxFaults
       /\ v5[c].at = "ok" => ~v4

RabbitCalls == \A c \in Actors : RabbitGood(v5[c], v1, v2)

LEMMA RabbitInvIs == Rabbit!Inv <=> RabbitTyped /\ RabbitCalls /\ RabbitLink
<1>1. Rabbit!TypeOK <=> RabbitTyped
  BY DEF Rabbit!TypeOK, RabbitTyped, Rabbit!Queues
<1>2. /\ \A c \in Actors : Rabbit!LabelsOf(c) /\ Rabbit!Finds(c)
      /\ Rabbit!ChecksAndResetsHold
      <=> RabbitCalls
  BY ZenonT(60) DEF Rabbit!LabelsOf, Rabbit!Finds, Rabbit!ChecksAndResetsHold, Rabbit!At, RabbitCalls,
     RabbitGood
<1>3. Rabbit!LinkIsKept /\ Rabbit!FoundUnlessMissed <=> RabbitLink
  BY Zenon DEF Rabbit!LinkIsKept, Rabbit!FoundUnlessMissed, Rabbit!At, RabbitLink
<1> QED
  BY <1>1, <1>2, <1>3 DEF Rabbit!Inv

LEMMA RabbitInvPrimed == Rabbit!Inv' <=> (RabbitTyped /\ RabbitCalls /\ RabbitLink)'
BY RabbitInvIs, PTL

LEMMA RabbitInit == Rabbit!Init => Rabbit!Inv
<1> SUFFICES ASSUME Rabbit!Init PROVE Rabbit!Inv
  OBVIOUS
<1>1. Rabbit!Idle \in Rabbit!Calls
  BY DEF Rabbit!Idle, Rabbit!Calls
<1>2. RabbitTyped
  <2>1. v6 \in 0..MaxFaults
    BY BoundsAssumption DEF Rabbit!Init
  <2>2. v5 \in [Actors -> Rabbit!Calls]
    BY <1>1 DEF Rabbit!Init
  <2>3. v2 \in Seq({"check", "test"})
    BY DEF Rabbit!Init
  <2> QED
    BY <2>1, <2>2, <2>3 DEF Rabbit!Init, RabbitTyped
<1>3. RabbitCalls
  BY DEF Rabbit!Init, RabbitCalls, RabbitGood, Rabbit!Idle
<1>4. RabbitLink
  BY DEF Rabbit!Init, RabbitLink, Rabbit!Idle
<1> QED
  BY <1>2, <1>3, <1>4, RabbitInvIs

\* Queue q may change under call k, which then has it touched.
RabbitChange(k, k2, q, qs, qs2, ms, ms2) ==
  \/ k2 = k /\ (k.op = "none" \/ (qs2 = qs /\ (ms # <<>> => ms2 # <<>>)))
  \/ /\ k2 = [k EXCEPT !.touched = @ \cup {q}]
     /\ qs2 \ {q} = qs \ {q} /\ (ms # <<>> /\ ms2 = <<>> => q = "test_queue")

LEMMA RabbitOthers ==
  ASSUME NEW k \in Rabbit!Calls, NEW k2, NEW q \in {"test_queue", "other"},
         NEW qs \in SUBSET {"test_queue", "other"}, NEW qs2 \in SUBSET {"test_queue", "other"},
         NEW ms \in Seq({"check", "test"}), NEW ms2 \in Seq({"check", "test"}),
         RabbitGood(k, qs, ms), RabbitChange(k, k2, q, qs, qs2, ms, ms2)
  PROVE  RabbitGood(k2, qs2, ms2) /\ k2 \in Rabbit!Calls /\ k2.op = k.op /\ k2.at = k.at
<1>1. CASE k2 = k
  BY <1>1 DEF RabbitGood, Rabbit!Calls, RabbitChange
<1>2. CASE /\ k2 = [k EXCEPT !.touched = @ \cup {q}]
           /\ qs2 \ {q} = qs \ {q} /\ (ms # <<>> /\ ms2 = <<>> => q = "test_queue")
  <2>1. /\ k2 \in Rabbit!Calls /\ k2.touched = k.touched \cup {q} /\ k2.at = k.at /\ k2.op = k.op
        /\ k2.todo = k.todo /\ k2.excused = k.excused
    BY <1>2 DEF Rabbit!Calls, Rabbit!Queues
  <2>2. \A x : x \in qs2 => x \in qs \/ x = q
    BY <1>2
  <2>3. \A x : x \in qs => x \in qs2 \/ x = q
    BY <1>2
  <2> QED
    BY <1>2, <2>1, <2>2, <2>3 DEF RabbitGood
<1> QED
  BY <1>1, <1>2 DEF RabbitChange

LEMMA RabbitTouched ==
  ASSUME Rabbit!Inv, NEW q \in {"test_queue", "other"}
  PROVE  \A d \in Actors : \/ v5[d].op = "none" /\ Rabbit!Touch(q)[d] = v5[d]
                           \/ Rabbit!Touch(q)[d] = [v5[d] EXCEPT !.touched = @ \cup {q}]
BY DEF Rabbit!Touch

\* A step that leaves the connection, and the calls of get_queue, alone.
LEMMA RabbitLinkKept ==
  ASSUME RabbitTyped, RabbitLink, UNCHANGED <<v3, v4>>, v6' \in 0..MaxFaults, v6' <= v6,
         \A d \in Actors : v5'[d].op = "get_queue" \/ v5'[d].at = "passive" =>
           v5'[d].op = v5[d].op /\ v5'[d].at = v5[d].at
  PROVE  RabbitLink'
<1>1. v6 < MaxFaults => v6' < MaxFaults
  BY BoundsAssumption DEF RabbitTyped
<1> QED
  BY <1>1 DEF RabbitLink

\* A step of call c that leaves the others alone.
LEMMA RabbitOwn ==
  ASSUME Rabbit!Inv, NEW c \in Actors, NEW k \in Rabbit!Calls, UNCHANGED <<v1, v2, v3, v4, v6>>,
         v5' = [v5 EXCEPT ![c] = k], RabbitGood(k, v1, v2), k.op # "get_queue"
  PROVE  Rabbit!Inv'
<1>1. RabbitTyped /\ RabbitCalls /\ RabbitLink
  BY RabbitInvIs
<1>2. RabbitTyped'
  BY <1>1 DEF RabbitTyped
<1>3. v5'[c] = k /\ \A d \in Actors \ {c} : v5'[d] = v5[d]
  BY <1>1 DEF RabbitTyped
<1>4. RabbitCalls'
  BY <1>1, <1>3 DEF RabbitCalls
<1>5. k.at # "passive"
  BY DEF RabbitGood
<1>6. v6' \in 0..MaxFaults /\ v6' <= v6
  BY <1>1, BoundsAssumption DEF RabbitTyped
<1>7. RabbitLink'
  BY <1>1, <1>3, <1>5, <1>6, RabbitLinkKept
<1> QED
  BY <1>2, <1>4, <1>7, RabbitInvPrimed

\* A request of call c that the broker executes.
LEMMA RabbitExecuted ==
  ASSUME Rabbit!Inv, NEW c \in Actors, NEW q \in {"test_queue", "other"},
         NEW there \in SUBSET {"test_queue", "other"}, NEW ms \in Seq({"check", "test"}),
         NEW next \in Rabbit!Calls, Rabbit!Executed(c, q, there, ms, next), UNCHANGED <<v3, v4>>,
         there \ {q} = v1 \ {q}, ms = <<>> /\ v2 # <<>> => q = "test_queue",
         "test_queue" \notin there => ms = <<>>, RabbitGood(next, there, ms),
         next.op # "get_queue", v5[c].op # "get_queue"
  PROVE  Rabbit!Inv'
<1>1. RabbitTyped /\ RabbitCalls /\ RabbitLink
  BY RabbitInvIs
<1> DEFINE lost == [v5[c] EXCEPT !.at = "raised", !.excused = TRUE]
<1>2. /\ lost \in Rabbit!Calls /\ lost.at = "raised" /\ lost.excused = TRUE /\ lost.op # "get_queue"
  BY <1>1 DEF RabbitTyped, Rabbit!Calls
<1>3. RabbitGood(lost, there, ms)
  BY <1>2 DEF RabbitGood
<1>4. v6' \in 0..MaxFaults /\ v6' <= v6
  BY <1>1, BoundsAssumption DEF RabbitTyped, Rabbit!Executed, Rabbit!Fault
<1>5. there = v1 /\ Len(ms) >= Len(v2) => there = v1 /\ (v2 # <<>> => ms # <<>>)
  BY <1>1 DEF RabbitTyped
<1>6. PICK now : /\ v5' = [now EXCEPT ![c] = next] \/ v5' = [now EXCEPT ![c] = lost]
                 /\ \/ now = v5 /\ there = v1 /\ (v2 # <<>> => ms # <<>>)
                    \/ now = Rabbit!Touch(q)
  BY <1>5 DEF Rabbit!Executed
<1> HIDE DEF lost
<1>7. now \in [Actors -> Rabbit!Calls]
      /\ \A d \in Actors : /\ RabbitGood(now[d], there, ms)
                           /\ now[d].op = v5[d].op /\ now[d].at = v5[d].at
  <2>1. now = [d \in Actors |-> now[d]]
    BY <1>1, <1>6 DEF RabbitTyped, Rabbit!Touch
  <2>2. ASSUME NEW d \in Actors
        PROVE  /\ now[d] \in Rabbit!Calls /\ RabbitGood(now[d], there, ms)
               /\ now[d].op = v5[d].op /\ now[d].at = v5[d].at
    <3>1. v5[d] \in Rabbit!Calls /\ RabbitGood(v5[d], v1, v2) /\ v1 \subseteq {"test_queue", "other"}
          /\ v2 \in Seq({"check", "test"})
      BY <1>1 DEF RabbitTyped, RabbitCalls
    <3>2. \/ now[d] = v5[d] /\ (v5[d].op = "none" \/ (there = v1 /\ (v2 # <<>> => ms # <<>>)))
          \/ now[d] = [v5[d] EXCEPT !.touched = @ \cup {q}]
      <4>1. CASE now = v5 /\ there = v1 /\ (v2 # <<>> => ms # <<>>)
        BY <4>1
      <4>2. CASE now = Rabbit!Touch(q)
        BY <4>2, RabbitTouched, Zenon
      <4> QED
        BY <1>6, <4>1, <4>2
    <3>3. RabbitChange(v5[d], now[d], q, v1, there, v2, ms)
      BY <3>2 DEF RabbitChange
    <3> DEFINE kd == v5[d]
               nd == now[d]
    <3>4. /\ kd \in Rabbit!Calls /\ RabbitGood(kd, v1, v2) /\ v1 \in SUBSET {"test_queue", "other"}
          /\ RabbitChange(kd, nd, q, v1, there, v2, ms)
      BY <3>1, <3>3
    <3> HIDE DEF kd, nd
    <3>5. RabbitGood(nd, there, ms) /\ nd \in Rabbit!Calls /\ nd.op = kd.op /\ nd.at = kd.at
      BY <3>1, <3>4, RabbitOthers
    <3> QED
      BY <3>5 DEF kd, nd
  <2> QED
    BY <2>1, <2>2
<1>8. /\ v5' \in [Actors -> Rabbit!Calls] /\ v5'[c] \in {next, lost}
      /\ \A d \in Actors \ {c} : v5'[d] = now[d]
  BY <1>2, <1>6, <1>7
<1>9. v1' = there /\ v2' = ms
  BY DEF Rabbit!Executed
<1>10. RabbitTyped'
  BY <1>1, <1>4, <1>8, <1>9 DEF RabbitTyped
<1>11. RabbitCalls'
  BY <1>3, <1>7, <1>8, <1>9 DEF RabbitCalls
<1>12. next.at # "passive"
  BY DEF RabbitGood
<1>13. RabbitLink'
  BY <1>1, <1>2, <1>4, <1>7, <1>8, <1>12, RabbitLinkKept
<1> QED
  BY <1>10, <1>11, <1>13, RabbitInvPrimed

\* A step that only moves call c on.
LEMMA RabbitMoves ==
  ASSUME RabbitTyped, NEW c \in Actors, NEW l \in {"ok", "raised", "declare", "publish", "purge", "passive"}
  PROVE  /\ [v5 EXCEPT ![c].at = l] = [v5 EXCEPT ![c] = [v5[c] EXCEPT !.at = l]]
         /\ [v5[c] EXCEPT !.at = l] \in Rabbit!Calls
         /\ [v5[c] EXCEPT !.at = l].at = l
         /\ [v5[c] EXCEPT !.at = l].op = v5[c].op
         /\ [v5[c] EXCEPT !.at = l].todo = v5[c].todo
         /\ [v5[c] EXCEPT !.at = l].touched = v5[c].touched
         /\ [v5[c] EXCEPT !.at = l].excused = v5[c].excused
BY DEF RabbitTyped, Rabbit!Calls

\* The requests of a check.
LEMMA RabbitCheckStep ==
  ASSUME Rabbit!Inv, NEW c \in Actors,
         \/ Rabbit!create_amqp_connection(c) \/ Rabbit!queue_declare(c) \/ Rabbit!produce_msg(c)
         \/ Rabbit!consume_message(c) \/ Rabbit!queue_delete(c)
  PROVE  Rabbit!Inv'
<1>1. RabbitTyped /\ RabbitCalls /\ RabbitLink
  BY RabbitInvIs
<1> DEFINE k == v5[c]
           to(l) == [k EXCEPT !.at = l]
<1>2. k \in Rabbit!Calls /\ RabbitGood(k, v1, v2)
  BY <1>1 DEF RabbitTyped, RabbitCalls
<1>3. v1 \in SUBSET {"test_queue", "other"} /\ v2 \in Seq({"check", "test"})
      /\ ("test_queue" \notin v1 => v2 = <<>>)
  BY <1>1 DEF RabbitTyped
<1>4. ASSUME NEW l \in {"ok", "raised", "declare", "publish", "get", "delete"}
      PROVE  /\ to(l) \in Rabbit!Calls /\ to(l).at = l /\ to(l).op = k.op /\ to(l).todo = k.todo
             /\ to(l).touched = k.touched /\ to(l).excused = k.excused
             /\ [v5 EXCEPT ![c].at = l] = [v5 EXCEPT ![c] = to(l)]
  BY <1>1, <1>2 DEF Rabbit!Calls, RabbitTyped
<1>5. k.at \in {"connect", "declare", "publish", "get", "delete"} => k.op = "verify_functionality"
  BY <1>2 DEF RabbitGood
<1>6. \A l : Rabbit!Stepped(c, l) = to(l)
  BY DEF Rabbit!Stepped
<1> HIDE DEF to
<1>7. CASE Rabbit!create_amqp_connection(c)
  <2>1. /\ k.at = "connect" /\ v5' = [v5 EXCEPT ![c] = to("declare")]
        /\ UNCHANGED <<v1, v2, v3, v4, v6>>
    BY <1>4, <1>7 DEF Rabbit!create_amqp_connection, Rabbit!At, Rabbit!Goto
  <2>2. RabbitGood(to("declare"), v1, v2) /\ to("declare").op # "get_queue"
    BY <1>4, <1>5, <2>1 DEF RabbitGood
  <2>3. to("declare") \in Rabbit!Calls
    BY <1>4
  <2> QED
    BY <2>1, <2>2, <2>3, RabbitOwn
<1>8. CASE Rabbit!queue_declare(c)
  <2> DEFINE there == v1 \cup {"test_queue"}
  <2>1. /\ k.at = "declare" /\ UNCHANGED <<v3, v4>>
        /\ Rabbit!Executed(c, "test_queue", there, v2, to("publish"))
    BY <1>6, <1>8 DEF Rabbit!queue_declare, Rabbit!At
  <2>2. RabbitGood(to("publish"), there, v2) /\ to("publish").op # "get_queue"
    BY <1>4, <1>5, <2>1 DEF RabbitGood
  <2>3. there \in SUBSET {"test_queue", "other"} /\ there \ {"test_queue"} = v1 \ {"test_queue"}
        /\ "test_queue" \in there
    BY <1>3
  <2>4. to("publish") \in Rabbit!Calls /\ k.op # "get_queue"
    BY <1>4, <1>5, <2>1
  <2> HIDE DEF there
  <2> QED
    BY <1>3, <2>1, <2>2, <2>3, <2>4, RabbitExecuted
<1>9. CASE Rabbit!produce_msg(c)
  <2> DEFINE ms == IF "test_queue" \in v1 THEN Append(v2, "check") ELSE v2
  <2>1. /\ k.at = "publish" /\ UNCHANGED <<v3, v4>>
        /\ Rabbit!Executed(c, "test_queue", v1, ms, to("get"))
    BY <1>6, <1>9 DEF Rabbit!produce_msg, Rabbit!At
  <2>2. /\ ms \in Seq({"check", "test"}) /\ ("test_queue" \notin v1 => ms = <<>>)
        /\ ("test_queue" \in v1 => ms # <<>>)
    BY <1>3
  <2>3. "test_queue" \in v1 \cup k.touched
    BY <1>2, <2>1 DEF RabbitGood
  <2> HIDE DEF ms
  <2>4. RabbitGood(to("get"), v1, ms) /\ to("get").op # "get_queue"
    BY <1>4, <1>5, <2>1, <2>2, <2>3 DEF RabbitGood
  <2>5. to("get") \in Rabbit!Calls /\ k.op # "get_queue"
    BY <1>4, <1>5, <2>1
  <2> QED
    BY <1>3, <2>1, <2>2, <2>4, <2>5, RabbitExecuted
<1>10. CASE Rabbit!consume_message(c) /\ v2 = <<>>
  <2>1. /\ k.at = "get" /\ v5' = [v5 EXCEPT ![c] = to("raised")]
        /\ UNCHANGED <<v1, v2, v3, v4, v6>>
    BY <1>4, <1>10 DEF Rabbit!consume_message, Rabbit!At, Rabbit!Raise
  <2>2. "test_queue" \in k.touched
    BY <1>2, <1>10, <2>1 DEF RabbitGood
  <2>3. RabbitGood(to("raised"), v1, v2) /\ to("raised").op # "get_queue"
    BY <1>4, <1>5, <2>1, <2>2 DEF RabbitGood
  <2>4. to("raised") \in Rabbit!Calls
    BY <1>4
  <2> QED
    BY <2>1, <2>3, <2>4, RabbitOwn
<1>11. CASE Rabbit!consume_message(c) /\ v2 # <<>>
  <2> DEFINE ms == Tail(v2)
             other == [to("raised") EXCEPT !.excused = TRUE]
             next == IF Head(v2) = "check" THEN to("delete") ELSE other
  <2>1. /\ k.at = "get" /\ UNCHANGED <<v3, v4>>
        /\ Rabbit!Executed(c, "test_queue", v1, ms, next)
    BY <1>11, Zenon DEF to, Rabbit!consume_message, Rabbit!At, Rabbit!Stepped
  <2>2. ms \in Seq({"check", "test"}) /\ "test_queue" \in v1
    BY <1>3, <1>11
  <2>3. other \in Rabbit!Calls /\ other.at = "raised" /\ other.excused = TRUE /\ other.op = k.op
    BY <1>4 DEF Rabbit!Calls
  <2> HIDE DEF ms, other
  <2>4. RabbitGood(to("delete"), v1, ms) /\ RabbitGood(other, v1, ms)
    BY <1>4, <1>5, <2>1, <2>3 DEF RabbitGood
  <2>5. /\ next \in Rabbit!Calls /\ next.op # "get_queue" /\ RabbitGood(next, v1, ms)
        /\ k.op # "get_queue"
    BY <1>4, <1>5, <2>1, <2>3, <2>4
  <2> HIDE DEF next
  <2> QED
    BY <1>3, <2>1, <2>2, <2>5, RabbitExecuted
<1>12. CASE Rabbit!queue_delete(c)
  <2> DEFINE there == v1 \ {"test_queue"}
             ms == <<>>
  <2>1. /\ k.at = "delete" /\ UNCHANGED <<v3, v4>>
        /\ Rabbit!Executed(c, "test_queue", there, ms, to("ok"))
    BY <1>6, <1>12 DEF Rabbit!queue_delete, Rabbit!At
  <2>2. /\ ms \in Seq({"check", "test"}) /\ ms = <<>>
        /\ there \in SUBSET {"test_queue", "other"} /\ there \subseteq {"other"}
        /\ there \ {"test_queue"} = v1 \ {"test_queue"}
    BY <1>3
  <2> HIDE DEF there, ms
  <2>3. RabbitGood(to("ok"), there, ms) /\ to("ok").op # "get_queue"
    BY <1>4, <1>5, <2>1, <2>2 DEF RabbitGood
  <2>4. to("ok") \in Rabbit!Calls /\ k.op # "get_queue"
    BY <1>4, <1>5, <2>1
  <2> QED
    BY <2>1, <2>2, <2>3, <2>4, RabbitExecuted
<1> QED
  BY <1>7, <1>8, <1>9, <1>10, <1>11, <1>12

\* The requests of a reset.
LEMMA RabbitResetStep ==
  ASSUME Rabbit!Inv, NEW c \in Actors, Rabbit!get_queue_list(c) \/ Rabbit!delete_queue(c)
  PROVE  Rabbit!Inv'
<1>1. RabbitTyped /\ RabbitCalls /\ RabbitLink
  BY RabbitInvIs
<1> DEFINE k == v5[c]
<1>2. k \in Rabbit!Calls /\ RabbitGood(k, v1, v2)
  BY <1>1 DEF RabbitTyped, RabbitCalls
<1>3. v1 \in SUBSET {"test_queue", "other"} /\ v2 \in Seq({"check", "test"})
      /\ ("test_queue" \notin v1 => v2 = <<>>)
  BY <1>1 DEF RabbitTyped
<1>4. k.at \in {"list", "purge"} => k.op = "reset_state"
  BY <1>2 DEF RabbitGood
<1>5. CASE Rabbit!get_queue_list(c)
  <2> DEFINE now == [k EXCEPT !.todo = v1, !.at = IF v1 = {} THEN "ok" ELSE "purge"]
  <2>1. /\ k.at = "list" /\ v5' = [v5 EXCEPT ![c] = now] /\ UNCHANGED <<v1, v2, v3, v4, v6>>
    BY <1>1, <1>5 DEF Rabbit!get_queue_list, Rabbit!At, RabbitTyped
  <2>2. /\ now \in Rabbit!Calls /\ now.at = (IF v1 = {} THEN "ok" ELSE "purge") /\ now.op = k.op
        /\ now.todo = v1
    BY <1>2, <1>3 DEF Rabbit!Calls, Rabbit!Queues
  <2> HIDE DEF now
  <2>3. RabbitGood(now, v1, v2) /\ now.op # "get_queue"
    BY <1>4, <2>1, <2>2 DEF RabbitGood
  <2> QED
    BY <2>1, <2>2, <2>3, RabbitOwn
<1>6. CASE Rabbit!delete_queue(c)
  <2>1. PICK q \in k.todo : IF q \in v1
          THEN Rabbit!Executed(c, q, v1 \ {q}, IF q = "test_queue" THEN <<>> ELSE v2,
                               Rabbit!Purged(c, q))
          ELSE Rabbit!Raise(c) /\ UNCHANGED <<v1, v2, v6>>
    BY <1>6 DEF Rabbit!delete_queue
  <2>2. q \in {"test_queue", "other"} /\ k.at = "purge" /\ UNCHANGED <<v3, v4>>
    BY <1>2, <1>6 DEF Rabbit!delete_queue, Rabbit!Calls, Rabbit!Queues, Rabbit!At
  <2>3. v1 \subseteq k.todo \cup k.touched /\ k.todo \subseteq v1 \cup k.touched
    BY <1>2, <2>2 DEF RabbitGood
  <2>4. CASE q \in v1
    <3> DEFINE there == v1 \ {q}
               ms == IF q = "test_queue" THEN <<>> ELSE v2
               next == Rabbit!Purged(c, q)
    <3>1. Rabbit!Executed(c, q, there, ms, next)
      BY <2>1, <2>4
    <3>2. /\ next \in Rabbit!Calls /\ next.op = k.op /\ next.todo = k.todo \ {q}
          /\ next.touched = k.touched /\ next.excused = k.excused
          /\ next.at = IF k.todo = {q} THEN "ok" ELSE "purge"
      BY <1>2 DEF Rabbit!Purged, Rabbit!Calls, Rabbit!Queues
    <3>3. /\ there \in SUBSET {"test_queue", "other"} /\ there \ {q} = v1 \ {q}
          /\ there \subseteq next.todo \cup k.touched /\ next.todo \subseteq there \cup k.touched
      BY <1>3, <2>3, <3>2
    <3>4. /\ ms \in Seq({"check", "test"}) /\ (ms = <<>> /\ v2 # <<>> => q = "test_queue")
          /\ ("test_queue" \notin there => ms = <<>>)
      BY <1>3, <2>4
    <3>5. next.at = "ok" => there \subseteq k.touched
      BY <2>3, <3>2
    <3> HIDE DEF there, ms, next
    <3>6. RabbitGood(next, there, ms) /\ next.op # "get_queue"
      BY <1>4, <2>2, <3>2, <3>3, <3>5 DEF RabbitGood
    <3> QED
      BY <1>4, <2>2, <3>1, <3>2, <3>3, <3>4, <3>6, RabbitExecuted
  <2>5. CASE q \notin v1
    <3> DEFINE now == [k EXCEPT !.at = "raised"]
    <3>1. v5' = [v5 EXCEPT ![c] = now] /\ UNCHANGED <<v1, v2, v3, v4, v6>>
      BY <1>1, <2>1, <2>2, <2>5, RabbitMoves DEF Rabbit!Raise
    <3>2. /\ now \in Rabbit!Calls /\ now.at = "raised" /\ now.op = k.op /\ now.todo = k.todo
          /\ now.touched = k.touched
      BY <1>2 DEF Rabbit!Calls
    <3>3. q \in now.todo \cap now.touched
      BY <2>1, <2>3, <2>5, <3>2
    <3> HIDE DEF now
    <3>4. RabbitGood(now, v1, v2) /\ now.op # "get_queue"
      BY <1>4, <2>2, <3>2, <3>3 DEF RabbitGood
    <3> QED
      BY <3>1, <3>2, <3>4, RabbitOwn
  <2> QED
    BY <2>4, <2>5
<1> QED
  BY <1>5, <1>6

\* Calls that begin.
LEMMA RabbitBegins ==
  ASSUME Rabbit!Inv, NEW c \in Actors, NEW op \in {"verify_functionality", "reset_state", "get_queue"},
         NEW l \in {"connect", "list", "cached"}, NEW todo \in SUBSET {"test_queue", "other"},
         Rabbit!Begin(c, op, l, todo),
         l = "connect" <=> op = "verify_functionality", l = "list" <=> op = "reset_state",
         op = "get_queue" => \A d \in Actors : v5[d].op = "get_queue" => Rabbit!Returned(d)
  PROVE  Rabbit!Inv'
<1>1. RabbitTyped /\ RabbitCalls /\ RabbitLink
  BY RabbitInvIs
<1> DEFINE new == [Rabbit!Idle EXCEPT !.op = op, !.at = l, !.todo = todo]
<1>2. new \in Rabbit!Calls /\ new.op = op /\ new.at = l
  BY DEF Rabbit!Idle, Rabbit!Calls, Rabbit!Queues
<1>3. Rabbit!Idle \in Rabbit!Calls /\ Rabbit!Idle.op = "none" /\ Rabbit!Idle.at = "ok"
  BY DEF Rabbit!Idle, Rabbit!Calls
<1>4. /\ v5' = [d \in Actors |-> IF d = c THEN new
                                ELSE IF Rabbit!Returned(d) THEN Rabbit!Idle ELSE v5[d]]
      /\ UNCHANGED <<v1, v2, v3, v4, v6>>
  BY DEF Rabbit!Begin
<1> HIDE DEF new
<1>5. /\ v5' \in [Actors -> Rabbit!Calls] /\ v5'[c] = new
      /\ \A d \in Actors \ {c} : v5'[d] = IF Rabbit!Returned(d) THEN Rabbit!Idle ELSE v5[d]
  BY <1>1, <1>2, <1>3, <1>4 DEF RabbitTyped
<1>6. RabbitTyped'
  BY <1>1, <1>4, <1>5 DEF RabbitTyped
<1>7. RabbitGood(new, v1, v2) /\ RabbitGood(Rabbit!Idle, v1, v2)
  BY <1>2, <1>3 DEF RabbitGood
<1>8. RabbitCalls'
  BY <1>1, <1>4, <1>5, <1>7 DEF RabbitCalls
<1>9. CASE op = "get_queue"
  <2>1. \A d \in Actors \ {c} : v5'[d].op # "get_queue" /\ v5'[d].at # "passive"
    BY <1>1, <1>3, <1>5, <1>9, Zenon DEF RabbitCalls, RabbitGood, Rabbit!Returned, Rabbit!At
  <2>2. v5'[c].op = "get_queue" /\ v5'[c].at \notin {"passive", "ok", "raised"}
    BY <1>2, <1>5, <1>9
  <2>3. RabbitLink'
    BY <1>1, <1>4, <2>1, <2>2 DEF RabbitLink
  <2> QED
    BY <1>6, <1>8, <2>3, RabbitInvPrimed
<1>10. CASE op # "get_queue"
  <2>1. \A d \in Actors : v5'[d].op = "get_queue" \/ v5'[d].at = "passive" =>
          v5'[d].op = v5[d].op /\ v5'[d].at = v5[d].at
    BY <1>2, <1>3, <1>5, <1>10
  <2>2. v6' \in 0..MaxFaults /\ v6' <= v6
    BY <1>1, <1>4, BoundsAssumption DEF RabbitTyped
  <2>3. RabbitLink'
    BY <1>1, <1>4, <2>1, <2>2, RabbitLinkKept
  <2> QED
    BY <1>6, <1>8, <2>3, RabbitInvPrimed
<1> QED
  BY <1>9, <1>10

LEMMA RabbitBeginStep ==
  ASSUME Rabbit!Inv, NEW c \in Actors,
         Rabbit!verify_functionality(c) \/ Rabbit!reset_state(c) \/ Rabbit!get_queue(c)
  PROVE  Rabbit!Inv'
<1> DEFINE nothing == {}
<1>1. nothing \in SUBSET {"test_queue", "other"}
  OBVIOUS
<1>2. CASE Rabbit!verify_functionality(c)
  <2>1. Rabbit!Begin(c, "verify_functionality", "connect", nothing)
    BY <1>2 DEF Rabbit!verify_functionality
  <2> HIDE DEF nothing
  <2> QED
    BY <1>1, <2>1, RabbitBegins
<1>3. CASE Rabbit!reset_state(c)
  <2>1. Rabbit!Begin(c, "reset_state", "list", nothing)
    BY <1>3 DEF Rabbit!reset_state
  <2> HIDE DEF nothing
  <2> QED
    BY <1>1, <2>1, RabbitBegins
<1>4. CASE Rabbit!get_queue(c)
  <2>1. PICK q \in {"test_queue", "other"} : Rabbit!Begin(c, "get_queue", "cached", {q})
    BY <1>4 DEF Rabbit!get_queue, Rabbit!Queues
  <2>2. \A d \in Actors : v5[d].op = "get_queue" => Rabbit!Returned(d)
    BY <1>4 DEF Rabbit!get_queue
  <2> DEFINE todo == {q}
  <2>3. todo \in SUBSET {"test_queue", "other"} /\ Rabbit!Begin(c, "get_queue", "cached", todo)
    BY <2>1
  <2> HIDE DEF todo
  <2> QED
    BY <2>2, <2>3, RabbitBegins
<1> QED
  BY <1>2, <1>3, <1>4

\* What the calls have once queue q was changed, or messages were, under all of them.
LEMMA RabbitAllTouched ==
  ASSUME Rabbit!Inv, NEW q \in {"test_queue", "other"}, NEW qs \in SUBSET {"test_queue", "other"},
         NEW ms \in Seq({"check", "test"}), qs \ {q} = v1 \ {q},
         v2 # <<>> /\ ms = <<>> => q = "test_queue"
  PROVE  /\ Rabbit!Touch(q) \in [Actors -> Rabbit!Calls]
         /\ \A d \in Actors : /\ RabbitGood(Rabbit!Touch(q)[d], qs, ms)
                              /\ Rabbit!Touch(q)[d].op = v5[d].op /\ Rabbit!Touch(q)[d].at = v5[d].at
<1> DEFINE now == Rabbit!Touch(q)
<1>1. RabbitTyped /\ RabbitCalls
  BY RabbitInvIs
<1>2. now = [d \in Actors |-> now[d]]
  BY DEF Rabbit!Touch
<1>3. ASSUME NEW d \in Actors
      PROVE  now[d] \in Rabbit!Calls /\ RabbitGood(now[d], qs, ms) /\ now[d].op = v5[d].op
             /\ now[d].at = v5[d].at
  <2> DEFINE kd == v5[d]
             nd == now[d]
  <2>1. \/ kd.op = "none" /\ nd = kd
        \/ nd = [kd EXCEPT !.touched = @ \cup {q}]
    BY RabbitTouched, Zenon
  <2>2. /\ kd \in Rabbit!Calls /\ RabbitGood(kd, v1, v2) /\ v1 \in SUBSET {"test_queue", "other"}
        /\ v2 \in Seq({"check", "test"})
    BY <1>1 DEF RabbitTyped, RabbitCalls
  <2> HIDE DEF kd, nd
  <2>3. RabbitChange(kd, nd, q, v1, qs, v2, ms)
    BY <2>1 DEF RabbitChange
  <2>4. RabbitGood(nd, qs, ms) /\ nd \in Rabbit!Calls /\ nd.op = kd.op /\ nd.at = kd.at
    BY <2>2, <2>3, RabbitOthers
  <2> QED
    BY <2>4 DEF kd, nd
<1> QED
  BY <1>2, <1>3

\* The changes that tests make.
LEMMA RabbitTestStep ==
  ASSUME Rabbit!Inv, Rabbit!DeclareOther \/ Rabbit!TestLeavesMessage PROVE Rabbit!Inv'
<1>1. RabbitTyped /\ RabbitCalls /\ RabbitLink
  BY RabbitInvIs
<1>2. PICK q \in {"test_queue", "other"} :
        /\ v1' = v1 \cup {q} /\ (v2' = v2 \/ (v2' = Append(v2, "test") /\ q = "test_queue"))
        /\ v5' = Rabbit!Touch(q) /\ UNCHANGED <<v3, v4>> /\ (v6' = v6 \/ (v6 > 0 /\ v6' = v6 - 1))
  BY DEF Rabbit!DeclareOther, Rabbit!TestLeavesMessage, Rabbit!Fault
<1> DEFINE qs == v1 \cup {q}
           ms == v2'
           now == Rabbit!Touch(q)
<1>3. /\ qs \in SUBSET {"test_queue", "other"} /\ ms \in Seq({"check", "test"}) /\ qs \ {q} = v1 \ {q}
      /\ (v2 # <<>> /\ ms = <<>> => q = "test_queue") /\ ("test_queue" \notin qs => ms = <<>>)
  BY <1>1, <1>2 DEF RabbitTyped
<1>4. v6' \in 0..MaxFaults /\ v6' <= v6
  BY <1>1, <1>2, BoundsAssumption DEF RabbitTyped
<1>5. v1' = qs /\ v2' = ms /\ v5' = now
  BY <1>2
<1> HIDE DEF qs, ms
<1>6. /\ now \in [Actors -> Rabbit!Calls]
      /\ \A d \in Actors : RabbitGood(now[d], qs, ms) /\ now[d].op = v5[d].op /\ now[d].at = v5[d].at
  BY <1>3, RabbitAllTouched
<1> HIDE DEF now
<1>7. RabbitTyped' /\ RabbitCalls'
  BY <1>1, <1>2, <1>3, <1>4, <1>5, <1>6 DEF RabbitTyped, RabbitCalls
<1>8. RabbitLink'
  BY <1>1, <1>2, <1>4, <1>5, <1>6, RabbitLinkKept
<1> QED
  BY <1>7, <1>8, RabbitInvPrimed

\* A restart of the broker: what it loses, and the calls it breaks.
LEMMA RabbitRestartStep == ASSUME Rabbit!Inv, Rabbit!BrokerRestarts PROVE Rabbit!Inv'
<1>1. RabbitTyped /\ RabbitCalls /\ RabbitLink
  BY RabbitInvIs
<1> DEFINE now == Rabbit!Touch("other")
           qs == v1'
           q == "other"
<1>2. /\ qs \in SUBSET {"test_queue", "other"} /\ qs \ {q} = v1 \ {q}
      /\ ("test_queue" \in qs <=> "test_queue" \in v1)
  BY <1>1 DEF Rabbit!BrokerRestarts, RabbitTyped
<1>3. /\ now \in [Actors -> Rabbit!Calls]
      /\ \A d \in Actors : RabbitGood(now[d], qs, v2) /\ now[d].op = v5[d].op /\ now[d].at = v5[d].at
  <2> HIDE DEF qs
  <2>1. q \in {"test_queue", "other"} /\ now = Rabbit!Touch(q) /\ v2 \in Seq({"check", "test"})
    BY <1>1 DEF RabbitTyped
  <2> HIDE DEF q
  <2> QED
    BY <1>2, <2>1, RabbitAllTouched
<1> HIDE DEF now, q
<1>4. v2' \in Seq({"check", "test"}) /\ ("test_queue" \notin v1' => v2' = <<>>)
  <2> DEFINE left == {j \in 1..Len(v2) : v2[j] = "test"}
             n == Cardinality(left)
  <2>1. IsFiniteSet(left) /\ n \in Nat /\ (v2 = <<>> => n = 0)
    <3>1. Len(v2) \in Nat
      BY <1>1 DEF RabbitTyped
    <3>2. IsFiniteSet(left)
      <4>1. IsFiniteSet(1..Len(v2))
        BY <3>1, FS_Interval
      <4>2. left \subseteq 1..Len(v2)
        OBVIOUS
      <4> QED
        BY <4>1, <4>2, FS_Subset
    <3>3. v2 = <<>> => left = {}
      BY DEF left
    <3> HIDE DEF left
    <3> QED
      BY <3>2, <3>3, FS_CardinalityType, FS_EmptySet
  <2>2. v2' = [i \in 1..n |-> "test"]
    <3>1. v2' = Rabbit!Persistent
      BY DEF Rabbit!BrokerRestarts
    <3>2. Rabbit!Persistent = [i \in 1..n |-> "test"]
      <4>1. Rabbit!Cardinality(left) = Cardinality(left)
        BY Zenon DEF Rabbit!Cardinality, Cardinality
      <4> QED
        BY <4>1, Zenon DEF Rabbit!Persistent
    <3> QED
      BY <3>1, <3>2
  <2> HIDE DEF n
  <2>3. v2' \in Seq({"check", "test"}) /\ (n = 0 => v2' = <<>>)
    BY <2>1, <2>2
  <2> QED
    BY <1>1, <1>2, <2>1, <2>3 DEF RabbitTyped
<1>5. v6' \in 0..MaxFaults /\ v6' < MaxFaults
  <2>1. v6 > 0 /\ v6' = v6 - 1
    BY Zenon DEF Rabbit!BrokerRestarts, Rabbit!Fault
  <2> QED
    BY <1>1, <2>1, BoundsAssumption DEF RabbitTyped
<1>6. v5' = [d \in Actors |->
        IF Rabbit!Returned(d) THEN now[d]
        ELSE [now[d] EXCEPT !.excused = TRUE,
                !.at = IF @ \in {"declare", "publish", "get", "delete"} THEN "raised" ELSE @]]
  BY Zenon DEF Rabbit!BrokerRestarts, now
<1>7. ASSUME NEW d \in Actors
      PROVE  /\ v5'[d] \in Rabbit!Calls /\ RabbitGood(v5'[d], v1', v2') /\ v5'[d].op = v5[d].op
             /\ v5'[d].at \in {v5[d].at, "raised"}
  <2> DEFINE k == now[d]
             k2 == v5'[d]
             lost == k.at \in {"declare", "publish", "get", "delete"}
  <2>1. k \in Rabbit!Calls /\ RabbitGood(k, v1', v2) /\ k.op = v5[d].op /\ k.at = v5[d].at
    BY <1>3
  <2>2. CASE Rabbit!Returned(d)
    <3>1. k2 = k /\ k.at \in {"ok", "raised"}
      BY <1>6, <2>1, <2>2 DEF Rabbit!Returned, Rabbit!At
    <3> HIDE DEF k, k2
    <3>2. RabbitGood(k2, v1', v2')
      BY <2>1, <3>1 DEF RabbitGood
    <3> QED
      BY <2>1, <3>1, <3>2 DEF k, k2
  <2>3. CASE ~Rabbit!Returned(d)
    <3>1. k2 = [k EXCEPT !.excused = TRUE,
                  !.at = IF @ \in {"declare", "publish", "get", "delete"} THEN "raised" ELSE @]
      BY <1>6, <2>3
    <3>2. k.at \notin {"ok", "raised"}
      BY <2>1, <2>3 DEF Rabbit!Returned, Rabbit!At
    <3> HIDE DEF k, k2
    <3>3. /\ k2 \in Rabbit!Calls /\ k2.excused = TRUE /\ k2.op = k.op /\ k2.todo = k.todo
          /\ k2.touched = k.touched /\ k2.at = IF lost THEN "raised" ELSE k.at
      BY <2>1, <3>1 DEF Rabbit!Calls
    <3>4. RabbitGood(k2, v1', v2')
      BY <2>1, <3>2, <3>3 DEF RabbitGood
    <3> QED
      BY <2>1, <3>3, <3>4 DEF k, k2
  <2> QED
    BY <2>2, <2>3
<1>8. v5' \in [Actors -> Rabbit!Calls] /\ RabbitCalls'
  <2>1. v5' = [d \in Actors |-> v5'[d]]
    BY <1>6
  <2> QED
    BY <1>7, <2>1 DEF RabbitCalls
<1>9. v3' = (IF v3 = "open" THEN "lost" ELSE v3) /\ v4' = v4
  BY DEF Rabbit!BrokerRestarts
<1>10. RabbitTyped'
  BY <1>1, <1>2, <1>4, <1>5, <1>8, <1>9 DEF RabbitTyped
<1>11. RabbitLink'
  BY <1>1, <1>5, <1>7, <1>9 DEF RabbitLink
<1> QED
  BY <1>8, <1>10, <1>11, RabbitInvPrimed

\* A request that fails, and the two steps of get_queue: they move one call on, with its
\* connection.
LEMMA RabbitOneCall ==
  ASSUME RabbitTyped, RabbitCalls, NEW c \in Actors, NEW k \in Rabbit!Calls,
         v5' = [v5 EXCEPT ![c] = k], UNCHANGED <<v1, v2>>,
         v3' \in {"none", "open", "lost", "closed"}, v4' \in BOOLEAN, v6' \in 0..MaxFaults,
         RabbitGood(k, v1, v2), RabbitLink'
  PROVE  Rabbit!Inv'
<1>1. v5' \in [Actors -> Rabbit!Calls] /\ v5'[c] = k /\ \A d \in Actors \ {c} : v5'[d] = v5[d]
  BY DEF RabbitTyped
<1>2. RabbitTyped' /\ RabbitCalls'
  BY <1>1 DEF RabbitTyped, RabbitCalls
<1> QED
  BY <1>2, RabbitInvPrimed

LEMMA RabbitFailStep == ASSUME Rabbit!Inv, NEW c \in Actors, Rabbit!RequestFails(c) PROVE Rabbit!Inv'
<1>1. RabbitTyped /\ RabbitCalls /\ RabbitLink
  BY RabbitInvIs
<1> DEFINE k == [v5[c] EXCEPT !.at = "raised", !.excused = TRUE]
<1>2. k \in Rabbit!Calls /\ k.at = "raised" /\ k.excused = TRUE /\ k.op = v5[c].op
  BY <1>1 DEF RabbitTyped, Rabbit!Calls
<1>3. v5' = [v5 EXCEPT ![c] = k] /\ UNCHANGED <<v1, v2, v4>>
  BY <1>1 DEF Rabbit!RequestFails, RabbitTyped
<1>4. v6' \in 0..MaxFaults /\ v6' < MaxFaults
  BY <1>1, BoundsAssumption DEF RabbitTyped, Rabbit!RequestFails, Rabbit!Fault
<1> HIDE DEF k
<1>5. v5'[c] = k /\ \A d \in Actors \ {c} : v5'[d] = v5[d]
  BY <1>1, <1>3 DEF RabbitTyped
<1>6. RabbitGood(k, v1, v2)
  BY <1>2 DEF RabbitGood
<1>7. v3' = IF v5[c].at = "passive" THEN "closed" ELSE v3
  BY DEF Rabbit!RequestFails, Rabbit!At
<1>8. RabbitLink'
  BY <1>1, <1>2, <1>3, <1>4, <1>5, <1>7 DEF RabbitLink
<1>9. v3' \in {"none", "open", "lost", "closed"} /\ v4' \in BOOLEAN
  BY <1>1, <1>3, <1>7 DEF RabbitTyped
<1> QED
  BY <1>1, <1>2, <1>3, <1>4, <1>6, <1>8, <1>9, RabbitOneCall

LEMMA RabbitGetStep ==
  ASSUME Rabbit!Inv, NEW c \in Actors, Rabbit!get_amqp_connection(c) \/ Rabbit!PassiveDeclare(c)
  PROVE  Rabbit!Inv'
<1>1. RabbitTyped /\ RabbitCalls /\ RabbitLink
  BY RabbitInvIs
<1>2. PICK l \in {"ok", "raised", "passive"} :
        /\ v5' = [v5 EXCEPT ![c].at = l] /\ UNCHANGED <<v1, v2, v6>>
        /\ \/ /\ v5[c].at = "cached" /\ v4' = v4 /\ v3' = IF v3 = "none" THEN "open" ELSE v3
              /\ l = IF v3 = "closed" THEN "raised" ELSE "passive"
           \/ v5[c].at = "passive" /\ v3 = "open" /\ l = "ok" /\ UNCHANGED <<v3, v4>>
           \/ v5[c].at = "passive" /\ l = "raised" /\ v3' = "closed" /\ v4' = (v4 \/ v3 = "open")
  <2>1. CASE Rabbit!get_amqp_connection(c)
    BY <2>1 DEF Rabbit!get_amqp_connection, Rabbit!At, Rabbit!Raise, Rabbit!Goto
  <2>2. CASE Rabbit!PassiveDeclare(c)
    BY <2>2 DEF Rabbit!PassiveDeclare, Rabbit!At, Rabbit!Raise, Rabbit!Goto
  <2> QED
    BY <2>1, <2>2
<1> DEFINE k == [v5[c] EXCEPT !.at = l]
<1>3. k \in Rabbit!Calls /\ k.at = l /\ k.op = v5[c].op /\ v5' = [v5 EXCEPT ![c] = k]
  BY <1>1, <1>2 DEF RabbitTyped, Rabbit!Calls
<1> HIDE DEF k
<1>4. k.op = "get_queue" /\ v5[c].op = "get_queue"
  BY <1>1, <1>2, <1>3 DEF RabbitCalls, RabbitGood
<1>5. v5'[c] = k /\ \A d \in Actors \ {c} : v5'[d] = v5[d]
  BY <1>1, <1>3 DEF RabbitTyped
<1>6. RabbitGood(k, v1, v2)
  BY <1>2, <1>3, <1>4 DEF RabbitGood
<1>7. \A d \in Actors \ {c} : v5'[d].op # "get_queue" /\ v5'[d].at # "passive"
  BY <1>1, <1>4, <1>5 DEF RabbitLink, RabbitCalls, RabbitGood
<1>8. /\ v3' = "closed" => v4' \/ v6' < MaxFaults
      /\ v3' = "lost" => v6' < MaxFaults
      /\ v4' => v3' = "closed"
      /\ l = "passive" => v3' # "none"
      /\ l = "raised" => v4' \/ v6' < MaxFaults
      /\ l = "ok" => ~v4'
      /\ v4' \in BOOLEAN /\ v3' \in {"none", "open", "lost", "closed"}
  <2> DEFINE spent == v6 < MaxFaults
  <2>1. /\ v3 = "closed" => v4 \/ spent
        /\ v3 = "lost" => spent
        /\ v4 => v3 = "closed"
        /\ v5[c].at = "passive" => v3 # "none"
        /\ v4 \in BOOLEAN /\ v3 \in {"none", "open", "lost", "closed"}
    BY <1>1 DEF RabbitLink, RabbitTyped
  <2>2. v6' < MaxFaults <=> spent
    BY <1>2
  <2> HIDE DEF spent
  <2>4. CASE /\ v5[c].at = "cached" /\ v4' = v4 /\ v3' = IF v3 = "none" THEN "open" ELSE v3
             /\ l = IF v3 = "closed" THEN "raised" ELSE "passive"
    BY <2>1, <2>2, <2>4
  <2>5. CASE v5[c].at = "passive" /\ v3 = "open" /\ l = "ok" /\ UNCHANGED <<v3, v4>>
    BY <2>1, <2>2, <2>5
  <2>6. CASE v5[c].at = "passive" /\ l = "raised" /\ v3' = "closed" /\ v4' = (v4 \/ v3 = "open")
    BY <2>1, <2>2, <2>6
  <2> QED
    BY <1>2, <2>4, <2>5, <2>6
<1>9. RabbitLink'
  BY <1>3, <1>5, <1>7, <1>8 DEF RabbitLink
<1>10. v6' \in 0..MaxFaults
  BY <1>1, <1>2 DEF RabbitTyped
<1> QED
  BY <1>1, <1>2, <1>3, <1>6, <1>8, <1>9, <1>10, RabbitOneCall

LEMMA RabbitNext == Rabbit!Inv /\ [Rabbit!Next]_(Rabbit!vars) => Rabbit!Inv'
<1> SUFFICES ASSUME Rabbit!Inv, [Rabbit!Next]_(Rabbit!vars) PROVE Rabbit!Inv'
  OBVIOUS
<1>1. CASE UNCHANGED Rabbit!vars
  <2>1. UNCHANGED <<v1, v2, v3, v4, v5, v6>>
    BY <1>1 DEF Rabbit!vars
  <2>2. (RabbitTyped /\ RabbitCalls /\ RabbitLink)'
    BY <2>1, RabbitInvIs DEF RabbitTyped, RabbitCalls, RabbitLink
  <2> QED
    BY <2>2, RabbitInvPrimed
<1>2. CASE Rabbit!BrokerRestarts \/ Rabbit!DeclareOther \/ Rabbit!TestLeavesMessage
  BY <1>2, RabbitRestartStep, RabbitTestStep
<1>3. ASSUME NEW c \in Actors,
             \/ Rabbit!verify_functionality(c) \/ Rabbit!reset_state(c) \/ Rabbit!get_queue(c)
             \/ Rabbit!create_amqp_connection(c) \/ Rabbit!queue_declare(c) \/ Rabbit!produce_msg(c)
             \/ Rabbit!consume_message(c) \/ Rabbit!queue_delete(c) \/ Rabbit!get_queue_list(c)
             \/ Rabbit!delete_queue(c) \/ Rabbit!get_amqp_connection(c)
             \/ Rabbit!PassiveDeclare(c) \/ Rabbit!RequestFails(c)
      PROVE  Rabbit!Inv'
  BY <1>3, RabbitBeginStep, RabbitCheckStep, RabbitResetStep, RabbitGetStep, RabbitFailStep
<1> QED
  BY <1>1, <1>2, <1>3, Zenon DEF Rabbit!Next

LEMMA RabbitHolds == Rabbit!Inv => Rabbit!ChecksAndResetsHold /\ Rabbit!FoundUnlessMissed
BY DEF Rabbit!Inv

LEMMA BrokersAlways == 
  Spec => [](/\ focus = "rpyc" => Rpyc!Inv
             /\ focus = "topics" => Topics!Inv
             /\ focus = "rabbitmq" => Rabbit!Inv)
<1> DEFINE Holds == /\ focus = "rpyc" => Rpyc!Inv
                    /\ focus = "topics" => Topics!Inv
                    /\ focus = "rabbitmq" => Rabbit!Inv
<1>1. Init => Holds
  BY RpycInit, TopicsInit, RabbitInit DEF Init
<1>2. Holds /\ [Next]_vars => Holds'
  <2>1. ASSUME Holds, Next PROVE Holds'
    BY <2>1, RpycNext, TopicsNext, RabbitNext DEF Next
  <2>2. ASSUME Holds, UNCHANGED vars PROVE Holds'
    <3>1. UNCHANGED <<focus, v1, v2, v3, v4, v5, v6, v7, v8, v9, v10, v11, v12>>
      BY <2>2 DEF vars
    <3>2. UNCHANGED Rpyc!vars
      BY <3>1 DEF Rpyc!vars, Rpyc!host
    <3>3. UNCHANGED Topics!vars
      BY <3>1 DEF Topics!vars
    <3>4. UNCHANGED Rabbit!vars
      BY <3>1 DEF Rabbit!vars
    <3> QED
      BY <2>2, <3>1, <3>2, <3>3, <3>4, RpycNext, TopicsNext, RabbitNext
  <2> QED
    BY <2>1, <2>2
<1> QED
  BY <1>1, <1>2, PTL DEF Spec

\* The plugin starts one rpyc server, whose calls fail for a cause; a topic loses its own
\* retention only to a call that failed on it; checks and resets of Rabbitmq do what they
\* say or fail for what others did, and its one kept connection finds every queue until it
\* has been asked for one that is missing: for any threads, topics and failing requests.
THEOREM BrokersAreServed == Spec => []BrokersServe
<1> DEFINE Holds == /\ focus = "rpyc" => Rpyc!Inv
                    /\ focus = "topics" => Topics!Inv
                    /\ focus = "rabbitmq" => Rabbit!Inv
<1>1. Holds => BrokersServe
  BY RpycHolds, TopicsHolds, RabbitHolds DEF BrokersServe
<1> QED
  BY <1>1, BrokersAlways, PTL

=============================================================================
