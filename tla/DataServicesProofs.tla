------------------------- MODULE DataServicesProofs -------------------------
(***************************************************************************)
(* Proofs about the services that keep data or metrics, for any callers,   *)
(* files, partitions and samples and any number of faults, and, with what  *)
(* DeploymentProofs has of the others, about the types of all of them.     *)
(* Each module has an inductive invariant Inv; what it implies is an       *)
(* invariant of the composition whenever the module is in focus.           *)
(***************************************************************************)
EXTENDS DeploymentProofs, FiniteSetTheorems, SequenceTheorems, WellFoundedInduction, TLAPS

-----------------------------------------------------------------------------
(* The S3 client of Seaweed.                                               *)
\* The buckets and the requests of a call, whatever they are.
S3Stores(store, buckets) ==
  /\ store \in [S3!Buckets -> SUBSET S3!Keys]
  /\ buckets \subseteq S3!Buckets
  /\ \A b \in S3!Buckets \ buckets : store[b] = {}

S3Rest == v3 \subseteq S3!Keys /\ v4 \in [Actors -> S3!Jobs] /\ v5 \in 0..MaxFaults

S3CallOk(c) == S3!LabelsOf(c) /\ S3!Progress(c) /\ S3!Holds(c)

LEMMA S3Inv ==
  S3!Inv <=> /\ S3Stores(v1, v2) /\ S3Rest
             /\ \A c \in Actors : S3CallOk(c)
             /\ \A c, d \in Actors : c = d \/ S3!Apart(c, d)
BY DEF S3!Inv, S3!TypeOK, S3Stores, S3Rest, S3CallOk

LEMMA S3InvPrimed ==
  S3!Inv' <=> (/\ S3Stores(v1, v2) /\ S3Rest
               /\ \A c \in Actors : S3CallOk(c)
               /\ \A c, d \in Actors : c = d \/ S3!Apart(c, d))'
BY S3Inv, PTL

\* What a call uploads, and where, depends on nothing but what it is.
LEMMA S3UploadsOf ==
  ASSUME NEW c \in Actors
  PROVE  /\ S3!Target(c) \in {"dst", "automation_infra"}
         /\ v4[c].op = "upload_files" => S3!Uploads(c) = Things /\ S3!Target(c) = "dst"
         /\ v4[c].op = "deploy_resource" => S3!Uploads(c) = {"resource"}
         /\ v4[c].op = "upload_image" => S3!Uploads(c) = {"image"}
         /\ v4[c].op \in S3!Deploying => S3!Target(c) = "automation_infra"
         /\ v4[c].op \in S3!Clearing \cup {"none"} => S3!Uploads(c) = {}
BY DEF S3!Uploads, S3!Target, S3!Deploying, S3!Clearing

LEMMA S3UploadsKept ==
  ASSUME NEW c \in Actors, v4'[c].op = v4[c].op
  PROVE  S3!Uploads(c)' = S3!Uploads(c) /\ S3!Target(c)' = S3!Target(c)
BY DEF S3!Uploads, S3!Target

LEMMA S3Init == S3!Init => S3!Inv
<1> SUFFICES ASSUME S3!Init PROVE S3!Inv
  OBVIOUS
<1> DEFINE first == [op |-> "none", at |-> "ok", todo |-> {}, size |-> 0, excused |-> FALSE]
<1>1. first \in S3!Jobs
  BY BoundsAssumption DEF S3!Jobs
<1>2. v4 = [c \in Actors |-> first]
  BY DEF S3!Init
<1>3. S3Stores(v1, v2)
  BY DEF S3!Init, S3Stores, S3!Buckets
<1>4. S3Rest
  BY <1>1, <1>2, BoundsAssumption DEF S3!Init, S3Rest
<1>5. ASSUME NEW c \in Actors PROVE S3CallOk(c)
  BY <1>2, S3UploadsOf DEF S3CallOk, S3!LabelsOf, S3!Progress, S3!Holds, S3!At
<1>6. ASSUME NEW c \in Actors, NEW d \in Actors PROVE S3!Apart(c, d)
  BY <1>2 DEF S3!Apart, S3!Returned
<1> QED
  BY <1>3, <1>4, <1>5, <1>6, S3Inv

LEMMA S3Left ==
  ASSUME NEW r \in S3!Jobs, NEW how \in {"ok", "raised"}
  PROVE  LET left == [r EXCEPT !.at = how, !.todo = {}, !.size = 0]
         IN  /\ left \in S3!Jobs /\ left.at = how /\ left.op = r.op /\ left.excused = r.excused
             /\ left.todo = {}
<1>1. 0 \in 0..MaxChunks
  BY BoundsAssumption
<1> DEFINE r1 == [r EXCEPT !.at = how]
           r2 == [r1 EXCEPT !.todo = {}]
           r3 == [r2 EXCEPT !.size = 0]
<1>2. r1 \in S3!Jobs /\ r1.at = how /\ r1.op = r.op /\ r1.excused = r.excused
  BY DEF S3!Jobs
<1>3. [r EXCEPT !.at = how, !.todo = {}, !.size = 0] = r3
  BY DEF S3!Jobs
<1> HIDE DEF r1
<1>4. r2 \in S3!Jobs /\ r2.at = how /\ r2.op = r.op /\ r2.excused = r.excused /\ r2.todo = {}
  BY <1>2 DEF S3!Jobs
<1> HIDE DEF r2
<1>5. r3 \in S3!Jobs /\ r3.at = how /\ r3.op = r.op /\ r3.excused = r.excused /\ r3.todo = {}
  BY <1>1, <1>4 DEF S3!Jobs
<1> QED
  BY <1>3, <1>5

\* A step of a call that is under way disturbs no other that it is not in the way of.
LEMMA S3Advances ==
  ASSUME S3!Inv, NEW c \in Actors, ~S3!Returned(c),
         S3Stores(v1, v2)', S3Rest',
         \A d \in Actors \ {c} : v4'[d] = v4[d],
         v4'[c].op = v4[c].op, v4[c].excused => v4'[c].excused,
         v4[c].op \notin S3!Clearing => \A b \in S3!Buckets : v1[b] \subseteq v1'[b],
         S3CallOk(c)'
  PROVE  S3!Inv'
<1>1. ASSUME NEW d \in Actors \ {c} PROVE S3CallOk(d)'
  <2>1. S3CallOk(d) /\ S3!Apart(d, c) /\ v4'[d] = v4[d]
    BY S3Inv
  <2>2. S3!Uploads(d)' = S3!Uploads(d) /\ S3!Target(d)' = S3!Target(d)
    BY <2>1, S3UploadsKept
  <2>3. S3!LabelsOf(d)'
    BY <2>1, <2>2 DEF S3CallOk, S3!LabelsOf, S3!At
  <2>4. CASE v4[d].excused
    BY <2>1, <2>3, <2>4 DEF S3CallOk, S3!Progress, S3!Holds
  <2>5. CASE ~v4[d].excused
    <3>1. v4[d].op \notin S3!Clearing /\ v4[c].op \notin S3!Clearing
      BY <2>1, <2>5 DEF S3!Apart
    <3>2. \A b \in S3!Buckets : v1[b] \subseteq v1'[b]
      BY <3>1
    <3>3. S3!Progress(d)'
      BY <2>1, <3>1, <3>2 DEF S3CallOk, S3!Progress, S3!At, S3!Clearing, S3!Buckets
    <3>4. S3!Target(d) \in S3!Buckets
      BY S3UploadsOf DEF S3!Buckets
    <3>5. S3!Holds(d)'
      BY <2>1, <2>2, <3>2, <3>4 DEF S3CallOk, S3!Holds, S3!At
    <3> QED
      BY <2>3, <3>3, <3>5 DEF S3CallOk
  <2> QED
    BY <2>4, <2>5
<1>2. ASSUME NEW d \in Actors, NEW e \in Actors, d # e PROVE S3!Apart(d, e)'
  <2>1. S3!Apart(d, e)
    BY <1>2, S3Inv
  <2>2. /\ v4'[d].op = v4[d].op /\ v4'[e].op = v4[e].op
        /\ v4[d].excused => v4'[d].excused
        /\ S3!Returned(e) => S3!Returned(e)'
    BY DEF S3!Returned
  <2> QED
    BY <2>1, <2>2 DEF S3!Apart
<1> QED
  BY <1>1, <1>2, S3InvPrimed

\* What is left to show of a request is what it does when it is answered, and that a check
\* is not refused.
LEMMA S3Requests ==
  ASSUME S3!Inv, NEW c \in Actors, ~S3!Returned(c),
         NEW may \in BOOLEAN, NEW store2, NEW buckets2, NEW next,
         S3!Request(c, may, store2, buckets2, next),
         may => S3Stores(store2, buckets2),
         next \in [Actors -> S3!Jobs], \A d \in Actors \ {c} : next[d] = v4[d],
         next[c].op = v4[c].op, next[c].excused = v4[c].excused,
         v3' \subseteq S3!Keys,
         may /\ v4[c].op \notin S3!Clearing => \A b \in S3!Buckets : v1[b] \subseteq store2[b],
         ~may => v4[c].excused \/ v4[c].op # "verify_functionality",
         may /\ v1' = store2 /\ v2' = buckets2 /\ v4'[c] = next[c] => S3CallOk(c)'
  PROVE  S3!Inv'
<1>1. S3Stores(v1, v2) /\ S3Rest
  BY S3Inv
<1>2. v4 \in [Actors -> S3!Jobs] /\ v5 \in 0..MaxFaults
  BY <1>1 DEF S3Rest
<1> DEFINE left == [v4[c] EXCEPT !.at = "raised", !.todo = {}, !.size = 0]
           failed == [left EXCEPT !.excused = TRUE]
<1>3. v4[c] \in S3!Jobs
  BY <1>2
<1>4. /\ left \in S3!Jobs /\ left.op = v4[c].op /\ left.at = "raised"
      /\ left.excused = v4[c].excused
  BY <1>3, S3Left
<1> HIDE DEF left
<1>5. failed \in S3!Jobs /\ failed.op = v4[c].op /\ failed.at = "raised" /\ failed.excused
  BY <1>4 DEF S3!Jobs
<1> HIDE DEF failed
<1>6. S3!Leave(c, "raised") = [v4 EXCEPT ![c] = left]
  BY <1>2 DEF S3!Leave, left
<1>7. \/ may /\ v1' = store2 /\ v2' = buckets2 /\ v4' = next /\ v5' = v5
      \/ ~may /\ v4' = [v4 EXCEPT ![c] = left] /\ v1' = v1 /\ v2' = v2 /\ v5' = v5
      \/ /\ v5 > 0 /\ v5' = v5 - 1 /\ v4' = [v4 EXCEPT ![c] = failed]
         /\ (may /\ v1' = store2 /\ v2' = buckets2) \/ (v1' = v1 /\ v2' = v2)
  <2>1. [S3!Leave(c, "raised") EXCEPT ![c].excused = TRUE] = [v4 EXCEPT ![c] = failed]
    BY <1>2, <1>6 DEF failed
  <2> QED
    BY <1>6, <2>1 DEF S3!Request
<1>8. S3Stores(v1, v2)'
  BY <1>1, <1>7 DEF S3Stores
<1>9. v5' \in 0..MaxFaults
  BY <1>2, <1>7, BoundsAssumption
<1>10. /\ v4' \in [Actors -> S3!Jobs]
       /\ \A d \in Actors \ {c} : v4'[d] = v4[d]
       /\ v4'[c] = next[c] \/ v4'[c] = left \/ v4'[c] = failed
  <2>1. CASE v4' = next
    BY <2>1
  <2>2. CASE v4' = [v4 EXCEPT ![c] = left]
    BY <1>2, <1>4, <2>2
  <2>3. CASE v4' = [v4 EXCEPT ![c] = failed]
    BY <1>2, <1>5, <2>3
  <2> QED
    BY <1>7, <2>1, <2>2, <2>3
<1>11. S3Rest'
  BY <1>9, <1>10 DEF S3Rest
<1>12. v4'[c].op = v4[c].op /\ (v4[c].excused => v4'[c].excused)
  BY <1>4, <1>5, <1>10
<1>13. v4[c].op \notin S3!Clearing => \A b \in S3!Buckets : v1[b] \subseteq v1'[b]
  BY <1>7
<1>14. S3CallOk(c)'
  <2>1. CASE may /\ v1' = store2 /\ v2' = buckets2 /\ v4' = next
    BY <2>1
  <2>2. CASE \/ ~may /\ v4' = [v4 EXCEPT ![c] = left]
             \/ v4' = [v4 EXCEPT ![c] = failed]
    <3>1. v4'[c].at = "raised"
      BY <1>2, <1>4, <1>5, <2>2
    <3>2. v4'[c].excused \/ v4[c].op # "verify_functionality"
      BY <1>2, <1>4, <1>5, <2>2
    <3> QED
      BY <1>12, <3>1, <3>2 DEF S3CallOk, S3!LabelsOf, S3!Progress, S3!Holds, S3!At
  <2> QED
    BY <1>7, <2>1, <2>2
<1> QED
  BY <1>8, <1>10, <1>11, <1>12, <1>13, <1>14, S3Advances

\* Where Goto leads.
LEMMA S3Goto ==
  ASSUME S3!Inv, NEW c \in Actors,
         NEW label \in {"ok", "get", "part", "missing", "list", "cleared", "create_bucket",
                        "upload_test", "files"}
  PROVE  /\ S3!Goto(c, label) \in [Actors -> S3!Jobs]
         /\ \A d \in Actors \ {c} : S3!Goto(c, label)[d] = v4[d]
         /\ S3!Goto(c, label)[c].at = label
         /\ S3!Goto(c, label)[c].op = v4[c].op
         /\ S3!Goto(c, label)[c].excused = v4[c].excused
         /\ label # "ok" => S3!Goto(c, label)[c].todo = v4[c].todo
<1>1. v4 \in [Actors -> S3!Jobs]
  BY S3Inv DEF S3Rest
<1>2. v4[c] \in S3!Jobs
  BY <1>1
<1> DEFINE new == IF label = "ok" THEN [v4[c] EXCEPT !.at = "ok", !.todo = {}, !.size = 0]
                  ELSE [v4[c] EXCEPT !.at = label]
<1>3. S3!Goto(c, label) = [v4 EXCEPT ![c] = new]
  <2>1. CASE label = "ok"
    BY <1>1, <2>1 DEF S3!Goto, S3!Leave
  <2>2. CASE label # "ok"
    BY <1>1, <2>2 DEF S3!Goto
  <2> QED
    BY <2>1, <2>2
<1>4. /\ new \in S3!Jobs /\ new.at = label /\ new.op = v4[c].op /\ new.excused = v4[c].excused
      /\ label # "ok" => new.todo = v4[c].todo
  <2>1. CASE label = "ok"
    <3>1. [v4[c] EXCEPT !.at = "ok", !.todo = {}, !.size = 0] \in S3!Jobs
      BY <1>2, S3Left
    <3> QED
      BY <1>2, <2>1, <3>1, S3Left
  <2>2. CASE label # "ok"
    <3>1. [v4[c] EXCEPT !.at = label] \in S3!Jobs
      BY <1>2 DEF S3!Jobs
    <3> QED
      BY <1>2, <2>2, <3>1 DEF S3!Jobs
  <2> QED
    BY <2>1, <2>2
<1> HIDE DEF new
<1> QED
  BY <1>1, <1>3, <1>4

\* The same for a request after which the call goes on at a label.
LEMMA S3GoesOn ==
  ASSUME S3!Inv, NEW c \in Actors, ~S3!Returned(c),
         NEW may \in BOOLEAN, NEW store2, NEW buckets2,
         NEW label \in {"ok", "get", "part", "missing", "list", "cleared", "create_bucket",
                        "upload_test", "files"},
         S3!Request(c, may, store2, buckets2, S3!Goto(c, label)),
         may => S3Stores(store2, buckets2),
         v3' \subseteq S3!Keys,
         may /\ v4[c].op \notin S3!Clearing => \A b \in S3!Buckets : v1[b] \subseteq store2[b],
         ~may => v4[c].excused \/ v4[c].op # "verify_functionality",
         /\ may /\ v1' = store2 /\ v2' = buckets2
         /\ v4'[c].at = label /\ v4'[c].op = v4[c].op /\ v4'[c].excused = v4[c].excused
         /\ label # "ok" => v4'[c].todo = v4[c].todo
         => S3CallOk(c)'
  PROVE  S3!Inv'
<1> DEFINE next == S3!Goto(c, label)
<1>1. /\ next \in [Actors -> S3!Jobs] /\ \A d \in Actors \ {c} : next[d] = v4[d]
      /\ next[c].at = label /\ next[c].op = v4[c].op /\ next[c].excused = v4[c].excused
      /\ label # "ok" => next[c].todo = v4[c].todo
  BY S3Goto
<1>2. S3!Request(c, may, store2, buckets2, next)
  OBVIOUS
<1> HIDE DEF next
<1>3. may /\ v1' = store2 /\ v2' = buckets2 /\ v4'[c] = next[c] => S3CallOk(c)'
  BY <1>1
<1> QED
  BY <1>1, <1>2, <1>3, S3Requests

LEMMA S3Multipart ==
  ASSUME S3!Inv, NEW c \in Actors, S3!CreateUpload(c) \/ S3!GetObject(c) \/ S3!Complete(c)
  PROVE  S3!Inv'
<1>1. S3Stores(v1, v2) /\ S3Rest /\ S3CallOk(c)
  BY S3Inv
<1>2. S3!At(c, "create_upload") \/ S3!At(c, "get") \/ S3!At(c, "part")
  BY DEF S3!CreateUpload, S3!GetObject, S3!Complete
<1>3. /\ ~S3!Returned(c) /\ v4[c].op \in S3!Deploying
      /\ v4[c].todo = S3!Uploads(c) /\ v4[c].todo \subseteq {"resource", "image"}
  BY <1>1, <1>2, S3UploadsOf DEF S3CallOk, S3!LabelsOf, S3!At, S3!Returned, S3!Deploying
<1>4. v3' \subseteq S3!Keys
  BY <1>1, <1>3 DEF S3Rest, S3!Keys, S3!CreateUpload, S3!GetObject, S3!Complete
<1> USE S3UploadsKept DEF S3CallOk, S3!LabelsOf, S3!Progress, S3!Holds, S3!At, S3!Deploying
<1>5. CASE S3!CreateUpload(c)
  <2> DEFINE may == "automation_infra" \in v2
  <2>1. may \in BOOLEAN /\ S3!Request(c, may, v1, v2, S3!Goto(c, "get"))
    BY <1>5 DEF S3!CreateUpload
  <2> HIDE DEF may
  <2> QED
    BY <1>1, <1>3, <1>4, <2>1, S3GoesOn
<1>6. CASE S3!GetObject(c)
  <2>1. PICK there \in BOOLEAN : S3!Request(c, there, v1, v2, S3!Goto(c, "part"))
    BY <1>6 DEF S3!GetObject
  <2> QED
    BY <1>1, <1>3, <1>4, <2>1, S3GoesOn
<1>7. CASE S3!Complete(c)
  <2> DEFINE store2 == [v1 EXCEPT !["automation_infra"] = v1["automation_infra"] \cup v4[c].todo]
  <2>1. PICK granted \in BOOLEAN :
          S3!Request(c, granted /\ "automation_infra" \in v2, store2, v2, S3!Goto(c, "ok"))
    BY <1>7 DEF S3!Complete
  <2> DEFINE may == granted /\ "automation_infra" \in v2
  <2>2. /\ \A b \in S3!Buckets : v1[b] \subseteq store2[b]
        /\ S3!Uploads(c) \subseteq store2[S3!Target(c)]
        /\ may => S3Stores(store2, v2)
    BY <1>1, <1>3, S3UploadsOf DEF S3Stores, S3!Buckets, S3!Keys
  <2>3. may \in BOOLEAN /\ S3!Request(c, may, store2, v2, S3!Goto(c, "ok"))
    BY <2>1
  <2> HIDE DEF store2, may
  <2> QED
    BY <1>1, <1>3, <1>4, <2>2, <2>3, S3GoesOn
<1> QED
  BY <1>5, <1>6, <1>7

LEMMA S3UploadPart == ASSUME S3!Inv, NEW c \in Actors, S3!UploadPart(c) PROVE S3!Inv'
<1>1. S3Stores(v1, v2) /\ S3Rest /\ S3CallOk(c)
  BY S3Inv
<1>2. S3!At(c, "part") /\ v4[c].size > 0 /\ v3' = v3
  BY DEF S3!UploadPart
<1>3. /\ ~S3!Returned(c) /\ v4[c].op \in S3!Deploying
      /\ v4[c].todo = S3!Uploads(c) /\ v4[c].todo \subseteq {"resource", "image"}
  BY <1>1, <1>2, S3UploadsOf DEF S3CallOk, S3!LabelsOf, S3!At, S3!Returned, S3!Deploying
<1>4. v4 \in [Actors -> S3!Jobs] /\ v4[c] \in S3!Jobs
  BY <1>1 DEF S3Rest
<1> DEFINE new == [v4[c] EXCEPT !.size = v4[c].size - 1]
           next == [v4 EXCEPT ![c] = new]
<1>5. /\ new \in S3!Jobs /\ new.at = "part" /\ new.op = v4[c].op /\ new.todo = v4[c].todo
      /\ new.excused = v4[c].excused
  <2>1. v4[c].size - 1 \in 0..MaxChunks
    <3>1. v4[c].size \in 0..MaxChunks
      BY <1>4 DEF S3!Jobs
    <3> QED
      BY <1>2, <3>1, BoundsAssumption
  <2> DEFINE size == v4[c].size - 1
  <2> HIDE DEF size
  <2>2. [v4[c] EXCEPT !.size = size] \in S3!Jobs
    BY <1>4, <2>1 DEF S3!Jobs, size
  <2> QED
    BY <1>2, <1>3, <1>4, <2>2 DEF S3!Jobs, S3!At, size
<1>6. PICK may \in BOOLEAN : S3!Request(c, may, v1, v2, next)
  BY <1>4 DEF S3!UploadPart
<1> HIDE DEF new
<1>7. /\ next \in [Actors -> S3!Jobs] /\ next[c] = new
      /\ \A d \in Actors \ {c} : next[d] = v4[d]
  BY <1>4, <1>5
<1> HIDE DEF next
<1>8. v3' \subseteq S3!Keys
  BY <1>1, <1>2 DEF S3Rest
<1>9. v4'[c] = next[c] => S3CallOk(c)'
  BY <1>3, <1>5, <1>7, S3UploadsKept
  DEF S3CallOk, S3!LabelsOf, S3!Progress, S3!Holds, S3!At, S3!Deploying
<1> QED
  BY <1>1, <1>3, <1>5, <1>6, <1>7, <1>8, <1>9, S3Requests DEF S3!Deploying

LEMMA S3CreateDst == ASSUME S3!Inv, NEW c \in Actors, S3!CreateDst(c) PROVE S3!Inv'
<1>1. S3Stores(v1, v2) /\ S3Rest /\ S3CallOk(c)
  BY S3Inv
<1>2. S3!At(c, "create_bucket") /\ v4[c].op = "upload_files" /\ ~S3!Returned(c) /\ v3' = v3
  BY DEF S3!CreateDst, S3!Does
<1>3. v3' \subseteq S3!Keys
  BY <1>1, <1>2 DEF S3Rest
<1>4. S3Stores(v1, v2 \cup {"dst"})
  BY <1>1 DEF S3Stores, S3!Buckets
<1>5. S3!Request(c, "dst" \notin v2, v1, v2 \cup {"dst"}, S3!Goto(c, "missing"))
  BY DEF S3!CreateDst
<1> QED
  BY <1>2, <1>3, <1>4, <1>5, S3GoesOn
  DEF S3CallOk, S3!LabelsOf, S3!Progress, S3!Holds, S3!At

\* It uploads the files that the bucket does not hold.
LEMMA S3MissingFiles == ASSUME S3!Inv, NEW c \in Actors, S3!MissingFiles(c) PROVE S3!Inv'
<1>1. S3Stores(v1, v2) /\ S3Rest /\ S3CallOk(c)
  BY S3Inv
<1>2. S3!At(c, "missing") /\ v3' = v3
  BY DEF S3!MissingFiles
<1>3. ~S3!Returned(c) /\ v4[c].op = "upload_files"
  BY <1>1, <1>2 DEF S3CallOk, S3!LabelsOf, S3!At, S3!Returned
<1>4. v4 \in [Actors -> S3!Jobs] /\ v4[c] \in S3!Jobs
  BY <1>1 DEF S3Rest
<1> DEFINE todo == Things \ v1["dst"]
           new == [v4[c] EXCEPT !.at = "upload", !.todo = todo]
           next == [v4 EXCEPT ![c] = new]
<1>5. todo \in SUBSET (S3!Keys \cup S3!Buckets) /\ todo \subseteq Things
  BY DEF S3!Keys
<1> DEFINE may == "dst" \in v2
<1>6. may \in BOOLEAN /\ S3!Request(c, may, v1, v2, next)
  <2>1. [v4 EXCEPT ![c].at = "upload", ![c].todo = Things \ v1["dst"]] = next
    BY <1>4
  <2>2. S3!Request(c, may, v1, v2, [v4 EXCEPT ![c].at = "upload", ![c].todo = Things \ v1["dst"]])
    BY DEF S3!MissingFiles
  <2>3. may \in BOOLEAN
    OBVIOUS
  <2> HIDE DEF next, may
  <2> QED
    BY <2>1, <2>2, <2>3
<1> HIDE DEF may
<1>7. Things \subseteq v1["dst"] \cup todo
  OBVIOUS
<1> HIDE DEF todo
<1>8. /\ new \in S3!Jobs /\ new.at = "upload" /\ new.op = "upload_files" /\ new.todo = todo
      /\ new.excused = v4[c].excused
  BY <1>3, <1>4, <1>5 DEF S3!Jobs
<1> HIDE DEF new
<1>9. /\ next \in [Actors -> S3!Jobs] /\ next[c] = new
      /\ \A d \in Actors \ {c} : next[d] = v4[d]
  BY <1>4, <1>8
<1> HIDE DEF next
<1>10. v3' \subseteq S3!Keys
  BY <1>1, <1>2 DEF S3Rest
<1>11. v4'[c] = next[c] /\ v1' = v1 => S3CallOk(c)'
  BY <1>5, <1>7, <1>8, <1>9 DEF S3CallOk, S3!LabelsOf, S3!Progress, S3!Holds, S3!At
<1> QED
  BY <1>1, <1>3, <1>6, <1>8, <1>9, <1>10, <1>11, S3Requests

LEMMA S3Put ==
  ASSUME S3Stores(v1, v2), NEW b \in v2, NEW k \in S3!Keys
  PROVE  /\ S3Stores(S3!Put(b, k), v2)
         /\ S3!Put(b, k)[b] = v1[b] \cup {k}
         /\ \A d \in S3!Buckets \ {b} : S3!Put(b, k)[d] = v1[d]
<1>1. b \in S3!Buckets
  BY DEF S3Stores
<1>2. S3!Put(b, k) = [v1 EXCEPT ![b] = v1[b] \cup {k}]
  BY DEF S3!Put
<1> QED
  BY <1>1, <1>2 DEF S3Stores

\* The call returns without a request.
LEMMA S3Leaves ==
  ASSUME S3!Inv, NEW c \in Actors, ~S3!Returned(c), v4' = S3!Leave(c, "ok"),
         v1' = v1, v2' = v2, v3' = v3, v5' \in 0..MaxFaults,
         ~v4[c].excused => S3!Uploads(c) \subseteq v1[S3!Target(c)]
  PROVE  S3!Inv'
<1>1. S3Stores(v1, v2) /\ S3Rest
  BY S3Inv
<1>2. v4 \in [Actors -> S3!Jobs] /\ v4[c] \in S3!Jobs
  BY <1>1 DEF S3Rest
<1> DEFINE left == [v4[c] EXCEPT !.at = "ok", !.todo = {}, !.size = 0]
<1>3. /\ left \in S3!Jobs /\ left.op = v4[c].op /\ left.at = "ok"
      /\ left.excused = v4[c].excused
  BY <1>2, S3Left
<1>4. v4' = [v4 EXCEPT ![c] = left]
  BY <1>2 DEF S3!Leave
<1> HIDE DEF left
<1>5. /\ v4' \in [Actors -> S3!Jobs] /\ v4'[c] = left
      /\ \A d \in Actors \ {c} : v4'[d] = v4[d]
  BY <1>2, <1>3, <1>4
<1>6. S3Stores(v1, v2)' /\ S3Rest'
  BY <1>1, <1>5 DEF S3Stores, S3Rest
<1>7. S3CallOk(c)'
  BY <1>3, <1>5, S3UploadsKept DEF S3CallOk, S3!LabelsOf, S3!Progress, S3!Holds, S3!At
<1> QED
  BY <1>3, <1>5, <1>6, <1>7, S3Advances

LEMMA S3UploadFile == ASSUME S3!Inv, NEW c \in Actors, S3!UploadFile(c) PROVE S3!Inv'
<1>1. S3Stores(v1, v2) /\ S3Rest /\ S3CallOk(c)
  BY S3Inv
<1>2. S3!At(c, "upload") /\ v3' = v3
  BY DEF S3!UploadFile
<1>3. ~S3!Returned(c) /\ v4[c].op = "upload_files" /\ v4[c].todo \subseteq Things
  BY <1>1, <1>2 DEF S3CallOk, S3!LabelsOf, S3!At, S3!Returned
<1>4. v4 \in [Actors -> S3!Jobs] /\ v4[c] \in S3!Jobs /\ v5 \in 0..MaxFaults
  BY <1>1 DEF S3Rest
<1>5. ~v4[c].excused => Things \subseteq v1["dst"] \cup v4[c].todo
  BY <1>1, <1>2 DEF S3CallOk, S3!Progress
<1>6. CASE v4[c].todo = {} /\ v4' = S3!Leave(c, "ok") /\ v1' = v1 /\ v2' = v2 /\ v5' = v5
  BY <1>2, <1>3, <1>4, <1>5, <1>6, S3Leaves, S3UploadsOf
<1>7. ASSUME NEW f \in v4[c].todo,
             S3!Request(c, "dst" \in v2, S3!Put("dst", f), v2,
                        [v4 EXCEPT ![c].todo = @ \ {f}])
      PROVE  S3!Inv'
  <2> DEFINE todo == v4[c].todo \ {f}
             new == [v4[c] EXCEPT !.todo = todo]
             next == [v4 EXCEPT ![c] = new]
             store2 == S3!Put("dst", f)
             may == "dst" \in v2
  <2>1. todo \in SUBSET (S3!Keys \cup S3!Buckets) /\ todo \subseteq Things
    BY <1>3 DEF S3!Keys
  <2>2. may \in BOOLEAN /\ S3!Request(c, may, store2, v2, next)
    BY <1>4, <1>7
  <2>3. f \in Things /\ f \in S3!Keys
    BY <1>3 DEF S3!Keys
  <2>4. may => /\ S3Stores(store2, v2) /\ store2["dst"] = v1["dst"] \cup {f}
               /\ \A b \in S3!Buckets : v1[b] \subseteq store2[b]
    BY <1>1, <2>3, S3Put DEF S3!Buckets
  <2>5. may /\ ~v4[c].excused => Things \subseteq store2["dst"] \cup todo
    BY <1>5, <2>4
  <2> HIDE DEF todo, store2, may
  <2>6. /\ new \in S3!Jobs /\ new.at = "upload" /\ new.op = "upload_files" /\ new.todo = todo
        /\ new.excused = v4[c].excused
    BY <1>2, <1>3, <1>4, <2>1 DEF S3!Jobs, S3!At
  <2> HIDE DEF new
  <2>7. /\ next \in [Actors -> S3!Jobs] /\ next[c] = new
        /\ \A d \in Actors \ {c} : next[d] = v4[d]
    BY <1>4, <2>6
  <2> HIDE DEF next
  <2>8. v3' \subseteq S3!Keys
    BY <1>1, <1>2 DEF S3Rest
  <2>9. may /\ v4'[c] = next[c] /\ v1' = store2 => S3CallOk(c)'
    BY <2>1, <2>5, <2>6, <2>7 DEF S3CallOk, S3!LabelsOf, S3!Progress, S3!Holds, S3!At
  <2> QED
    BY <1>3, <2>2, <2>4, <2>6, <2>7, <2>8, <2>9, S3Requests
<1> QED
  BY <1>6, <1>7 DEF S3!UploadFile

\* A step without a request, after which the call is at another label.
LEMMA S3ListBuckets == ASSUME S3!Inv, NEW c \in Actors, S3!ListBuckets(c) PROVE S3!Inv'
<1>1. S3Stores(v1, v2) /\ S3Rest /\ S3CallOk(c)
  BY S3Inv
<1>2. S3!At(c, "list") /\ v3' = v3 /\ v1' = v1 /\ v2' = v2
  BY DEF S3!ListBuckets
<1>3. ~S3!Returned(c) /\ v4[c].op \in S3!Clearing /\ v4[c].todo = {}
  BY <1>1, <1>2 DEF S3CallOk, S3!LabelsOf, S3!At, S3!Returned
<1>4. v4 \in [Actors -> S3!Jobs] /\ v4[c] \in S3!Jobs /\ v5 \in 0..MaxFaults
  BY <1>1 DEF S3Rest
<1> DEFINE todo == v2
           listed == [v4[c] EXCEPT !.at = "clear", !.todo = todo]
           missed == [v4[c] EXCEPT !.at = "clear", !.excused = TRUE]
<1>5. todo \in SUBSET (S3!Keys \cup S3!Buckets) /\ ("test_bucket" \in v2 => "test_bucket" \in todo)
  BY <1>1 DEF S3Stores
<1>6. \/ v4' = [v4 EXCEPT ![c] = listed] /\ v5' = v5
      \/ v4' = [v4 EXCEPT ![c] = missed] /\ v5 > 0 /\ v5' = v5 - 1
  BY <1>4 DEF S3!ListBuckets
<1> HIDE DEF todo
<1>7. /\ listed \in S3!Jobs /\ listed.at = "clear" /\ listed.op = v4[c].op /\ listed.todo = todo
      /\ listed.excused = v4[c].excused
  BY <1>4, <1>5 DEF S3!Jobs
<1>8. /\ missed \in S3!Jobs /\ missed.at = "clear" /\ missed.op = v4[c].op /\ missed.todo = {}
      /\ missed.excused
  BY <1>3, <1>4 DEF S3!Jobs
<1> HIDE DEF listed, missed
<1>9. PICK new \in {listed, missed} : v4' = [v4 EXCEPT ![c] = new]
  BY <1>6
<1>10. /\ v4' \in [Actors -> S3!Jobs] /\ v4'[c] = new
       /\ \A d \in Actors \ {c} : v4'[d] = v4[d]
  BY <1>4, <1>7, <1>8, <1>9
<1>11. v5' \in 0..MaxFaults
  BY <1>4, <1>6, BoundsAssumption
<1>12. S3Stores(v1, v2)' /\ S3Rest'
  BY <1>1, <1>2, <1>10, <1>11 DEF S3Stores, S3Rest
<1>13. S3CallOk(c)'
  <2>1. v4[c].op = "verify_functionality" /\ ~v4[c].excused => "test_bucket" \in v2
    BY <1>1, <1>2 DEF S3CallOk, S3!Progress
  <2> QED
    BY <1>3, <1>5, <1>7, <1>8, <1>10, <2>1 DEF S3CallOk, S3!LabelsOf, S3!Progress, S3!Holds, S3!At
<1>14. v4'[c].op = v4[c].op /\ (v4[c].excused => v4'[c].excused)
  BY <1>7, <1>8, <1>10
<1> QED
  BY <1>2, <1>3, <1>10, <1>12, <1>13, <1>14, S3Advances

LEMMA S3Emptied ==
  ASSUME S3Stores(v1, v2), NEW bs
  PROVE  /\ S3Stores(S3!Emptied(bs), v2 \ bs)
         /\ \A b \in S3!Buckets : S3!Emptied(bs)[b] = IF b \in bs THEN {} ELSE v1[b]
BY DEF S3Stores, S3!Emptied

LEMMA S3ClearBuckets == ASSUME S3!Inv, NEW c \in Actors, S3!ClearBuckets(c) PROVE S3!Inv'
<1>1. S3Stores(v1, v2) /\ S3Rest /\ S3CallOk(c)
  BY S3Inv
<1>2. S3!At(c, "clear")
  BY DEF S3!ClearBuckets
<1>3. /\ ~S3!Returned(c) /\ v4[c].op \in S3!Clearing
      /\ v4[c].op = "verify_functionality" /\ ~v4[c].excused => "test_bucket" \in v4[c].todo
  BY <1>1, <1>2 DEF S3CallOk, S3!LabelsOf, S3!Progress, S3!At, S3!Returned
<1>4. v3' \subseteq S3!Keys
  BY <1>1 DEF S3!ClearBuckets, S3Rest
<1> DEFINE label == IF v4[c].op = "clear_buckets" THEN "ok" ELSE "cleared"
           store2 == S3!Emptied(v4[c].todo)
           buckets2 == v2 \ v4[c].todo
<1>5. S3!Request(c, TRUE, store2, buckets2, S3!Goto(c, label))
  BY <1>3 DEF S3!ClearBuckets, S3!Does
<1>6. S3Stores(store2, buckets2)
  BY <1>1, <1>3, S3Emptied
<1>7. v4[c].op = "verify_functionality" /\ ~v4[c].excused => store2["test_bucket"] = {}
  BY <1>1, <1>3, S3Emptied DEF S3!Buckets
<1>8. v4[c].op \in S3!Clearing /\ label \in {"ok", "cleared"} /\ (label = "cleared" => v4[c].op = "verify_functionality")
      /\ (label = "ok" => v4[c].op = "clear_buckets")
  BY <1>3 DEF S3!Clearing
<1> HIDE DEF label, store2, buckets2
<1>9. /\ v1' = store2
      /\ v4'[c].at = label /\ v4'[c].op = v4[c].op /\ v4'[c].excused = v4[c].excused
      => S3CallOk(c)'
  BY <1>7, <1>8, S3UploadsKept, S3UploadsOf DEF S3CallOk, S3!LabelsOf, S3!Progress, S3!Holds, S3!At
<1> QED
  BY <1>3, <1>4, <1>5, <1>6, <1>8, <1>9, S3GoesOn

\* The check of the plugin, in a bucket of its own.
LEMMA S3CheckBucket ==
  ASSUME S3!Inv, NEW c \in Actors,
         S3!DeleteBucket(c) \/ S3!CreateTestBucket(c) \/ S3!UploadTest(c) \/ S3!CheckFiles(c)
  PROVE  S3!Inv'
<1>1. S3Stores(v1, v2) /\ S3Rest /\ S3CallOk(c)
  BY S3Inv
<1>2. /\ \/ S3!At(c, "delete_bucket") \/ S3!At(c, "upload_test") \/ S3!At(c, "files")
         \/ S3!At(c, "create_bucket") /\ v4[c].op = "verify_functionality"
      /\ v3' = v3
  BY DEF S3!DeleteBucket, S3!CreateTestBucket, S3!UploadTest, S3!CheckFiles, S3!Does
<1>3. /\ ~S3!Returned(c) /\ v4[c].op = "verify_functionality" /\ v4[c].op \in S3!Clearing
      /\ v4[c].todo = {}
  <2>1. S3!LabelsOf(c)
    BY <1>1 DEF S3CallOk
  <2>3. v4[c].at \in {"delete_bucket", "upload_test", "files", "create_bucket"}
    BY <1>2 DEF S3!At
  <2>4. v4[c].op = "verify_functionality"
    BY <1>2, <2>1 DEF S3!LabelsOf, S3!At
  <2>5. v4[c].todo = {}
    BY <2>1, <2>3 DEF S3!LabelsOf, S3!At
  <2>2. ~S3!Returned(c)
    BY <1>2 DEF S3!At, S3!Returned
  <2> QED
    BY <2>2, <2>4, <2>5 DEF S3!Clearing
<1>4. v3' \subseteq S3!Keys
  BY <1>1, <1>2 DEF S3Rest
<1>5. CASE S3!DeleteBucket(c)
  <2> DEFINE store2 == S3!Emptied({"test_bucket"})
             buckets2 == v2 \ {"test_bucket"}
             passed == [S3!Goto(c, "create_bucket") EXCEPT ![c].excused = TRUE]
  <2>1. \/ S3!Request(c, TRUE, store2, buckets2, S3!Goto(c, "create_bucket"))
        \/ v5 > 0 /\ v5' = v5 - 1 /\ v4' = passed /\ v1' = v1 /\ v2' = v2
    BY <1>5 DEF S3!DeleteBucket
  <2>2. S3Stores(store2, buckets2) /\ "test_bucket" \notin buckets2
    BY <1>1, S3Emptied
  <2> HIDE DEF store2, buckets2
  <2>3. /\ v2' = buckets2
        /\ v4'[c].at = "create_bucket" /\ v4'[c].op = v4[c].op /\ v4'[c].todo = v4[c].todo
        => S3CallOk(c)'
    BY <1>3, <2>2 DEF S3CallOk, S3!LabelsOf, S3!Progress, S3!Holds, S3!At
  <2>4. CASE S3!Request(c, TRUE, store2, buckets2, S3!Goto(c, "create_bucket"))
    BY <1>3, <1>4, <2>2, <2>3, <2>4, S3GoesOn
  <2>5. CASE v5 > 0 /\ v5' = v5 - 1 /\ v4' = passed /\ v1' = v1 /\ v2' = v2
    <3> DEFINE gone == S3!Goto(c, "create_bucket")
    <3>1. /\ gone \in [Actors -> S3!Jobs] /\ \A d \in Actors \ {c} : gone[d] = v4[d]
          /\ gone[c].at = "create_bucket" /\ gone[c].op = v4[c].op /\ gone[c].todo = v4[c].todo
      BY S3Goto
    <3>2. v4' = [gone EXCEPT ![c] = [gone[c] EXCEPT !.excused = TRUE]]
      BY <2>5, <3>1
    <3> HIDE DEF gone
    <3>3. gone[c] \in S3!Jobs
      BY <3>1
    <3> DEFINE new == [gone[c] EXCEPT !.excused = TRUE]
    <3>4. /\ new \in S3!Jobs /\ new.at = "create_bucket" /\ new.op = v4[c].op
          /\ new.todo = v4[c].todo /\ new.excused
      BY <3>1, <3>3 DEF S3!Jobs
    <3> HIDE DEF new
    <3>5. v4' = [gone EXCEPT ![c] = new]
      BY <3>2 DEF new
    <3>6. /\ v4' \in [Actors -> S3!Jobs] /\ v4'[c] = new
          /\ \A d \in Actors \ {c} : v4'[d] = v4[d]
      BY <3>1, <3>4, <3>5
    <3>7. v5 \in 0..MaxFaults
      BY <1>1 DEF S3Rest
    <3>8. v5' \in 0..MaxFaults
      BY <2>5, <3>7, BoundsAssumption
    <3>9. S3Stores(v1, v2)' /\ S3Rest'
      BY <1>1, <1>4, <2>5, <3>6, <3>8 DEF S3Stores, S3Rest
    <3>10. S3CallOk(c)'
      BY <1>3, <3>4, <3>6 DEF S3CallOk, S3!LabelsOf, S3!Progress, S3!Holds, S3!At
    <3> QED
      BY <1>3, <3>4, <3>6, <3>9, <3>10, S3Advances
  <2> QED
    BY <2>1, <2>4, <2>5
<1>6. CASE S3!CreateTestBucket(c)
  <2> DEFINE may == "test_bucket" \notin v2
             buckets2 == v2 \cup {"test_bucket"}
  <2>1. may \in BOOLEAN /\ S3!Request(c, may, v1, buckets2, S3!Goto(c, "upload_test"))
    BY <1>6 DEF S3!CreateTestBucket
  <2>2. S3!At(c, "create_bucket")
    BY <1>6 DEF S3!CreateTestBucket
  <2>3. /\ may => S3Stores(v1, buckets2) /\ "test_bucket" \in buckets2 /\ v1["test_bucket"] = {}
        /\ ~may => v4[c].excused
    BY <1>1, <1>3, <2>2 DEF S3Stores, S3!Buckets, S3CallOk, S3!Progress
  <2> HIDE DEF may, buckets2
  <2>4. /\ may /\ v1' = v1 /\ v2' = buckets2
        /\ v4'[c].at = "upload_test" /\ v4'[c].op = v4[c].op /\ v4'[c].todo = v4[c].todo
        => S3CallOk(c)'
    BY <1>3, <2>3 DEF S3CallOk, S3!LabelsOf, S3!Progress, S3!Holds, S3!At
  <2> QED
    BY <1>3, <1>4, <2>1, <2>3, <2>4, S3GoesOn
<1>7. CASE S3!UploadTest(c)
  <2> DEFINE may == "test_bucket" \in v2
             store2 == S3!Put("test_bucket", "test.tmp")
  <2>1. may \in BOOLEAN /\ S3!Request(c, may, store2, v2, S3!Goto(c, "files"))
    BY <1>7 DEF S3!UploadTest
  <2>2. S3!At(c, "upload_test")
    BY <1>7 DEF S3!UploadTest
  <2>3. ~v4[c].excused => may /\ v1["test_bucket"] = {}
    BY <1>1, <1>3, <2>2 DEF S3CallOk, S3!Progress
  <2>4. may => S3Stores(store2, v2) /\ store2["test_bucket"] = v1["test_bucket"] \cup {"test.tmp"}
    BY <1>1, S3Put DEF S3!Keys
  <2>5. may => "test_bucket" \in v2
    OBVIOUS
  <2> HIDE DEF may, store2
  <2>6. /\ may /\ v1' = store2 /\ v2' = v2
        /\ v4'[c].at = "files" /\ v4'[c].op = v4[c].op /\ v4'[c].todo = v4[c].todo
        /\ v4'[c].excused = v4[c].excused
        => S3CallOk(c)'
    BY <1>3, <2>3, <2>4, <2>5 DEF S3CallOk, S3!LabelsOf, S3!Progress, S3!Holds, S3!At
  <2> QED
    BY <1>3, <1>4, <2>1, <2>3, <2>4, <2>6, S3GoesOn
<1>8. CASE S3!CheckFiles(c)
  <2> DEFINE may == v1["test_bucket"] = {"test.tmp"}
  <2>1. may \in BOOLEAN /\ S3!Request(c, may, v1, v2, S3!Goto(c, "list"))
    BY <1>8 DEF S3!CheckFiles
  <2>2. S3!At(c, "files")
    BY <1>8 DEF S3!CheckFiles
  <2>3. ~v4[c].excused => may /\ "test_bucket" \in v2
    BY <1>1, <1>3, <2>2 DEF S3CallOk, S3!Progress
  <2> HIDE DEF may
  <2>4. /\ v1' = v1 /\ v2' = v2
        /\ v4'[c].at = "list" /\ v4'[c].op = v4[c].op /\ v4'[c].todo = v4[c].todo
        /\ v4'[c].excused = v4[c].excused
        => S3CallOk(c)'
    BY <1>3, <2>3 DEF S3CallOk, S3!LabelsOf, S3!Progress, S3!Holds, S3!At
  <2> QED
    BY <1>1, <1>3, <1>4, <2>1, <2>3, <2>4, S3GoesOn
<1> QED
  BY <1>5, <1>6, <1>7, <1>8

LEMMA S3CheckCleared == ASSUME S3!Inv, NEW c \in Actors, S3!CheckCleared(c) PROVE S3!Inv'
<1>1. S3Stores(v1, v2) /\ S3Rest /\ S3CallOk(c)
  BY S3Inv
<1>2. S3!At(c, "cleared") /\ v3' = v3
  BY DEF S3!CheckCleared
<1>3. /\ ~S3!Returned(c) /\ v4[c].op = "verify_functionality"
      /\ ~v4[c].excused => v1["test_bucket"] = {}
  BY <1>1, <1>2 DEF S3CallOk, S3!LabelsOf, S3!Progress, S3!At, S3!Returned
<1>4. v3' \subseteq S3!Keys /\ v5 \in 0..MaxFaults
  BY <1>1, <1>2 DEF S3Rest
<1> DEFINE may == "test.tmp" \notin v1["test_bucket"]
<1>5. CASE S3!Request(c, may, v1, v2, S3!Goto(c, "ok"))
  <2>1. may \in BOOLEAN /\ (~may => v4[c].excused)
    BY <1>3
  <2>2. S3!Request(c, may, v1, v2, S3!Goto(c, "ok"))
    BY <1>5
  <2> HIDE DEF may
  <2>3. v4'[c].at = "ok" /\ v4'[c].op = v4[c].op => S3CallOk(c)'
    BY <1>3, S3UploadsKept, S3UploadsOf
    DEF S3CallOk, S3!LabelsOf, S3!Progress, S3!Holds, S3!At, S3!Clearing
  <2> QED
    BY <1>1, <1>3, <1>4, <2>1, <2>2, <2>3, S3GoesOn DEF S3!Clearing
<1>6. CASE S3!Unanswered(c)
  <2>1. v4' = S3!Leave(c, "ok") /\ v1' = v1 /\ v2' = v2 /\ v5' \in 0..MaxFaults
    BY <1>4, <1>6, BoundsAssumption DEF S3!Unanswered
  <2> QED
    BY <1>2, <1>3, <2>1, S3Leaves, S3UploadsOf DEF S3!Clearing
<1> QED
  BY <1>5, <1>6 DEF S3!CheckCleared

LEMMA S3CreateInfra == ASSUME S3!Inv, S3!CreateInfra PROVE S3!Inv'
<1>1. S3Stores(v1, v2) /\ S3Rest
  BY S3Inv
<1>2. v2' = v2 \cup {"automation_infra"} /\ v1' = v1 /\ v3' = v3 /\ v4' = v4 /\ v5' = v5
  BY DEF S3!CreateInfra
<1>3. S3Stores(v1, v2)' /\ S3Rest'
  BY <1>1, <1>2 DEF S3Stores, S3Rest, S3!Buckets
<1>4. ASSUME NEW d \in Actors PROVE S3CallOk(d)'
  <2>1. S3CallOk(d)
    BY S3Inv
  <2> QED
    BY <1>2, <2>1, S3UploadsKept DEF S3CallOk, S3!LabelsOf, S3!Progress, S3!Holds, S3!At
<1>5. ASSUME NEW d \in Actors, NEW e \in Actors, d # e PROVE S3!Apart(d, e)'
  <2>1. S3!Apart(d, e)
    BY <1>5, S3Inv
  <2> QED
    BY <1>2, <2>1 DEF S3!Apart, S3!Returned
<1> QED
  BY <1>3, <1>4, <1>5, S3InvPrimed

\* A call that begins excuses those it disturbs, and is excused if one of them is under way.
LEMMA S3Begins ==
  ASSUME S3!Inv, NEW c \in Actors, NEW op, NEW label, NEW todo, NEW size \in 0..MaxChunks,
         S3!Begin(c, op, label, todo, size),
         \/ op = "deploy_resource" /\ label = "create_upload" /\ todo = {"resource"}
         \/ op = "upload_image" /\ label = "create_upload" /\ todo = {"image"}
         \/ op = "upload_files" /\ label = "create_bucket" /\ todo = {}
         \/ op = "clear_buckets" /\ label = "list" /\ todo = {}
         \/ op = "verify_functionality" /\ label = "delete_bucket" /\ todo = {}
  PROVE  S3!Inv'
<1>1. S3Stores(v1, v2) /\ S3Rest
  BY S3Inv
<1>2. v4 \in [Actors -> S3!Jobs]
  BY <1>1 DEF S3Rest
<1> DEFINE disturbs(d) == {op, v4[d].op} \cap S3!Clearing # {}
           excused == \E e \in Actors \ {c} : disturbs(e) /\ ~S3!Returned(e)
           new == [op |-> op, at |-> label, todo |-> todo, size |-> size, excused |-> excused]
           told(d) == [v4[d] EXCEPT !.excused = v4[d].excused \/ disturbs(d)]
<1>3. /\ v4' = [d \in Actors |-> IF d = c THEN new ELSE
                                 [v4[d] EXCEPT !.excused = @ \/ d \in {e \in Actors \ {c} : disturbs(e)}]]
      /\ v1' = v1 /\ v2' = v2 /\ v3' = v3 /\ v5' = v5
  BY DEF S3!Begin
<1>4. excused \in BOOLEAN /\ todo \in SUBSET (S3!Keys \cup S3!Buckets)
  BY DEF S3!Keys
<1>5. /\ new \in S3!Jobs /\ new.op = op /\ new.at = label /\ new.todo = todo
      /\ new.excused = excused
  <2> HIDE DEF excused
  <2> QED
    BY <1>4 DEF S3!Jobs, S3!Deploying, S3!Clearing
<1>6. ASSUME NEW d \in Actors \ {c}
      PROVE  /\ v4'[d] \in S3!Jobs
             /\ v4'[d].op = v4[d].op /\ v4'[d].at = v4[d].at /\ v4'[d].todo = v4[d].todo
             /\ v4'[d].excused <=> v4[d].excused \/ disturbs(d)
  <2>1. v4'[d] = told(d)
    BY <1>3
  <2>2. v4[d] \in S3!Jobs
    BY <1>2
  <2>3. (v4[d].excused \/ disturbs(d)) \in BOOLEAN
    OBVIOUS
  <2> HIDE DEF disturbs
  <2> QED
    BY <2>1, <2>2, <2>3 DEF S3!Jobs
<1>7. v4'[c] = new
  BY <1>3
<1>8. v4' \in [Actors -> S3!Jobs]
  <2>1. ASSUME NEW d \in Actors PROVE v4'[d] \in S3!Jobs
    BY <1>5, <1>6, <1>7
  <2> QED
    BY <1>3, <2>1
<1> HIDE DEF new
<1>9. S3Stores(v1, v2)' /\ S3Rest'
  BY <1>1, <1>3, <1>8 DEF S3Stores, S3Rest
<1>10. S3CallOk(c)'
  <2>1. op \in S3!Deploying => todo = S3!Uploads(c)'
    BY <1>5, <1>7 DEF S3!Uploads, S3!Deploying
  <2> QED
    BY <1>5, <1>7, <2>1
    DEF S3CallOk, S3!LabelsOf, S3!Progress, S3!Holds, S3!At, S3!Clearing, S3!Deploying
<1>11. ASSUME NEW d \in Actors \ {c} PROVE S3CallOk(d)'
  <2>1. S3CallOk(d)
    BY S3Inv
  <2>2. ~v4'[d].excused => ~v4[d].excused
    BY <1>6
  <2> QED
    BY <1>3, <1>6, <2>1, <2>2, S3UploadsKept DEF S3CallOk, S3!LabelsOf, S3!Progress, S3!Holds, S3!At
<1>12. ASSUME NEW d \in Actors, NEW e \in Actors, d # e PROVE S3!Apart(d, e)'
  <2>1. S3!Apart(d, e)
    BY <1>12, S3Inv
  <2>2. CASE d = c
    <3>1. ~excused /\ ~S3!Returned(e) => ~disturbs(e)
      BY <1>12, <2>2
    <3>2. v4'[e].op = v4[e].op /\ (S3!Returned(e)' <=> S3!Returned(e))
      BY <1>6, <1>12, <2>2 DEF S3!Returned
    <3> QED
      BY <1>5, <1>7, <2>2, <3>1, <3>2 DEF S3!Apart
  <2>3. CASE e = c
    BY <1>5, <1>6, <1>7, <1>12, <2>3 DEF S3!Apart
  <2>4. CASE d # c /\ e # c
    <3>1. /\ v4'[d].op = v4[d].op /\ v4'[e].op = v4[e].op
          /\ ~v4'[d].excused => ~v4[d].excused
          /\ S3!Returned(e)' <=> S3!Returned(e)
      BY <1>6, <2>4 DEF S3!Returned
    <3> QED
      BY <2>1, <3>1 DEF S3!Apart
  <2> QED
    BY <2>2, <2>3, <2>4
<1> QED
  BY <1>9, <1>10, <1>11, <1>12, S3InvPrimed

LEMMA S3Next == S3!Inv /\ S3!Next => S3!Inv'
<1> SUFFICES ASSUME S3!Inv, S3!Next PROVE S3!Inv'
  OBVIOUS
<1>1. CASE S3!CreateInfra
  BY <1>1, S3CreateInfra
<1>2. ASSUME NEW c \in Actors,
             \/ S3!deploy_resource_to_s3(c) \/ S3!upload_to_seaweed_from_s3(c)
             \/ S3!upload_files_from(c) \/ S3!clear_buckets(c) \/ S3!verify_functionality(c)
      PROVE  S3!Inv'
  <2>1. 0 \in 0..MaxChunks
    BY BoundsAssumption
  <2> QED
    BY <1>2, <2>1, S3Begins DEF S3!deploy_resource_to_s3, S3!upload_to_seaweed_from_s3,
       S3!upload_files_from, S3!clear_buckets, S3!verify_functionality
<1>3. ASSUME NEW c \in Actors,
             \/ S3!CreateUpload(c) \/ S3!GetObject(c) \/ S3!UploadPart(c) \/ S3!Complete(c)
             \/ S3!CreateDst(c) \/ S3!MissingFiles(c) \/ S3!UploadFile(c)
      PROVE  S3!Inv'
  BY <1>3, S3Multipart, S3UploadPart, S3CreateDst, S3MissingFiles, S3UploadFile
<1>4. ASSUME NEW c \in Actors,
             \/ S3!ListBuckets(c) \/ S3!ClearBuckets(c) \/ S3!DeleteBucket(c)
             \/ S3!CreateTestBucket(c) \/ S3!UploadTest(c) \/ S3!CheckFiles(c)
             \/ S3!CheckCleared(c)
      PROVE  S3!Inv'
  BY <1>4, S3ListBuckets, S3ClearBuckets, S3CheckBucket, S3CheckCleared
<1> QED
  BY <1>1, <1>2, <1>3, <1>4 DEF S3!Next

LEMMA S3Stutter == S3!Inv /\ UNCHANGED vars => S3!Inv'
<1> SUFFICES ASSUME S3!Inv, UNCHANGED <<v1, v2, v3, v4, v5>> PROVE S3!Inv'
  BY DEF vars
<1>1. S3Stores(v1, v2)' /\ S3Rest'
  BY S3Inv DEF S3Stores, S3Rest
<1>2. ASSUME NEW d \in Actors PROVE S3CallOk(d)'
  <2>1. S3CallOk(d)
    BY S3Inv
  <2> QED
    BY <2>1, S3UploadsKept DEF S3CallOk, S3!LabelsOf, S3!Progress, S3!Holds, S3!At
<1>3. ASSUME NEW d \in Actors, NEW e \in Actors, d # e PROVE S3!Apart(d, e)'
  <2>1. S3!Apart(d, e)
    BY <1>3, S3Inv
  <2> QED
    BY <2>1 DEF S3!Apart, S3!Returned
<1> QED
  BY <1>1, <1>2, <1>3, S3InvPrimed

LEMMA S3Always == Spec => [](focus = "s3" => S3!Inv)
<1> DEFINE Holds == focus = "s3" => S3!Inv
<1>1. Init => Holds
  BY S3Init DEF Init
<1>2. Holds /\ [Next]_vars => Holds'
  <2>1. ASSUME Holds, Next PROVE Holds'
    BY <2>1, S3Next DEF Next
  <2>2. ASSUME Holds, UNCHANGED vars PROVE Holds'
    BY <2>2, S3Stutter DEF vars
  <2> QED
    BY <2>1, <2>2
<1> QED
  BY <1>1, <1>2, PTL DEF Spec

-----------------------------------------------------------------------------
(* The check of the resource manager.                                      *)
ManagerType ==
  v1 \subseteq Manager!Keys /\ v2 \subseteq Manager!Keys /\ v3 \in [Actors -> Manager!Calls]
  /\ v4 \in 0..MaxFaults

\* What holds of a check by itself.
ManagerOwn(c) == Manager!Progress(c) /\ Manager!Holds(c)

LEMMA ManagerInv ==
  Manager!Inv <=> ManagerType /\ \A c \in Actors : Manager!Alone(c) /\ ManagerOwn(c)
BY DEF Manager!Inv, Manager!TypeOK, ManagerType, ManagerOwn

LEMMA ManagerInvPrimed ==
  Manager!Inv' <=> (ManagerType /\ \A c \in Actors : Manager!Alone(c) /\ ManagerOwn(c))'
BY ManagerInv, PTL

LEMMA ManagerInit == Manager!Init => Manager!Inv
<1> SUFFICES ASSUME Manager!Init PROVE Manager!Inv
  OBVIOUS
<1> USE DEF Manager!Init, Manager!Nothing, Manager!Listings, Manager!Keys, Manager!Resources
<1>1. ManagerType
  BY BoundsAssumption DEF ManagerType, Manager!Calls
<1>2. ASSUME NEW c \in Actors PROVE Manager!Alone(c) /\ ManagerOwn(c)
  BY DEF Manager!Alone, ManagerOwn, Manager!Progress, Manager!Holds, Manager!At,
         Manager!Returned, Manager!Listed
<1> QED
  BY <1>1, <1>2, ManagerInv

\* A step of a check that is under way: no other is that is not excused, and those that have
\* returned find what they found.
LEMMA ManagerAdvances ==
  ASSUME Manager!Inv, NEW c \in Actors, ~Manager!Returned(c), NEW new \in Manager!Calls,
         v3' = [v3 EXCEPT ![c] = new], v3[c].excused => new.excused,
         v1' \subseteq Manager!Keys, v2' \subseteq Manager!Keys, v4' \in 0..MaxFaults,
         v2 \subseteq v2', "second" \in v1' => "second" \in v1,
         ManagerOwn(c)'
  PROVE  Manager!Inv'
<1>1. v3 \in [Actors -> Manager!Calls]
  BY ManagerInv DEF ManagerType
<1>2. v3' \in [Actors -> Manager!Calls] /\ v3'[c] = new /\ \A d \in Actors \ {c} : v3'[d] = v3[d]
  BY <1>1
<1>3. ManagerType'
  BY <1>2 DEF ManagerType
<1>4. ASSUME NEW d \in Actors PROVE Manager!Alone(d)'
  <2>1. Manager!Alone(d)
    BY ManagerInv
  <2>2. CASE d = c
    BY <1>2, <2>1, <2>2 DEF Manager!Alone, Manager!Returned
  <2>3. CASE d # c
    BY <1>2, <2>1, <2>3 DEF Manager!Alone, Manager!Returned
  <2> QED
    BY <2>2, <2>3
<1>5. ASSUME NEW d \in Actors \ {c} PROVE ManagerOwn(d)'
  <2>1. Manager!Alone(d) /\ ManagerOwn(d)
    BY ManagerInv
  <2>2. v3[d].excused \/ Manager!Returned(d)
    BY <2>1 DEF Manager!Alone
  <2>3. v3'[d] = v3[d]
    BY <1>2
  <2>4. Manager!MayFail(d) => Manager!MayFail(d)'
    BY <2>3 DEF Manager!MayFail
  <2>5. CASE v3[d].excused
    BY <2>3, <2>5 DEF ManagerOwn, Manager!Progress, Manager!Holds
  <2>6. CASE Manager!Returned(d)
    BY <2>1, <2>3, <2>4, <2>6
    DEF ManagerOwn, Manager!Progress, Manager!Holds, Manager!At, Manager!Returned
  <2> QED
    BY <2>2, <2>5, <2>6
<1> QED
  BY <1>3, <1>4, <1>5, ManagerInvPrimed

\* What is left to show of a request is what it does when it is answered, and for what cause
\* it is refused.
LEMMA ManagerRequests ==
  ASSUME Manager!Inv, NEW c \in Actors, ~Manager!Returned(c),
         NEW may \in BOOLEAN, NEW bucket2, NEW deployed2, NEW next \in Manager!Calls,
         Manager!Request(c, may, bucket2, deployed2, next),
         may => /\ bucket2 \subseteq Manager!Keys /\ deployed2 \subseteq Manager!Keys
                /\ v2 \subseteq deployed2 /\ ("second" \in bucket2 => "second" \in v1),
         next.excused = v3[c].excused,
         ~may => v3[c].excused \/ Manager!MayFail(c),
         may /\ v1' = bucket2 /\ v2' = deployed2 /\ v3'[c] = next => ManagerOwn(c)'
  PROVE  Manager!Inv'
<1>1. ManagerType
  BY ManagerInv
<1>2. v3 \in [Actors -> Manager!Calls] /\ v3[c] \in Manager!Calls /\ v4 \in 0..MaxFaults
  BY <1>1 DEF ManagerType
<1> DEFINE raised == [v3[c] EXCEPT !.at = "raised", !.todo = {}]
           failed == [raised EXCEPT !.excused = TRUE]
<1>3. /\ raised \in Manager!Calls /\ raised.at = "raised" /\ raised.files = v3[c].files
      /\ raised.excused = v3[c].excused
  BY <1>2 DEF Manager!Calls
<1>4. Manager!Raises(c) = raised
  BY DEF Manager!Raises
<1> HIDE DEF raised
<1>5. failed \in Manager!Calls /\ failed.at = "raised" /\ failed.excused
  BY <1>3 DEF Manager!Calls
<1>6. \/ may /\ v1' = bucket2 /\ v2' = deployed2 /\ v3' = [v3 EXCEPT ![c] = next] /\ v4' = v4
      \/ ~may /\ v3' = [v3 EXCEPT ![c] = raised] /\ v1' = v1 /\ v2' = v2 /\ v4' = v4
      \/ /\ v4 > 0 /\ v4' = v4 - 1 /\ v3' = [v3 EXCEPT ![c] = failed]
         /\ (may /\ v1' = bucket2 /\ v2' = deployed2) \/ (v1' = v1 /\ v2' = v2)
  BY <1>4 DEF Manager!Request, Manager!Becomes
<1> HIDE DEF failed
<1>7. v4' \in 0..MaxFaults
  BY <1>2, <1>6, BoundsAssumption
<1>8. /\ v1' \subseteq Manager!Keys /\ v2' \subseteq Manager!Keys /\ v2 \subseteq v2'
      /\ "second" \in v1' => "second" \in v1
  BY <1>1, <1>6 DEF ManagerType
<1>9. CASE may /\ v1' = bucket2 /\ v2' = deployed2 /\ v3' = [v3 EXCEPT ![c] = next]
  <2>1. v3'[c] = next
    BY <1>2, <1>9
  <2> QED
    BY <1>7, <1>8, <1>9, <2>1, ManagerAdvances
<1>10. CASE ~may /\ v3' = [v3 EXCEPT ![c] = raised] /\ v1' = v1 /\ v2' = v2
  <2>1. v3'[c] = raised
    BY <1>2, <1>10
  <2>2. ManagerOwn(c)'
    BY <1>3, <1>10, <2>1
    DEF ManagerOwn, Manager!Progress, Manager!Holds, Manager!At, Manager!MayFail
  <2> QED
    BY <1>3, <1>7, <1>8, <1>10, <2>2, ManagerAdvances
<1>11. CASE v3' = [v3 EXCEPT ![c] = failed]
  <2>1. v3'[c] = failed
    BY <1>2, <1>11
  <2>2. ManagerOwn(c)'
    BY <1>5, <2>1 DEF ManagerOwn, Manager!Progress, Manager!Holds
  <2> QED
    BY <1>5, <1>7, <1>8, <1>11, <2>2, ManagerAdvances
<1> QED
  BY <1>6, <1>9, <1>10, <1>11

\* The record of a call that goes on at a label.
LEMMA ManagerGoes ==
  ASSUME NEW c \in Actors, v3[c] \in Manager!Calls,
         NEW label \in {"ok", "put", "exists", "delete", "deleted", "gone", "fetch", "compare",
                        "deploy", "count"}
  PROVE  LET next == Manager!Goes(c, label)
         IN  /\ next \in Manager!Calls /\ next.at = label /\ next.files = v3[c].files
             /\ next.todo = v3[c].todo /\ next.excused = v3[c].excused
BY DEF Manager!Goes, Manager!Calls

LEMMA ManagerBegins ==
  ASSUME Manager!Inv, NEW c \in Actors, Manager!verify_functionality(c) PROVE Manager!Inv'
<1>1. ManagerType
  BY ManagerInv
<1>2. v3 \in [Actors -> Manager!Calls]
  BY <1>1 DEF ManagerType
<1> DEFINE excused == \E e \in Actors \ {c} : ~Manager!Returned(e)
           new == [at |-> "list", files |-> Manager!Nothing, todo |-> {}, excused |-> excused]
<1>3. /\ v3' = [d \in Actors |-> IF d = c THEN new ELSE
                  [v3[d] EXCEPT !.excused = @ \/ ~Manager!Returned(d)]]
      /\ v1' = v1 /\ v2' = v2 /\ v4' = v4
  BY DEF Manager!verify_functionality
<1>4. excused \in BOOLEAN /\ Manager!Nothing \in Manager!Listings
  BY DEF Manager!Nothing, Manager!Listings
<1>5. new \in Manager!Calls /\ new.at = "list" /\ new.excused = excused
  <2> HIDE DEF excused
  <2> QED
    BY <1>4 DEF Manager!Calls
<1>6. ASSUME NEW d \in Actors \ {c}
      PROVE  /\ v3'[d] \in Manager!Calls /\ v3'[d].at = v3[d].at /\ v3'[d].files = v3[d].files
             /\ v3'[d].todo = v3[d].todo
             /\ v3'[d].excused <=> v3[d].excused \/ ~Manager!Returned(d)
  <2> DEFINE under == v3[d].excused \/ ~Manager!Returned(d)
  <2>1. v3'[d] = [v3[d] EXCEPT !.excused = under] /\ v3[d] \in Manager!Calls /\ under \in BOOLEAN
    BY <1>2, <1>3
  <2> HIDE DEF under
  <2>2. v3'[d].excused = under /\ v3'[d] \in Manager!Calls
    BY <2>1 DEF Manager!Calls
  <2>3. v3'[d].at = v3[d].at /\ v3'[d].files = v3[d].files /\ v3'[d].todo = v3[d].todo
    BY <2>1 DEF Manager!Calls
  <2> QED
    BY <2>2, <2>3 DEF under
<1>7. v3'[c] = new
  BY <1>3
<1>8. ManagerType'
  <2>1. ASSUME NEW d \in Actors PROVE v3'[d] \in Manager!Calls
    BY <1>5, <1>6, <1>7
  <2>2. v3' \in [Actors -> Manager!Calls]
    BY <1>3, <2>1
  <2> QED
    BY <1>1, <1>3, <2>2 DEF ManagerType
<1> HIDE DEF new
<1>9. ASSUME NEW d \in Actors PROVE Manager!Alone(d)'
  <2>1. CASE d = c
    <3>1. excused \/ \A e \in Actors \ {c} : Manager!Returned(e)
      OBVIOUS
    <3>2. \A e \in Actors \ {c} : Manager!Returned(e)' <=> Manager!Returned(e)
      BY <1>6 DEF Manager!Returned
    <3> QED
      BY <1>5, <1>7, <2>1, <3>1, <3>2 DEF Manager!Alone
  <2>2. CASE d # c
    BY <1>6, <2>2 DEF Manager!Alone, Manager!Returned
  <2> QED
    BY <2>1, <2>2
<1>10. ManagerOwn(c)'
  BY <1>5, <1>7 DEF ManagerOwn, Manager!Progress, Manager!Holds, Manager!At
<1>11. ASSUME NEW d \in Actors \ {c} PROVE ManagerOwn(d)'
  <2>1. ManagerOwn(d)
    BY ManagerInv
  <2>2. CASE v3[d].excused \/ ~Manager!Returned(d)
    BY <1>6, <2>2 DEF ManagerOwn, Manager!Progress, Manager!Holds
  <2>3. CASE ~v3[d].excused /\ Manager!Returned(d)
    BY <1>3, <1>6, <2>1, <2>3
    DEF ManagerOwn, Manager!Progress, Manager!Holds, Manager!At, Manager!Returned,
        Manager!MayFail
  <2> QED
    BY <2>2, <2>3
<1> QED
  BY <1>8, <1>9, <1>10, <1>11, ManagerInvPrimed

\* It has listed two resources that are there, or it may fail.
LEMMA ManagerLists ==
  ASSUME Manager!Inv, NEW c \in Actors, Manager!get_s3_files(c) PROVE Manager!Inv'
<1>1. ManagerType /\ v3[c] \in Manager!Calls
  BY ManagerInv DEF ManagerType
<1>2. ~Manager!Returned(c)
  BY DEF Manager!get_s3_files, Manager!At, Manager!Returned
<1>3. CASE v1 = {} /\ Manager!Reads(c, FALSE, v3[c])
  <2>1. Manager!Request(c, FALSE, v1, v2, v3[c]) /\ Manager!MayFail(c)
    BY <1>3 DEF Manager!Reads, Manager!MayFail
  <2> QED
    BY <1>1, <1>2, <2>1, ManagerRequests
<1>4. ASSUME NEW listing \in Manager!Listings,
             listing.first \in v1 \ {"second"},
             IF v1 = {listing.first} THEN listing.second = "none"
             ELSE listing.second \in v1 \ {listing.first} /\ "first" \in Manager!Listed(listing),
             Manager!Reads(c, TRUE, [Manager!Goes(c, "put") EXCEPT !.files = listing])
      PROVE  Manager!Inv'
  <2> DEFINE goes == Manager!Goes(c, "put")
             next == [goes EXCEPT !.files = listing]
  <2>1. goes \in Manager!Calls /\ goes.at = "put" /\ goes.excused = v3[c].excused
    BY <1>1, ManagerGoes
  <2>2. Manager!Request(c, TRUE, v1, v2, next)
    BY <1>4 DEF Manager!Reads
  <2> HIDE DEF goes
  <2>3. /\ next \in Manager!Calls /\ next.at = "put" /\ next.files = listing
        /\ next.excused = v3[c].excused
    BY <2>1 DEF Manager!Calls
  <2> HIDE DEF next
  <2>4. \/ "second" \notin v1
        \/ "Jenkinsfile" \in Manager!Listed(listing)
        \/ Manager!Listed(listing) = Manager!Resources /\ Manager!Resources \subseteq v1
    BY <1>1, <1>4 DEF ManagerType, Manager!Listed, Manager!Keys, Manager!Resources
  <2>5. v1' = v1 /\ v2' = v2 /\ v3'[c] = next => ManagerOwn(c)'
    BY <2>3, <2>4 DEF ManagerOwn, Manager!Progress, Manager!Holds, Manager!At, Manager!MayFail
  <2> QED
    BY <1>1, <1>2, <2>2, <2>3, <2>5, ManagerRequests DEF ManagerType
<1> QED
  BY <1>3, <1>4 DEF Manager!get_s3_files

LEMMA ManagerPuts ==
  ASSUME Manager!Inv, NEW c \in Actors,
         Manager!upload_from_filesystem(c) \/ Manager!delete_file(c)
  PROVE  Manager!Inv'
<1>1. ManagerType /\ v3[c] \in Manager!Calls /\ ManagerOwn(c)
  BY ManagerInv DEF ManagerType
<1>2. ~Manager!Returned(c)
  BY DEF Manager!upload_from_filesystem, Manager!delete_file, Manager!At, Manager!Returned
<1>3. CASE Manager!upload_from_filesystem(c)
  <2> DEFINE bucket2 == v1 \cup {"Jenkinsfile"}
             next == Manager!Goes(c, "exists")
  <2>1. Manager!Request(c, TRUE, bucket2, v2, next) /\ v3[c].at = "put"
    BY <1>3 DEF Manager!upload_from_filesystem, Manager!At
  <2>2. /\ next \in Manager!Calls /\ next.at = "exists" /\ next.files = v3[c].files
        /\ next.excused = v3[c].excused
    BY <1>1, ManagerGoes
  <2>3. /\ bucket2 \subseteq Manager!Keys /\ "Jenkinsfile" \in bucket2
        /\ "second" \in bucket2 <=> "second" \in v1
        /\ Manager!Resources \subseteq v1 => Manager!Resources \subseteq bucket2
    BY <1>1 DEF ManagerType, Manager!Keys
  <2> HIDE DEF bucket2, next
  <2>4. v1' = bucket2 /\ v2' = v2 /\ v3'[c] = next => ManagerOwn(c)'
    BY <1>1, <2>1, <2>2, <2>3
    DEF ManagerOwn, Manager!Progress, Manager!Holds, Manager!At, Manager!MayFail
  <2> QED
    BY <1>1, <1>2, <2>1, <2>2, <2>3, <2>4, ManagerRequests DEF ManagerType
<1>4. CASE Manager!delete_file(c)
  <2> DEFINE bucket2 == v1 \ {"Jenkinsfile"}
             next == Manager!Goes(c, "deleted")
  <2>1. Manager!Request(c, TRUE, bucket2, v2, next) /\ v3[c].at = "delete"
    BY <1>4 DEF Manager!delete_file, Manager!At
  <2>2. /\ next \in Manager!Calls /\ next.at = "deleted" /\ next.files = v3[c].files
        /\ next.excused = v3[c].excused
    BY <1>1, ManagerGoes
  <2>3. /\ bucket2 \subseteq Manager!Keys /\ "Jenkinsfile" \notin bucket2
        /\ "second" \in bucket2 <=> "second" \in v1
        /\ Manager!Resources \subseteq v1 => Manager!Resources \subseteq bucket2
    BY <1>1 DEF ManagerType, Manager!Keys, Manager!Resources
  <2> HIDE DEF bucket2, next
  <2>4. v1' = bucket2 /\ v2' = v2 /\ v3'[c] = next => ManagerOwn(c)'
    BY <1>1, <2>1, <2>2, <2>3
    DEF ManagerOwn, Manager!Progress, Manager!Holds, Manager!At, Manager!MayFail
  <2> QED
    BY <1>1, <1>2, <2>1, <2>2, <2>3, <2>4, ManagerRequests DEF ManagerType
<1> QED
  BY <1>3, <1>4

\* Requests that change nothing, after which the call goes on at a label.
LEMMA ManagerReads ==
  ASSUME Manager!Inv, NEW c \in Actors, ~Manager!Returned(c), NEW may \in BOOLEAN,
         NEW label \in {"ok", "put", "exists", "delete", "deleted", "gone", "fetch", "compare",
                        "deploy", "count"},
         Manager!Reads(c, may, Manager!Goes(c, label)),
         ~may => v3[c].excused \/ Manager!MayFail(c),
         /\ may /\ v1' = v1 /\ v2' = v2
         /\ v3'[c].at = label /\ v3'[c].files = v3[c].files /\ v3'[c].todo = v3[c].todo
         /\ v3'[c].excused = v3[c].excused
         => ManagerOwn(c)'
  PROVE  Manager!Inv'
<1> DEFINE next == Manager!Goes(c, label)
<1>1. ManagerType /\ v3[c] \in Manager!Calls
  BY ManagerInv DEF ManagerType
<1>2. /\ next \in Manager!Calls /\ next.at = label /\ next.files = v3[c].files
      /\ next.todo = v3[c].todo /\ next.excused = v3[c].excused
  BY <1>1, ManagerGoes
<1>3. Manager!Request(c, may, v1, v2, next)
  BY DEF Manager!Reads
<1> HIDE DEF next
<1>4. may /\ v1' = v1 /\ v2' = v2 /\ v3'[c] = next => ManagerOwn(c)'
  BY <1>2
<1> QED
  BY <1>1, <1>2, <1>3, <1>4, ManagerRequests DEF ManagerType

LEMMA ManagerExists ==
  ASSUME Manager!Inv, NEW c \in Actors, Manager!file_exists(c) PROVE Manager!Inv'
<1>1. ManagerType /\ v3[c] \in Manager!Calls /\ ManagerOwn(c)
  BY ManagerInv DEF ManagerType
<1> DEFINE there == "Jenkinsfile" \in v1
<1>2. CASE v3[c].at = "exists" /\ Manager!Reads(c, there, Manager!Goes(c, "delete"))
  <2>1. ~Manager!Returned(c) /\ (~there => v3[c].excused) /\ there \in BOOLEAN
    BY <1>1, <1>2 DEF Manager!Returned, ManagerOwn, Manager!Progress, Manager!At
  <2>2. Manager!Reads(c, there, Manager!Goes(c, "delete"))
    BY <1>2
  <2> HIDE DEF there
  <2>3. /\ v1' = v1 /\ v2' = v2
        /\ v3'[c].at = "delete" /\ v3'[c].files = v3[c].files
        /\ v3'[c].excused = v3[c].excused
        => ManagerOwn(c)'
    BY <1>1, <1>2 DEF ManagerOwn, Manager!Progress, Manager!Holds, Manager!At, Manager!MayFail
  <2> QED
    BY <2>1, <2>2, <2>3, ManagerReads
<1>3. ASSUME NEW label \in {"gone", "fetch"},
             v3[c].at = IF label = "gone" THEN "deleted" ELSE "gone",
             \/ Manager!Reads(c, ~there, Manager!Goes(c, label))
             \/ /\ v4 > 0 /\ v4' = v4 - 1 /\ Manager!Becomes(c, Manager!Goes(c, label))
                /\ v1' = v1 /\ v2' = v2
      PROVE  Manager!Inv'
  <2>1. ~Manager!Returned(c) /\ (there => v3[c].excused)
    BY <1>1, <1>3 DEF Manager!Returned, ManagerOwn, Manager!Progress, Manager!At
  <2>2. /\ v1' = v1 /\ v2' = v2
        /\ v3'[c].at = label /\ v3'[c].files = v3[c].files
        /\ v3'[c].excused = v3[c].excused
        => ManagerOwn(c)'
    BY <1>1, <1>3 DEF ManagerOwn, Manager!Progress, Manager!Holds, Manager!At, Manager!MayFail
  <2> DEFINE may == ~there
  <2>3. CASE Manager!Reads(c, may, Manager!Goes(c, label))
    <3>1. may \in BOOLEAN /\ (~may => v3[c].excused)
      BY <2>1
    <3>2. Manager!Reads(c, may, Manager!Goes(c, label))
      BY <2>3
    <3> HIDE DEF may
    <3> QED
      BY <2>1, <2>2, <3>1, <3>2, ManagerReads
  <2>4. CASE /\ v4 > 0 /\ v4' = v4 - 1 /\ Manager!Becomes(c, Manager!Goes(c, label))
             /\ v1' = v1 /\ v2' = v2
    <3> DEFINE next == Manager!Goes(c, label)
    <3>1. /\ next \in Manager!Calls /\ next.at = label /\ next.files = v3[c].files
          /\ next.excused = v3[c].excused
      BY <1>1, ManagerGoes
    <3>2. v3' = [v3 EXCEPT ![c] = next]
      BY <2>4 DEF Manager!Becomes
    <3> HIDE DEF next
    <3>3. v3'[c] = next
      BY <1>1, <3>2 DEF ManagerType
    <3>4. v4' \in 0..MaxFaults
      BY <1>1, <2>4, BoundsAssumption DEF ManagerType
    <3> QED
      BY <1>1, <2>1, <2>2, <2>4, <3>1, <3>2, <3>3, <3>4, ManagerAdvances DEF ManagerType
  <2> QED
    BY <1>3, <2>3, <2>4
<1>4. ASSUME NEW step \in {<<"deleted", "gone">>, <<"gone", "fetch">>}, v3[c].at = step[1],
             \/ Manager!Reads(c, ~there, Manager!Goes(c, step[2]))
             \/ /\ v4 > 0 /\ v4' = v4 - 1 /\ Manager!Becomes(c, Manager!Goes(c, step[2]))
                /\ v1' = v1 /\ v2' = v2
      PROVE  Manager!Inv'
  <2> HIDE DEF there
  <2>1. /\ step[2] \in {"gone", "fetch"}
        /\ step[1] = IF step[2] = "gone" THEN "deleted" ELSE "gone"
    OBVIOUS
  <2> QED
    BY <1>3, <1>4, <2>1
<1> QED
  BY <1>2, <1>4 DEF Manager!file_exists, Manager!At

\* What it has listed and not deleted itself is there to be fetched.
LEMMA ManagerFetches ==
  ASSUME Manager!Inv, NEW c \in Actors, Manager!get_raw_resource(c) PROVE Manager!Inv'
<1>1. ManagerType /\ v3[c] \in Manager!Calls /\ ManagerOwn(c) /\ Manager!Alone(c)
  BY ManagerInv DEF ManagerType
<1>2. /\ v3[c].at \in {"fetch", "compare"} /\ ~Manager!Returned(c)
  BY DEF Manager!get_raw_resource, Manager!At, Manager!Returned
<1> DEFINE there == v3[c].files.first \in v1
<1>3. there \/ v3[c].excused \/ Manager!MayFail(c)
  <2>1. \/ v3[c].excused \/ Manager!MayFail(c)
        \/ Manager!Listed(v3[c].files) = Manager!Resources /\ Manager!Resources \subseteq v1
    BY <1>1, <1>2 DEF ManagerOwn, Manager!Progress
  <2> QED
    BY <2>1 DEF Manager!Listed, Manager!Resources
<1>4. CASE v3[c].at = "fetch" /\ Manager!Reads(c, there, Manager!Goes(c, "compare"))
  <2>1. there \in BOOLEAN /\ Manager!Reads(c, there, Manager!Goes(c, "compare"))
    BY <1>4
  <2> HIDE DEF there
  <2>2. /\ v1' = v1 /\ v2' = v2
        /\ v3'[c].at = "compare" /\ v3'[c].files = v3[c].files
        /\ v3'[c].excused = v3[c].excused
        => ManagerOwn(c)'
    BY <1>1, <1>4 DEF ManagerOwn, Manager!Progress, Manager!Holds, Manager!At, Manager!MayFail
  <2> QED
    BY <1>2, <1>3, <2>1, <2>2, ManagerReads
<1>5. ASSUME v3[c].at = "compare", NEW same \in BOOLEAN,
             same \/ \E d \in Actors \ {c} : Manager!At(d, "compare"),
             Manager!Reads(c, there /\ same,
                           [Manager!Goes(c, "deploy") EXCEPT !.todo = Manager!Listed(v3[c].files)])
      PROVE  Manager!Inv'
  <2> DEFINE goes == Manager!Goes(c, "deploy")
             todo == Manager!Listed(v3[c].files)
             next == [goes EXCEPT !.todo = todo]
             may == there /\ same
  <2>1. /\ goes \in Manager!Calls /\ goes.at = "deploy" /\ goes.files = v3[c].files
        /\ goes.excused = v3[c].excused
    BY <1>1, ManagerGoes
  <2>2. may \in BOOLEAN /\ Manager!Request(c, may, v1, v2, next)
    BY <1>5 DEF Manager!Reads
  <2>3. same \/ v3[c].excused
    BY <1>1, <1>2, <1>5 DEF Manager!Alone, Manager!At, Manager!Returned
  <2>4. ~may => v3[c].excused \/ Manager!MayFail(c)
    BY <1>3, <2>3
  <2>5. todo \subseteq Manager!Keys
    BY <1>1 DEF Manager!Listed, Manager!Calls, Manager!Listings
  <2>6. todo = Manager!Listed(v3[c].files)
    OBVIOUS
  <2> HIDE DEF goes, todo, may
  <2>7. /\ next \in Manager!Calls /\ next.at = "deploy" /\ next.files = v3[c].files
        /\ next.todo = todo /\ next.excused = v3[c].excused
    BY <2>1, <2>5 DEF Manager!Calls
  <2> HIDE DEF next
  <2>8. v1' = v1 /\ v2' = v2 /\ v3'[c] = next => ManagerOwn(c)'
    BY <1>1, <1>5, <2>6, <2>7
    DEF ManagerOwn, Manager!Progress, Manager!Holds, Manager!At, Manager!MayFail
  <2> QED
    BY <1>1, <1>2, <2>2, <2>4, <2>7, <2>8, ManagerRequests DEF ManagerType
<1> QED
  BY <1>4, <1>5 DEF Manager!get_raw_resource, Manager!At

LEMMA ManagerDeploys ==
  ASSUME Manager!Inv, NEW c \in Actors, Manager!deploy_multiple_resources(c)
  PROVE  Manager!Inv'
<1>1. ManagerType /\ v3[c] \in Manager!Calls /\ ManagerOwn(c)
  BY ManagerInv DEF ManagerType
<1>2. v3[c].at = "deploy" /\ ~Manager!Returned(c)
  BY DEF Manager!deploy_multiple_resources, Manager!At, Manager!Returned
<1>3. ~v3[c].excused =>
        /\ "Jenkinsfile" \notin v1
        /\ "Jenkinsfile" \in Manager!Listed(v3[c].files) => "Jenkinsfile" \in v3[c].todo
        /\ v3[c].todo \subseteq Manager!Listed(v3[c].files)
        /\ \/ Manager!MayFail(c)
           \/ /\ Manager!Listed(v3[c].files) = Manager!Resources
              /\ Manager!Resources \subseteq v1
              /\ Manager!Resources \subseteq v2 \cup v3[c].todo
  BY <1>1, <1>2 DEF ManagerOwn, Manager!Progress, Manager!At
<1>4. CASE v3[c].todo = {} /\ Manager!Reads(c, TRUE, Manager!Goes(c, "count"))
  <2>1. ~v3[c].excused =>
          /\ "Jenkinsfile" \notin Manager!Listed(v3[c].files)
          /\ Manager!MayFail(c) \/ v2 = Manager!Resources
    BY <1>1, <1>3, <1>4 DEF ManagerType, Manager!Keys, Manager!MayFail
  <2>2. /\ v1' = v1 /\ v2' = v2
        /\ v3'[c].at = "count" /\ v3'[c].files = v3[c].files
        /\ v3'[c].excused = v3[c].excused
        => ManagerOwn(c)'
    BY <2>1 DEF ManagerOwn, Manager!Progress, Manager!Holds, Manager!At, Manager!MayFail
  <2> QED
    BY <1>2, <1>4, <2>2, ManagerReads
<1>5. ASSUME NEW k \in v3[c].todo,
             Manager!Request(c, k \in v1, v1, v2 \cup {k}, [v3[c] EXCEPT !.todo = @ \ {k}])
      PROVE  Manager!Inv'
  <2> DEFINE todo == v3[c].todo \ {k}
             next == [v3[c] EXCEPT !.todo = todo]
             may == k \in v1
             deployed2 == v2 \cup {k}
  <2>1. may \in BOOLEAN /\ Manager!Request(c, may, v1, deployed2, next)
    BY <1>5
  <2>2. todo \subseteq Manager!Keys /\ k \in Manager!Keys
    BY <1>1 DEF Manager!Calls
  <2>3. ~may => v3[c].excused \/ Manager!MayFail(c)
    BY <1>3
  <2>4. may /\ ~v3[c].excused =>
          /\ "Jenkinsfile" \notin v1
          /\ "Jenkinsfile" \in Manager!Listed(v3[c].files) => "Jenkinsfile" \in todo
          /\ todo \subseteq Manager!Listed(v3[c].files)
          /\ \/ Manager!MayFail(c)
             \/ /\ Manager!Listed(v3[c].files) = Manager!Resources
                /\ Manager!Resources \subseteq v1
                /\ Manager!Resources \subseteq deployed2 \cup todo
    BY <1>3
  <2>5. v2 \subseteq deployed2 /\ deployed2 \subseteq Manager!Keys
    BY <1>1, <2>2 DEF ManagerType
  <2> HIDE DEF todo, may, deployed2
  <2>6. /\ next \in Manager!Calls /\ next.at = "deploy" /\ next.files = v3[c].files
        /\ next.todo = todo /\ next.excused = v3[c].excused
    BY <1>1, <1>2, <2>2 DEF Manager!Calls
  <2> HIDE DEF next
  <2>7. may /\ v1' = v1 /\ v2' = deployed2 /\ v3'[c] = next => ManagerOwn(c)'
    BY <2>4, <2>5, <2>6
    DEF ManagerOwn, Manager!Progress, Manager!Holds, Manager!At, Manager!MayFail
  <2> QED
    BY <1>1, <1>2, <2>1, <2>3, <2>5, <2>6, <2>7, ManagerRequests DEF ManagerType
<1> QED
  BY <1>4, <1>5 DEF Manager!deploy_multiple_resources

LEMMA ManagerCounts ==
  ASSUME Manager!Inv, NEW c \in Actors, Manager!CountDeployed(c) PROVE Manager!Inv'
<1>1. ManagerType /\ v3[c] \in Manager!Calls /\ ManagerOwn(c)
  BY ManagerInv DEF ManagerType
<1>2. v3[c].at = "count" /\ ~Manager!Returned(c)
  BY DEF Manager!CountDeployed, Manager!At, Manager!Returned
<1> DEFINE may == \E k, l \in v2 : k # l /\ v2 = {k, l}
<1>3. may \in BOOLEAN /\ Manager!Reads(c, may, Manager!Goes(c, "ok"))
  BY DEF Manager!CountDeployed
<1>4. ~v3[c].excused =>
        /\ "Jenkinsfile" \notin Manager!Listed(v3[c].files)
        /\ Manager!MayFail(c) \/ v2 = Manager!Resources
  BY <1>1, <1>2 DEF ManagerOwn, Manager!Progress, Manager!At
<1>5. v2 = Manager!Resources => may
  BY DEF Manager!Resources
<1> HIDE DEF may
<1>6. /\ v3'[c].at = "ok" /\ v3'[c].files = v3[c].files /\ v3'[c].excused = v3[c].excused
      => ManagerOwn(c)'
  BY <1>4 DEF ManagerOwn, Manager!Progress, Manager!Holds, Manager!At
<1> QED
  BY <1>2, <1>3, <1>4, <1>5, <1>6, ManagerReads

LEMMA ManagerAlways == Spec => [](focus = "manager" => Manager!Inv)
<1> DEFINE Holds == focus = "manager" => Manager!Inv
<1>1. Init => Holds
  BY ManagerInit DEF Init
<1>2. Holds /\ [Next]_vars => Holds'
  <2>1. ASSUME Manager!Inv, Manager!Next PROVE Manager!Inv'
    BY <2>1, ManagerBegins, ManagerLists, ManagerPuts, ManagerExists, ManagerFetches,
       ManagerDeploys, ManagerCounts DEF Manager!Next
  <2>2. ASSUME Manager!Inv, UNCHANGED vars PROVE Manager!Inv'
    BY <2>2 DEF vars, Manager!Inv, Manager!TypeOK, Manager!Alone, Manager!Progress,
       Manager!Holds, Manager!At, Manager!Returned, Manager!MayFail
  <2>3. ASSUME Holds, Next PROVE Holds'
    BY <2>1, <2>3 DEF Next
  <2>4. ASSUME Holds, UNCHANGED vars PROVE Holds'
    BY <2>2, <2>4 DEF vars
  <2> QED
    BY <2>3, <2>4
<1> QED
  BY <1>1, <1>2, PTL DEF Spec

\* What was uploaded, files or a resource, is there; the check of Seaweed does not fail
\* because of what an earlier one has left, and that of the resource manager for no cause
\* but the known ones: for any clients, files and failing requests.
THEOREM UploadsAndChecksAreSound == Spec => []UploadsAndChecksHold
<1> DEFINE Stored == focus = "s3" => S3!Inv
           Managed == focus = "manager" => Manager!Inv
<1>1. Stored /\ Managed => UploadsAndChecksHold
  BY DEF UploadsAndChecksHold, S3!Inv, S3!UploadsAndChecksHold, Manager!Inv,
         Manager!ChecksFailForCause
<1> QED
  BY <1>1, S3Always, ManagerAlways, PTL

-----------------------------------------------------------------------------
(* Memsql.                                                                 *)

\* A pipeline, a call, and what the calls have to hold of the server.
MemsqlPipe == [running : BOOLEAN, earliest : BOOLEAN, cursors : SUBSET Things]

MemsqlServer(node, pipe, full, tables) ==
  /\ node \in {"down", "starting", "up"}
  /\ pipe \in MemsqlPipe
  /\ full \subseteq tables /\ tables \subseteq {"table"}

MemsqlRest == v5 \in [Actors -> Memsql!Calls] /\ v6 \in 0..MaxFaults

MemsqlCallOk(c) == Memsql!LabelsOf(c) /\ Memsql!Progress(c) /\ Memsql!Undisturbed(c)

LEMMA MemsqlInv ==
  Memsql!Inv <=> /\ MemsqlServer(v1, v2, v3, v4) /\ MemsqlRest
                 /\ \A c \in Actors : MemsqlCallOk(c)
                 /\ \A c, d \in Actors : c = d \/ Memsql!Apart(c, d)
BY DEF Memsql!Inv, Memsql!TypeOK, MemsqlServer, MemsqlPipe, MemsqlRest, MemsqlCallOk

LEMMA MemsqlInvPrimed ==
  Memsql!Inv' <=> (/\ MemsqlServer(v1, v2, v3, v4) /\ MemsqlRest
                   /\ \A c \in Actors : MemsqlCallOk(c)
                   /\ \A c, d \in Actors : c = d \/ Memsql!Apart(c, d))'
BY MemsqlInv, PTL

LEMMA MemsqlInit == Memsql!Init => Memsql!Inv
<1> SUFFICES ASSUME Memsql!Init PROVE Memsql!Inv
  OBVIOUS
<1> DEFINE none == [op |-> "none", at |-> "ok", list |-> {}, since |-> {}, excused |-> FALSE]
           pipe == [running |-> TRUE, earliest |-> FALSE, cursors |-> {}]
<1>1. none \in Memsql!Calls /\ pipe \in MemsqlPipe
  BY DEF Memsql!Calls, MemsqlPipe
<1>2. MemsqlServer(v1, v2, v3, v4)
  BY <1>1 DEF Memsql!Init, MemsqlServer
<1>3. MemsqlRest
  BY <1>1, BoundsAssumption DEF Memsql!Init, MemsqlRest
<1>4. \A c \in Actors : v5[c] = none
  BY DEF Memsql!Init
<1>5. ASSUME NEW c \in Actors PROVE MemsqlCallOk(c) /\ Memsql!Returned(c)
  BY <1>4 DEF MemsqlCallOk, Memsql!LabelsOf, Memsql!Progress, Memsql!Undisturbed, Memsql!At,
     Memsql!Returned
<1>6. \A c, d \in Actors : Memsql!Apart(c, d)
  BY <1>5 DEF Memsql!Apart
<1> QED
  BY <1>2, <1>3, <1>5, <1>6, MemsqlInv

\* A step of a call under way: the other calls keep what they have to hold.
LEMMA MemsqlStep ==
  ASSUME Memsql!Inv, NEW c \in Actors, ~Memsql!Returned(c), NEW r \in Memsql!Calls,
         v5' = [v5 EXCEPT ![c] = r], v5[c].excused => r.excused,
         MemsqlServer(v1, v2, v3, v4)', v6' \in 0..MaxFaults,
         v2'.cursors \subseteq v2.cursors, v2.earliest => v2'.earliest, v3' \subseteq v3,
         MemsqlCallOk(c)'
  PROVE  Memsql!Inv'
<1>1. /\ MemsqlServer(v1, v2, v3, v4) /\ MemsqlRest
      /\ \A d \in Actors : MemsqlCallOk(d)
      /\ \A d, e \in Actors : d = e \/ Memsql!Apart(d, e)
  BY MemsqlInv
<1>2. MemsqlRest'
  BY <1>1 DEF MemsqlRest
<1>3. v5'[c] = r /\ \A d \in Actors : d # c => v5'[d] = v5[d]
  BY <1>1 DEF MemsqlRest
<1>4. ASSUME NEW d \in Actors, d # c PROVE MemsqlCallOk(d)'
  <2>1. MemsqlCallOk(d) /\ v5'[d] = v5[d]
    BY <1>1, <1>3, <1>4
  <2>2. Memsql!LabelsOf(d)' /\ Memsql!Progress(d)'
    BY <2>1 DEF MemsqlCallOk, Memsql!LabelsOf, Memsql!Progress, Memsql!At
  <2>3. Memsql!Returned(d) \/ v5[d].excused
    BY <1>1, <1>4 DEF Memsql!Apart
  <2>4. Memsql!Undisturbed(d)'
    BY <2>1, <2>3 DEF MemsqlCallOk, Memsql!Undisturbed, Memsql!At, Memsql!Returned
  <2> QED
    BY <2>2, <2>4 DEF MemsqlCallOk
<1>5. ASSUME NEW d \in Actors, NEW e \in Actors, d # e PROVE Memsql!Apart(d, e)'
  <2>1. Memsql!Apart(d, e)
    BY <1>1, <1>5
  <2> QED
    BY <1>3, <2>1 DEF Memsql!Apart, Memsql!Returned
<1>6. \A d \in Actors : MemsqlCallOk(d)'
  BY <1>4
<1> QED
  BY <1>2, <1>5, <1>6, MemsqlInvPrimed

\* A call that raises has a reason, or is no reset.
LEMMA MemsqlRaise ==
  ASSUME Memsql!Inv, NEW c \in Actors, ~Memsql!Returned(c), NEW why \in BOOLEAN,
         Memsql!Raise(c, why),
         v5[c].op = "reset_pipeline" => why \/ v5[c].excused,
         MemsqlServer(v1, v2, v3, v4)', v6' \in 0..MaxFaults,
         v2'.cursors \subseteq v2.cursors, v2.earliest => v2'.earliest, v3' \subseteq v3
  PROVE  Memsql!Inv'
<1> DEFINE r == [v5[c] EXCEPT !.at = "raised", !.list = {}, !.since = {},
                              !.excused = @ \/ why]
<1>1. v5 \in [Actors -> Memsql!Calls]
  BY MemsqlInv DEF MemsqlRest
<1>2. v5[c] \in Memsql!Calls
  BY <1>1
<1>3. r \in Memsql!Calls /\ r.op = v5[c].op /\ r.at = "raised"
  BY <1>2 DEF Memsql!Calls
<1>4. r.excused = (v5[c].excused \/ why)
  BY <1>2 DEF Memsql!Calls
<1>5. v5' = [v5 EXCEPT ![c] = r]
  BY <1>1 DEF Memsql!Raise
<1> HIDE DEF r
<1>6. v5'[c] = r
  BY <1>1, <1>5
<1>7. MemsqlCallOk(c)'
  BY <1>3, <1>4, <1>6 DEF MemsqlCallOk, Memsql!LabelsOf, Memsql!Progress, Memsql!Undisturbed,
     Memsql!At
<1>8. v5[c].excused => r.excused
  BY <1>4
<1> QED
  BY <1>3, <1>5, <1>7, <1>8, MemsqlStep

\* A call that goes on.
LEMMA MemsqlGoto ==
  ASSUME Memsql!Inv, NEW c \in Actors,
         NEW next \in {"ok", "offsets", "list", "drop", "start", "ready"}, Memsql!Goto(c, next)
  PROVE  \E r \in Memsql!Calls :
           /\ v5' = [v5 EXCEPT ![c] = r] /\ v5'[c] = r
           /\ r.op = v5[c].op /\ r.at = next /\ r.since = v5[c].since
           /\ r.excused = v5[c].excused
           /\ r.list = IF next = "ok" THEN {} ELSE v5[c].list
<1> DEFINE r == [v5[c] EXCEPT !.at = next, !.list = IF next = "ok" THEN {} ELSE @]
<1>1. v5 \in [Actors -> Memsql!Calls]
  BY MemsqlInv DEF MemsqlRest
<1>2. v5[c] \in Memsql!Calls
  BY <1>1
<1>3. /\ r \in Memsql!Calls
      /\ r.op = v5[c].op /\ r.at = next /\ r.since = v5[c].since
      /\ r.excused = v5[c].excused
      /\ r.list = IF next = "ok" THEN {} ELSE v5[c].list
  BY <1>2 DEF Memsql!Calls
<1>4. v5' = [v5 EXCEPT ![c] = r]
  BY <1>1 DEF Memsql!Goto
<1> HIDE DEF r
<1>5. v5'[c] = r
  BY <1>1, <1>4
<1> QED
  BY <1>3, <1>4, <1>5

\* What is left to show of a statement is what it does when its answer arrives.
LEMMA MemsqlExecuted ==
  ASSUME Memsql!Inv, NEW c \in Actors, ~Memsql!Returned(c), NEW p \in MemsqlPipe, NEW full,
         NEW next \in {"ok", "offsets", "list", "drop", "start", "ready"},
         Memsql!Executed(c, p, full, next),
         p.cursors \subseteq v2.cursors, v2.earliest => p.earliest, full \subseteq v3,
         v2' = p /\ v3' = full /\ v5'[c].op = v5[c].op /\ v5'[c].at = next
           /\ v5'[c].since = v5[c].since /\ v5'[c].excused = v5[c].excused
           /\ v5'[c].list = (IF next = "ok" THEN {} ELSE v5[c].list) => MemsqlCallOk(c)'
  PROVE  Memsql!Inv'
<1>1. MemsqlServer(v1, v2, v3, v4) /\ MemsqlRest
  BY MemsqlInv
<1>2. v1' = v1 /\ v2' = p /\ v3' = full /\ v4' = v4
  BY DEF Memsql!Executed
<1>3. MemsqlServer(v1, v2, v3, v4)'
  BY <1>1, <1>2 DEF MemsqlServer
<1>4. CASE Memsql!Goto(c, next) /\ v6' = v6
  <2>1. PICK r \in Memsql!Calls :
          /\ v5' = [v5 EXCEPT ![c] = r] /\ v5'[c] = r
          /\ r.op = v5[c].op /\ r.at = next /\ r.since = v5[c].since
          /\ r.excused = v5[c].excused
          /\ r.list = IF next = "ok" THEN {} ELSE v5[c].list
    BY <1>4, MemsqlGoto
  <2>2. MemsqlCallOk(c)'
    BY <1>2, <2>1
  <2>3. v6' \in 0..MaxFaults
    BY <1>1, <1>4 DEF MemsqlRest
  <2> QED
    BY <1>2, <1>3, <2>1, <2>2, <2>3, MemsqlStep
<1>5. CASE Memsql!Fault /\ Memsql!Raise(c, TRUE)
  <2>1. v6' \in 0..MaxFaults
    BY <1>1, <1>5, BoundsAssumption DEF MemsqlRest, Memsql!Fault
  <2> QED
    BY <1>2, <1>3, <1>5, <2>1, MemsqlRaise
<1> QED
  BY <1>4, <1>5 DEF Memsql!Executed

\* A statement that is refused although nothing disturbed the call is no statement of a reset.
LEMMA MemsqlRefused ==
  ASSUME Memsql!Inv, NEW c \in Actors, ~Memsql!Returned(c), NEW refuses,
         Memsql!Refused(c, refuses),
         refuses /\ v5[c].op = "reset_pipeline" => v5[c].excused
  PROVE  Memsql!Inv'
<1>1. MemsqlServer(v1, v2, v3, v4) /\ MemsqlRest
  BY MemsqlInv
<1>2. v1' = v1 /\ v2' = v2 /\ v3' = v3 /\ v4' = v4
  BY DEF Memsql!Refused
<1>3. MemsqlServer(v1, v2, v3, v4)'
  BY <1>1, <1>2 DEF MemsqlServer
<1>4. v6' \in 0..MaxFaults
  <2>1. v6' = v6 \/ (v6 > 0 /\ v6' = v6 - 1)
    BY DEF Memsql!Refused, Memsql!Fault
  <2> QED
    BY <1>1, <2>1, BoundsAssumption DEF MemsqlRest
<1>5. CASE Memsql!Raise(c, TRUE)
  BY <1>2, <1>3, <1>4, <1>5, MemsqlRaise
<1>6. CASE refuses /\ Memsql!Raise(c, FALSE)
  BY <1>2, <1>3, <1>4, <1>6, MemsqlRaise
<1> QED
  BY <1>5, <1>6 DEF Memsql!Refused

\* A row or a position is new: the calls that began before it have it in since.
LEMMA MemsqlHappened ==
  ASSUME Memsql!Inv, NEW x \in Things \cup {"table"}, NEW op, Memsql!Happened(x, op),
         MemsqlServer(v1, v2, v3, v4)', v6' = v6, v2'.earliest = v2.earliest,
         v2'.running = v2.running, v2.cursors \subseteq v2'.cursors,
         v2'.cursors \subseteq IF op = "reset_pipeline" THEN v2.cursors \cup {x} ELSE v2.cursors,
         v3' \subseteq IF op = "truncate_all" THEN v3 \cup {x} ELSE v3
  PROVE  Memsql!Inv'
<1>1. /\ MemsqlRest
      /\ \A d \in Actors : MemsqlCallOk(d)
      /\ \A d, e \in Actors : d = e \/ Memsql!Apart(d, e)
  BY MemsqlInv
<1> DEFINE more(d) == v5[d].op = op /\ v5[d].at # "raised"
           next(d) == [v5[d] EXCEPT !.since = IF more(d) THEN @ \cup {x} ELSE @]
<1>2. v5' = [d \in Actors |-> next(d)]
  BY DEF Memsql!Happened
<1>3. ASSUME NEW d \in Actors
      PROVE  /\ v5'[d] \in Memsql!Calls
             /\ v5'[d].op = v5[d].op /\ v5'[d].at = v5[d].at /\ v5'[d].list = v5[d].list
             /\ v5'[d].excused = v5[d].excused
             /\ v5'[d].since = IF more(d) THEN v5[d].since \cup {x} ELSE v5[d].since
  <2>1. v5[d] \in Memsql!Calls
    BY <1>1 DEF MemsqlRest
  <2>2. v5'[d] = next(d)
    BY <1>2
  <2> QED
    BY <2>1, <2>2 DEF Memsql!Calls
<1>4. MemsqlRest'
  <2>1. v5' \in [Actors -> Memsql!Calls]
    BY <1>2, <1>3
  <2> QED
    BY <1>1, <2>1 DEF MemsqlRest
<1>5. ASSUME NEW d \in Actors PROVE MemsqlCallOk(d)'
  <2>1. MemsqlCallOk(d)
    BY <1>1
  <2>2. Memsql!LabelsOf(d)' /\ Memsql!Undisturbed(d)'
    BY <1>3, <2>1 DEF MemsqlCallOk, Memsql!LabelsOf, Memsql!Undisturbed, Memsql!At
  <2>3. Memsql!Progress(d)'
    <3>1. v5[d].since \subseteq v5'[d].since /\ (more(d) => x \in v5'[d].since)
      BY <1>3
    <3>2. (v5[d].op = "reset_pipeline" /\ v5[d].at # "raised") =>
            v2'.cursors \subseteq v2.cursors \cup v5'[d].since
      BY <3>1
    <3>3. (v5[d].op = "truncate_all" /\ v5[d].at # "raised") =>
            v3' \subseteq v3 \cup v5'[d].since
      BY <3>1
    <3> HIDE DEF more
    <3> QED
      BY <1>3, <2>1, <3>1, <3>2, <3>3 DEF MemsqlCallOk, Memsql!Progress, Memsql!At
  <2> QED
    BY <2>2, <2>3 DEF MemsqlCallOk
<1>6. ASSUME NEW d \in Actors, NEW e \in Actors, d # e PROVE Memsql!Apart(d, e)'
  BY <1>1, <1>3, <1>6 DEF Memsql!Apart, Memsql!Returned
<1> QED
  BY <1>4, <1>5, <1>6, MemsqlInvPrimed

LEMMA MemsqlLoad ==
  ASSUME Memsql!Inv, NEW k \in Things, Memsql!Load(k) PROVE Memsql!Inv'
<1>1. MemsqlServer(v1, v2, v3, v4)
  BY MemsqlInv
<1>2. /\ v2' = [v2 EXCEPT !.cursors = @ \cup {k}]
      /\ Memsql!Happened(k, "reset_pipeline")
      /\ v1' = v1 /\ v3' = v3 /\ v4' = v4 /\ v6' = v6
  BY DEF Memsql!Load
<1>3. /\ v2' \in MemsqlPipe
      /\ v2'.running = v2.running /\ v2'.earliest = v2.earliest
      /\ v2'.cursors = v2.cursors \cup {k}
  BY <1>1, <1>2 DEF MemsqlServer, MemsqlPipe
<1>4. MemsqlServer(v1, v2, v3, v4)'
  BY <1>1, <1>2, <1>3 DEF MemsqlServer
<1> QED
  BY <1>2, <1>3, <1>4, MemsqlHappened

LEMMA MemsqlInsert == ASSUME Memsql!Inv, Memsql!Insert("table") PROVE Memsql!Inv'
<1>1. MemsqlServer(v1, v2, v3, v4)
  BY MemsqlInv
<1>2. /\ v3' = v3 \cup {"table"} /\ v4' = v4 \cup {"table"}
      /\ Memsql!Happened("table", "truncate_all")
      /\ v1' = v1 /\ v2' = v2 /\ v6' = v6
  BY DEF Memsql!Insert
<1>3. MemsqlServer(v1, v2, v3, v4)'
  BY <1>1, <1>2 DEF MemsqlServer
<1> QED
  BY <1>2, <1>3, MemsqlHappened

\* The calls are as they were, and the tables at most lose rows.
LEMMA MemsqlStill ==
  ASSUME Memsql!Inv, MemsqlServer(v1, v2, v3, v4)', v2' = v2, v3' \subseteq v3, v5' = v5,
         v6' = v6
  PROVE  Memsql!Inv'
<1>1. /\ MemsqlRest
      /\ \A d \in Actors : MemsqlCallOk(d)
      /\ \A d, e \in Actors : d = e \/ Memsql!Apart(d, e)
  BY MemsqlInv
<1>2. MemsqlRest'
  BY <1>1 DEF MemsqlRest
<1>3. \A d \in Actors : MemsqlCallOk(d)'
  BY <1>1 DEF MemsqlCallOk, Memsql!LabelsOf, Memsql!Progress, Memsql!Undisturbed, Memsql!At
<1>4. \A d, e \in Actors : d = e \/ Memsql!Apart(d, e)'
  BY <1>1 DEF Memsql!Apart, Memsql!Returned
<1> QED
  BY <1>2, <1>3, <1>4, MemsqlInvPrimed

LEMMA MemsqlWorld ==
  ASSUME Memsql!Inv, Memsql!Online \/ Memsql!DropTable("table") \/ UNCHANGED vars
  PROVE  Memsql!Inv'
<1>1. MemsqlServer(v1, v2, v3, v4)
  BY MemsqlInv
<1>2. /\ v2' = v2 /\ v5' = v5 /\ v6' = v6
      /\ v1' \in {v1, "up"} /\ v3' \subseteq v3
      /\ v3' \subseteq v4' /\ v4' \subseteq {"table"}
  BY <1>1 DEF MemsqlServer, Memsql!Online, Memsql!DropTable, vars
<1>3. MemsqlServer(v1, v2, v3, v4)'
  BY <1>1, <1>2 DEF MemsqlServer
<1> QED
  BY <1>2, <1>3, MemsqlStill

\* A call begins: it is disturbed, and disturbs the others, unless it is alone.
LEMMA MemsqlBegin ==
  ASSUME Memsql!Inv, NEW c \in Actors, NEW op, NEW label, Memsql!Begin(c, op, label),
         \/ op = "reset_pipeline" /\ label = "stop"
         \/ op = "delete_partitions" /\ label = "list"
         \/ op = "truncate_all" /\ label = "tables"
         \/ op \in {"start_service", "stop_service"} /\ label = "docker"
         \/ op = "ping" /\ label = "ready"
  PROVE  Memsql!Inv'
<1>1. /\ MemsqlServer(v1, v2, v3, v4) /\ MemsqlRest
      /\ \A d \in Actors : MemsqlCallOk(d)
      /\ \A d, e \in Actors : d = e \/ Memsql!Apart(d, e)
  BY MemsqlInv
<1> DEFINE alone == \A d \in Actors \ {c} : Memsql!Returned(d)
           new == [op |-> op, at |-> label, list |-> {}, since |-> {}, excused |-> ~alone]
           old(d) == [v5[d] EXCEPT !.excused = @ \/ ~Memsql!Returned(d)]
<1>2. /\ v5' = [d \in Actors |-> IF d = c THEN new ELSE old(d)]
      /\ v1' = v1 /\ v2' = v2 /\ v3' = v3 /\ v4' = v4 /\ v6' = v6
  BY DEF Memsql!Begin
<1>3. new \in Memsql!Calls
  BY DEF Memsql!Calls
<1>4. /\ v5'[c].op = op /\ v5'[c].at = label /\ v5'[c].excused = ~alone
  BY <1>2
<1>5. ASSUME NEW d \in Actors, d # c
      PROVE  /\ v5'[d] \in Memsql!Calls
             /\ v5'[d].op = v5[d].op /\ v5'[d].at = v5[d].at /\ v5'[d].list = v5[d].list
             /\ v5'[d].since = v5[d].since
             /\ v5'[d].excused = (v5[d].excused \/ ~Memsql!Returned(d))
  <2>1. v5[d] \in Memsql!Calls
    BY <1>1 DEF MemsqlRest
  <2>2. v5'[d] = old(d)
    BY <1>2, <1>5
  <2> QED
    BY <2>1, <2>2 DEF Memsql!Calls, Memsql!Returned
<1>6. MemsqlRest'
  <2>1. v5' \in [Actors -> Memsql!Calls]
    BY <1>2, <1>3, <1>5
  <2> QED
    BY <1>1, <1>2, <2>1 DEF MemsqlRest
<1>7. MemsqlServer(v1, v2, v3, v4)'
  BY <1>1, <1>2 DEF MemsqlServer
<1>8. MemsqlCallOk(c)'
  BY <1>4 DEF MemsqlCallOk, Memsql!LabelsOf, Memsql!Progress, Memsql!Undisturbed, Memsql!At
<1>9. ASSUME NEW d \in Actors, d # c PROVE MemsqlCallOk(d)'
  <2>1. MemsqlCallOk(d)
    BY <1>1
  <2>2. v5[d].excused => v5'[d].excused
    BY <1>5, <1>9
  <2>3. Memsql!LabelsOf(d)' /\ Memsql!Progress(d)'
    BY <1>2, <1>5, <1>9, <2>1 DEF MemsqlCallOk, Memsql!LabelsOf, Memsql!Progress, Memsql!At
  <2>4. Memsql!Undisturbed(d)'
    BY <1>2, <1>5, <1>9, <2>1, <2>2 DEF MemsqlCallOk, Memsql!Undisturbed, Memsql!At
  <2> QED
    BY <2>3, <2>4 DEF MemsqlCallOk
<1>10. ASSUME NEW d \in Actors, NEW e \in Actors, d # e PROVE Memsql!Apart(d, e)'
  <2>1. CASE d = c
    <3>1. e \in Actors \ {c}
      BY <1>10, <2>1
    <3>2. Memsql!Returned(e)' = Memsql!Returned(e)
      BY <1>5, <3>1 DEF Memsql!Returned
    <3>3. alone => Memsql!Returned(e)
      BY <3>1
    <3> QED
      BY <1>4, <2>1, <3>2, <3>3 DEF Memsql!Apart
  <2>2. CASE d # c
    BY <1>5, <2>2 DEF Memsql!Apart, Memsql!Returned
  <2> QED
    BY <2>1, <2>2
<1> QED
  BY <1>6, <1>7, <1>8, <1>9, <1>10, MemsqlInvPrimed

LEMMA MemsqlStopPipeline ==
  ASSUME Memsql!Inv, NEW c \in Actors, Memsql!StopPipeline(c) PROVE Memsql!Inv'
<1> DEFINE p == [v2 EXCEPT !.running = FALSE]
<1>1. v2 \in MemsqlPipe /\ MemsqlCallOk(c)
  BY MemsqlInv DEF MemsqlServer
<1>2. /\ p \in MemsqlPipe /\ ~p.running
      /\ p.earliest = v2.earliest /\ p.cursors = v2.cursors
  BY <1>1 DEF MemsqlPipe
<1>3. v5[c].at = "stop" /\ ~Memsql!Returned(c)
  BY DEF Memsql!StopPipeline, Memsql!At, Memsql!Returned
<1>4. Memsql!Executed(c, p, v3, "offsets") \/ Memsql!Refused(c, FALSE)
  BY DEF Memsql!StopPipeline
<1> HIDE DEF p
<1>5. ASSUME v2' = p, v3' = v3, v5'[c].op = v5[c].op, v5'[c].at = "offsets"
      PROVE  MemsqlCallOk(c)'
  BY <1>1, <1>2, <1>3, <1>5 DEF MemsqlCallOk, Memsql!LabelsOf, Memsql!Progress,
     Memsql!Undisturbed, Memsql!At
<1> QED
  BY <1>2, <1>3, <1>4, <1>5, MemsqlExecuted, MemsqlRefused

LEMMA MemsqlOffsets ==
  ASSUME Memsql!Inv, NEW c \in Actors, Memsql!SetOffsetsEarliest(c) PROVE Memsql!Inv'
<1> DEFINE p == [v2 EXCEPT !.earliest = TRUE]
<1>1. v2 \in MemsqlPipe /\ MemsqlCallOk(c)
  BY MemsqlInv DEF MemsqlServer
<1>2. /\ p \in MemsqlPipe /\ p.earliest
      /\ p.running = v2.running /\ p.cursors = v2.cursors
  BY <1>1 DEF MemsqlPipe
<1>3. v5[c].at = "offsets" /\ ~Memsql!Returned(c)
  BY DEF Memsql!SetOffsetsEarliest, Memsql!At, Memsql!Returned
<1>4. \/ ~v2.running /\ Memsql!Executed(c, p, v3, "list")
      \/ Memsql!Refused(c, v2.running)
  BY DEF Memsql!SetOffsetsEarliest
<1> HIDE DEF p
<1>5. v5[c].op = "reset_pipeline" /\ (v2.running => v5[c].excused)
  BY <1>1, <1>3 DEF MemsqlCallOk, Memsql!LabelsOf, Memsql!Undisturbed
<1>6. ASSUME ~v2.running, v2' = p, v3' = v3, v5'[c].op = v5[c].op, v5'[c].at = "list"
      PROVE  MemsqlCallOk(c)'
  BY <1>1, <1>2, <1>5, <1>6 DEF MemsqlCallOk, Memsql!LabelsOf, Memsql!Progress,
     Memsql!Undisturbed, Memsql!At
<1> QED
  BY <1>2, <1>3, <1>4, <1>5, <1>6, MemsqlExecuted, MemsqlRefused

LEMMA MemsqlList ==
  ASSUME Memsql!Inv, NEW c \in Actors, Memsql!GetPartitions(c) PROVE Memsql!Inv'
<1>1. MemsqlServer(v1, v2, v3, v4) /\ MemsqlRest /\ MemsqlCallOk(c) /\ v2.cursors \subseteq Things
  BY MemsqlInv DEF MemsqlServer, MemsqlPipe
<1>2. v5[c].at = "list" /\ ~Memsql!Returned(c)
  BY DEF Memsql!GetPartitions, Memsql!At, Memsql!Returned
<1>3. v5[c].op \in {"reset_pipeline", "delete_partitions"}
  BY <1>1, <1>2 DEF MemsqlCallOk, Memsql!LabelsOf
<1> DEFINE next == IF v2.cursors = {} THEN Memsql!Dropped(c) ELSE "drop"
           r == [v5[c] EXCEPT !.list = v2.cursors, !.at = next]
<1>4. CASE /\ v5' = [v5 EXCEPT ![c].list = v2.cursors, ![c].at = next]
           /\ v1' = v1 /\ v2' = v2 /\ v3' = v3 /\ v4' = v4 /\ v6' = v6
  <2>1. /\ next \in {"drop", "start", "ok"}
        /\ next = "start" => v5[c].op = "reset_pipeline"
        /\ next = "ok" => v5[c].op # "reset_pipeline"
        /\ next # "drop" => v2.cursors = {}
    BY DEF Memsql!Dropped
  <2>2. v5[c] \in Memsql!Calls
    BY <1>1 DEF MemsqlRest
  <2> HIDE DEF next
  <2>3. /\ r \in Memsql!Calls /\ r.op = v5[c].op /\ r.at = next /\ r.list = v2.cursors
        /\ r.since = v5[c].since /\ r.excused = v5[c].excused
    BY <1>1, <2>1, <2>2 DEF Memsql!Calls
  <2>4. v5' = [v5 EXCEPT ![c] = r]
    BY <1>1, <1>4 DEF MemsqlRest
  <2> HIDE DEF r
  <2>5. v5'[c] = r
    BY <1>1, <2>4 DEF MemsqlRest
  <2>6. MemsqlCallOk(c)'
    BY <1>1, <1>2, <1>3, <1>4, <2>1, <2>3, <2>5 DEF MemsqlCallOk, Memsql!LabelsOf,
       Memsql!Progress, Memsql!Undisturbed, Memsql!At
  <2>7. MemsqlServer(v1, v2, v3, v4)' /\ v6' \in 0..MaxFaults
    BY <1>1, <1>4 DEF MemsqlServer, MemsqlRest
  <2> QED
    BY <1>2, <1>4, <2>3, <2>4, <2>6, <2>7, MemsqlStep
<1>5. CASE Memsql!Refused(c, FALSE)
  BY <1>2, <1>5, MemsqlRefused
<1> QED
  BY <1>4, <1>5 DEF Memsql!GetPartitions

LEMMA MemsqlDrop ==
  ASSUME Memsql!Inv, NEW c \in Actors, Memsql!DropPartitions(c) PROVE Memsql!Inv'
<1> DEFINE p == [v2 EXCEPT !.cursors = @ \ v5[c].list]
           next == Memsql!Dropped(c)
<1>1. MemsqlServer(v1, v2, v3, v4) /\ MemsqlRest /\ MemsqlCallOk(c) /\ v2 \in MemsqlPipe
  BY MemsqlInv DEF MemsqlServer
<1>2. /\ p \in MemsqlPipe /\ p.cursors = v2.cursors \ v5[c].list
      /\ p.running = v2.running /\ p.earliest = v2.earliest
  BY <1>1 DEF MemsqlPipe
<1>3. v5[c].at = "drop" /\ ~Memsql!Returned(c)
  BY DEF Memsql!DropPartitions, Memsql!At, Memsql!Returned
<1>4. /\ next \in {"start", "ok"}
      /\ next = "start" <=> v5[c].op = "reset_pipeline"
  BY DEF Memsql!Dropped
<1>5. \/ ~v2.running /\ Memsql!Executed(c, p, v3, next)
      \/ /\ ~v2.running /\ ~(v5[c].list \subseteq v2.cursors)
         /\ \E done \in SUBSET v5[c].list : v2' = [v2 EXCEPT !.cursors = @ \ done]
         /\ Memsql!Raise(c, FALSE)
         /\ v1' = v1 /\ v3' = v3 /\ v4' = v4 /\ v6' = v6
      \/ Memsql!Refused(c, v2.running)
  BY DEF Memsql!DropPartitions
<1> HIDE DEF p, next
<1>6. /\ v5[c].op \in {"reset_pipeline", "delete_partitions"}
      /\ v5[c].op = "reset_pipeline" =>
           /\ v2.earliest /\ v2.cursors \subseteq v5[c].list \cup v5[c].since
           /\ v5[c].excused \/ (~v2.running /\ v5[c].list \subseteq v2.cursors)
  BY <1>1, <1>3 DEF MemsqlCallOk, Memsql!LabelsOf, Memsql!Progress, Memsql!Undisturbed, Memsql!At
<1>7. ASSUME ~v2.running, v2' = p, v3' = v3, v5'[c].op = v5[c].op, v5'[c].at = next,
             v5'[c].since = v5[c].since
      PROVE  MemsqlCallOk(c)'
  BY <1>2, <1>4, <1>6, <1>7 DEF MemsqlCallOk, Memsql!LabelsOf, Memsql!Progress,
     Memsql!Undisturbed, Memsql!At
<1>8. CASE ~v2.running /\ Memsql!Executed(c, p, v3, next)
  BY <1>2, <1>3, <1>4, <1>7, <1>8, MemsqlExecuted
<1>9. CASE /\ ~(v5[c].list \subseteq v2.cursors)
           /\ \E done \in SUBSET v5[c].list : v2' = [v2 EXCEPT !.cursors = @ \ done]
           /\ Memsql!Raise(c, FALSE)
           /\ v1' = v1 /\ v3' = v3 /\ v4' = v4 /\ v6' = v6
  <2>1. PICK done \in SUBSET v5[c].list : v2' = [v2 EXCEPT !.cursors = @ \ done]
    BY <1>9
  <2>2. /\ v2' \in MemsqlPipe /\ v2'.cursors \subseteq v2.cursors
        /\ v2'.earliest = v2.earliest
    BY <1>1, <2>1 DEF MemsqlPipe
  <2>3. MemsqlServer(v1, v2, v3, v4)' /\ v6' \in 0..MaxFaults
    BY <1>1, <1>9, <2>2 DEF MemsqlServer, MemsqlRest
  <2> QED
    BY <1>3, <1>6, <1>9, <2>2, <2>3, MemsqlRaise
<1>10. CASE Memsql!Refused(c, v2.running)
  BY <1>3, <1>6, <1>10, MemsqlRefused
<1> QED
  BY <1>5, <1>8, <1>9, <1>10

LEMMA MemsqlStart ==
  ASSUME Memsql!Inv, NEW c \in Actors, Memsql!StartPipeline(c) PROVE Memsql!Inv'
<1> DEFINE p == [v2 EXCEPT !.running = TRUE]
<1>1. v2 \in MemsqlPipe /\ MemsqlCallOk(c)
  BY MemsqlInv DEF MemsqlServer
<1>2. /\ p \in MemsqlPipe
      /\ p.earliest = v2.earliest /\ p.cursors = v2.cursors
  BY <1>1 DEF MemsqlPipe
<1>3. v5[c].at = "start" /\ ~Memsql!Returned(c)
  BY DEF Memsql!StartPipeline, Memsql!At, Memsql!Returned
<1>4. \/ Memsql!Executed(c, p, v3, "ok")
      \/ Memsql!Refused(c, v2.running)
  BY DEF Memsql!StartPipeline
<1> HIDE DEF p
<1>5. /\ v5[c].op = "reset_pipeline" /\ (v2.running => v5[c].excused)
      /\ v2.earliest /\ v2.cursors \subseteq v5[c].since
  BY <1>1, <1>3 DEF MemsqlCallOk, Memsql!LabelsOf, Memsql!Progress, Memsql!Undisturbed, Memsql!At
<1>6. ASSUME v2' = p, v3' = v3, v5'[c].op = v5[c].op, v5'[c].at = "ok",
             v5'[c].since = v5[c].since
      PROVE  MemsqlCallOk(c)'
  BY <1>2, <1>5, <1>6 DEF MemsqlCallOk, Memsql!LabelsOf, Memsql!Progress, Memsql!Undisturbed,
     Memsql!At
<1> QED
  BY <1>2, <1>3, <1>4, <1>5, <1>6, MemsqlExecuted, MemsqlRefused

LEMMA MemsqlListTables ==
  ASSUME Memsql!Inv, NEW c \in Actors, Memsql!ListTables(c) PROVE Memsql!Inv'
<1>1. MemsqlServer(v1, v2, v3, v4) /\ MemsqlRest /\ MemsqlCallOk(c)
  BY MemsqlInv
<1>2. v5[c].at = "tables" /\ ~Memsql!Returned(c) /\ v5[c].op = "truncate_all"
  BY <1>1 DEF Memsql!ListTables, Memsql!At, Memsql!Returned, MemsqlCallOk, Memsql!LabelsOf
<1> DEFINE r == [v5[c] EXCEPT !.list = v4, !.at = "truncate"]
<1>3. CASE /\ v5' = [v5 EXCEPT ![c].list = v4, ![c].at = "truncate"]
           /\ v1' = v1 /\ v2' = v2 /\ v3' = v3 /\ v4' = v4 /\ v6' = v6
  <2>1. v5[c] \in Memsql!Calls /\ v3 \subseteq v4 /\ v4 \subseteq {"table"}
    BY <1>1 DEF MemsqlRest, MemsqlServer
  <2>2. /\ r \in Memsql!Calls /\ r.op = v5[c].op /\ r.at = "truncate" /\ r.list = v4
        /\ r.since = v5[c].since /\ r.excused = v5[c].excused
    BY <2>1 DEF Memsql!Calls
  <2>3. v5' = [v5 EXCEPT ![c] = r]
    BY <1>1, <1>3 DEF MemsqlRest
  <2> HIDE DEF r
  <2>4. v5'[c] = r
    BY <1>1, <2>3 DEF MemsqlRest
  <2>5. MemsqlCallOk(c)'
    BY <1>2, <1>3, <2>1, <2>2, <2>4 DEF MemsqlCallOk, Memsql!LabelsOf, Memsql!Progress,
       Memsql!Undisturbed, Memsql!At
  <2>6. MemsqlServer(v1, v2, v3, v4)' /\ v6' \in 0..MaxFaults
    BY <1>1, <1>3 DEF MemsqlServer, MemsqlRest
  <2> QED
    BY <1>2, <1>3, <2>2, <2>3, <2>5, <2>6, MemsqlStep
<1>4. CASE Memsql!Refused(c, FALSE)
  BY <1>2, <1>4, MemsqlRefused
<1> QED
  BY <1>3, <1>4 DEF Memsql!ListTables

LEMMA MemsqlTruncate ==
  ASSUME Memsql!Inv, NEW c \in Actors, Memsql!Truncate(c) PROVE Memsql!Inv'
<1> DEFINE full == v3 \ v5[c].list
<1>1. MemsqlServer(v1, v2, v3, v4) /\ MemsqlRest /\ MemsqlCallOk(c) /\ v2 \in MemsqlPipe
  BY MemsqlInv DEF MemsqlServer
<1>2. v5[c].at = "truncate" /\ ~Memsql!Returned(c)
  BY DEF Memsql!Truncate, Memsql!At, Memsql!Returned
<1>3. v5[c].op = "truncate_all" /\ v3 \subseteq v5[c].list \cup v5[c].since
  BY <1>1, <1>2 DEF MemsqlCallOk, Memsql!LabelsOf, Memsql!Progress, Memsql!At
<1>4. full \subseteq v3 /\ full \subseteq v5[c].since
  BY <1>3
<1>5. \/ Memsql!Executed(c, v2, full, "ok")
      \/ /\ \E done \in SUBSET v5[c].list : v3' = v3 \ done
         /\ Memsql!Raise(c, FALSE)
         /\ v1' = v1 /\ v2' = v2 /\ v4' = v4 /\ v6' = v6
      \/ Memsql!Refused(c, v5[c].list = {})
  BY DEF Memsql!Truncate
<1> HIDE DEF full
<1>6. ASSUME v2' = v2, v3' = full, v5'[c].op = v5[c].op, v5'[c].at = "ok",
             v5'[c].since = v5[c].since
      PROVE  MemsqlCallOk(c)'
  BY <1>3, <1>4, <1>6 DEF MemsqlCallOk, Memsql!LabelsOf, Memsql!Progress, Memsql!Undisturbed,
     Memsql!At
<1>7. CASE Memsql!Executed(c, v2, full, "ok")
  BY <1>1, <1>2, <1>4, <1>6, <1>7, MemsqlExecuted
<1>8. CASE /\ \E done \in SUBSET v5[c].list : v3' = v3 \ done
           /\ Memsql!Raise(c, FALSE)
           /\ v1' = v1 /\ v2' = v2 /\ v4' = v4 /\ v6' = v6
  <2>1. v3' \subseteq v3
    BY <1>8
  <2>2. MemsqlServer(v1, v2, v3, v4)' /\ v6' \in 0..MaxFaults
    BY <1>1, <1>8, <2>1 DEF MemsqlServer, MemsqlRest
  <2> QED
    BY <1>2, <1>3, <1>8, <2>1, <2>2, MemsqlRaise
<1>9. CASE Memsql!Refused(c, v5[c].list = {})
  BY <1>2, <1>3, <1>9, MemsqlRefused
<1> QED
  BY <1>5, <1>7, <1>8, <1>9

\* The service of the host is started, stopped and asked.
LEMMA MemsqlService ==
  ASSUME Memsql!Inv, NEW c \in Actors,
         \/ Memsql!StopService(c) \/ Memsql!StartService(c) \/ Memsql!WaitReady(c)
         \/ Memsql!Ping(c)
  PROVE  Memsql!Inv'
<1>1. MemsqlServer(v1, v2, v3, v4) /\ MemsqlRest
  BY MemsqlInv
<1>2. ~Memsql!Returned(c) /\ v5[c].op \in {"start_service", "stop_service", "ping"}
  BY DEF Memsql!StopService, Memsql!StartService, Memsql!WaitReady, Memsql!Ping, Memsql!At,
     Memsql!Returned
<1>3. /\ v1' \in {"down", "starting", "up"} \cup {v1}
      /\ v2' = v2 /\ v3' = v3 /\ v4' = v4
      /\ v6' = v6 \/ (v6 > 0 /\ v6' = v6 - 1)
  BY DEF Memsql!StopService, Memsql!StartService, Memsql!WaitReady, Memsql!Ping, Memsql!Fault
<1>4. MemsqlServer(v1, v2, v3, v4)' /\ v6' \in 0..MaxFaults
  BY <1>1, <1>3, BoundsAssumption DEF MemsqlServer, MemsqlRest
<1>5. \/ Memsql!Goto(c, "ok") \/ Memsql!Goto(c, "ready") \/ Memsql!Raise(c, TRUE)
  BY DEF Memsql!StopService, Memsql!StartService, Memsql!WaitReady, Memsql!Ping
<1>6. ASSUME NEW next \in {"ok", "ready"}, Memsql!Goto(c, next) PROVE Memsql!Inv'
  <2>1. PICK r \in Memsql!Calls :
          /\ v5' = [v5 EXCEPT ![c] = r] /\ v5'[c] = r
          /\ r.op = v5[c].op /\ r.at = next /\ r.excused = v5[c].excused
    BY <1>6, MemsqlGoto
  <2>2. MemsqlCallOk(c)'
    BY <1>2, <2>1 DEF MemsqlCallOk, Memsql!LabelsOf, Memsql!Progress, Memsql!Undisturbed
  <2> QED
    BY <1>2, <1>3, <1>4, <2>1, <2>2, MemsqlStep
<1>7. CASE Memsql!Raise(c, TRUE)
  BY <1>2, <1>3, <1>4, <1>7, MemsqlRaise
<1> QED
  BY <1>5, <1>6, <1>7

LEMMA MemsqlNext == Memsql!Inv /\ Memsql!Next => Memsql!Inv'
<1> SUFFICES ASSUME Memsql!Inv, Memsql!Next PROVE Memsql!Inv'
  OBVIOUS
<1>1. CASE \/ Memsql!Online
           \/ \E k \in Things : Memsql!Load(k)
           \/ \E t \in {"table"} : Memsql!Insert(t) \/ Memsql!DropTable(t)
  BY <1>1, MemsqlWorld, MemsqlLoad, MemsqlInsert
<1>2. ASSUME NEW c \in Actors,
             \/ Memsql!reset_pipeline(c) \/ Memsql!delete_pipeline_partitions(c)
             \/ Memsql!truncate_all(c) \/ Memsql!start_service(c) \/ Memsql!stop_service(c)
             \/ Memsql!ping(c)
      PROVE  Memsql!Inv'
  BY <1>2, MemsqlBegin DEF Memsql!reset_pipeline, Memsql!delete_pipeline_partitions,
     Memsql!truncate_all, Memsql!start_service, Memsql!stop_service, Memsql!ping
<1>3. ASSUME NEW c \in Actors,
             \/ Memsql!StopPipeline(c) \/ Memsql!SetOffsetsEarliest(c)
             \/ Memsql!GetPartitions(c) \/ Memsql!DropPartitions(c) \/ Memsql!StartPipeline(c)
             \/ Memsql!ListTables(c) \/ Memsql!Truncate(c) \/ Memsql!StopService(c)
             \/ Memsql!StartService(c) \/ Memsql!WaitReady(c) \/ Memsql!Ping(c)
      PROVE  Memsql!Inv'
  BY <1>3, MemsqlStopPipeline, MemsqlOffsets, MemsqlList, MemsqlDrop, MemsqlStart,
     MemsqlListTables, MemsqlTruncate, MemsqlService
<1> QED
  BY <1>1, <1>2, <1>3 DEF Memsql!Next

LEMMA MemsqlAlways == Spec => [](focus = "memsql" => Memsql!Inv)
<1> DEFINE Holds == focus = "memsql" => Memsql!Inv
<1>1. Init => Holds
  BY MemsqlInit DEF Init
<1>2. Holds /\ [Next]_vars => Holds'
  <2>1. ASSUME Holds, Next PROVE Holds'
    BY <2>1, MemsqlNext DEF Next
  <2>2. ASSUME Holds, UNCHANGED vars PROVE Holds'
    BY <2>2, MemsqlWorld DEF vars
  <2> QED
    BY <2>1, <2>2
<1> QED
  BY <1>1, <1>2, PTL DEF Spec

\* Resets of a pipeline and truncations that return have done it, and resets fail for a
\* cause, for any callers, partitions and faults.
THEOREM ResetsAreSound == Spec => []MemsqlResets
<1> DEFINE Holds == focus = "memsql" => Memsql!Inv
<1>1. Memsql!Inv => Memsql!OkMeansReset /\ Memsql!ResetFailsForCause
  <2>1. ASSUME Memsql!Inv, NEW c \in Actors PROVE MemsqlCallOk(c)
    BY <2>1, MemsqlInv
  <2> QED
    BY <2>1 DEF MemsqlCallOk, Memsql!Progress, Memsql!Undisturbed, Memsql!At,
       Memsql!OkMeansReset, Memsql!ResetFailsForCause
<1>2. Holds => MemsqlResets
  BY <1>1 DEF MemsqlResets
<1> QED
  BY <1>2, MemsqlAlways, PTL

-----------------------------------------------------------------------------
(* The parser of Prometheus.                                               *)

\* What a server sends: every series of a histogram has buckets and a count, unless they are
\* buckets by name only, and one with quantiles or without a kind of its own is no histogram.
LEMMA MetricsShape ==
  ASSUME NEW x \in Metrics!Contents
  PROVE  /\ \A s \in x : s.labels \in Actors /\ s.kind \in {"bucket", "quantile", "sum", "count", "plain"}
         /\ (\E b \in x : b.kind = "bucket") =>
              \A s \in x : /\ s.kind \notin {"quantile", "plain"}
                           /\ \E b \in x : b.kind = "bucket" /\ b.labels = s.labels
                           /\ \/ \E t \in x : t.kind = "count" /\ t.labels = s.labels
                              \/ \A t \in x : t.kind # "count"
         /\ (\E q \in x : q.kind = "quantile") => \A s \in x : s.kind # "plain"
<1>1. CASE \E ls \in (SUBSET Actors) \ {{}}, bs \in (SUBSET Things) \ {{}} :
             x = Metrics!Totals(ls) \cup {Metrics!Sample("bucket", l, b) : l \in ls, b \in bs}
  <2>1. PICK ls \in (SUBSET Actors) \ {{}}, bs \in (SUBSET Things) \ {{}} :
          x = Metrics!Totals(ls) \cup {Metrics!Sample("bucket", l, b) : l \in ls, b \in bs}
    BY <1>1
  <2>2. PICK b0 \in bs : TRUE
    OBVIOUS
  <2>3. ASSUME NEW s \in x PROVE s.labels \in ls /\ s.kind \in {"bucket", "sum", "count"}
    BY <2>1 DEF Metrics!Totals, Metrics!Sample
  <2>4. ASSUME NEW l \in ls
        PROVE  Metrics!Sample("bucket", l, b0) \in x /\ Metrics!Sample("count", l, None) \in x
    BY <2>1, <2>2 DEF Metrics!Totals
  <2>5. ASSUME NEW l \in ls
        PROVE  /\ \E b \in x : b.kind = "bucket" /\ b.labels = l
               /\ \E t \in x : t.kind = "count" /\ t.labels = l
    BY <2>4 DEF Metrics!Sample
  <2> QED
    BY <2>3, <2>5
<1>2. CASE \E ls \in (SUBSET Actors) \ {{}}, some \in SUBSET Actors :
             x = Metrics!Totals(ls) \cup {Metrics!Sample("quantile", l, b) : l \in ls \cap some, b \in Things}
  <2>1. PICK ls \in (SUBSET Actors) \ {{}}, some \in SUBSET Actors :
          x = Metrics!Totals(ls) \cup {Metrics!Sample("quantile", l, b) : l \in ls \cap some, b \in Things}
    BY <1>2
  <2>2. ASSUME NEW s \in x PROVE s.labels \in Actors /\ s.kind \in {"quantile", "sum", "count"}
    BY <2>1 DEF Metrics!Totals, Metrics!Sample
  <2> QED
    BY <2>2
<1>3. CASE \E k \in {"sum", "count", "plain"} : x = {Metrics!Sample(k, l, None) : l \in Actors}
  <2>1. PICK k \in {"sum", "count", "plain"} : x = {Metrics!Sample(k, l, None) : l \in Actors}
    BY <1>3
  <2>2. ASSUME NEW s \in x PROVE s.labels \in Actors /\ s.kind = k
    BY <2>1 DEF Metrics!Sample
  <2> QED
    BY <2>2
<1>4. CASE \E ls \in (SUBSET Actors) \ {{}} :
             x = Metrics!Totals(ls) \cup {Metrics!Sample("bucket", l, None) : l \in ls}
  <2>1. PICK ls \in (SUBSET Actors) \ {{}} :
          x = Metrics!Totals(ls) \cup {Metrics!Sample("bucket", l, None) : l \in ls}
    BY <1>4
  <2>2. ASSUME NEW s \in x PROVE s.labels \in ls /\ s.kind \in {"bucket", "sum", "count"}
    BY <2>1 DEF Metrics!Totals, Metrics!Sample
  <2>3. ASSUME NEW l \in ls
        PROVE  Metrics!Sample("bucket", l, None) \in x /\ Metrics!Sample("count", l, None) \in x
    BY <2>1 DEF Metrics!Totals
  <2>4. ASSUME NEW l \in ls
        PROVE  /\ \E b \in x : b.kind = "bucket" /\ b.labels = l
               /\ \E t \in x : t.kind = "count" /\ t.labels = l
    BY <2>3 DEF Metrics!Sample
  <2> QED
    BY <2>2, <2>4
<1>5. CASE \E bs : x = {Metrics!Sample("bucket", l, b) : l \in Actors, b \in bs}
  <2>1. PICK bs : x = {Metrics!Sample("bucket", l, b) : l \in Actors, b \in bs}
    BY <1>5
  <2>2. ASSUME NEW s \in x PROVE s.labels \in Actors /\ s.kind = "bucket"
    BY <2>1 DEF Metrics!Sample
  <2> QED
    BY <2>2
<1> QED
  BY <1>1, <1>2, <1>3, <1>4, <1>5 DEF Metrics!Contents

LEMMA MetricsInit == Metrics!Init => Metrics!Inv
<1> SUFFICES ASSUME Metrics!Init PROVE Metrics!Inv
  OBVIOUS
<1>1. /\ v1 \in Metrics!Contents /\ v2 \in BOOLEAN /\ v4 = {} /\ v5 = {} /\ v7 = {} /\ v8 = {}
      /\ v9 = "" /\ DOMAIN v6 = {}
      /\ v3 = IF v2 THEN {v1} ELSE {{t \in v1 : t.kind = s.kind} : s \in v1}
  BY DEF Metrics!Init
<1>2. ASSUME NEW s \in v1 PROVE s \in UNION v3
  <2>1. s \in {t \in v1 : t.kind = s.kind}
    OBVIOUS
  <2> QED
    BY <1>1, <2>1
<1>3. ASSUME NEW f \in v3
      PROVE  \E k \in {"bucket", "quantile", "sum", "count", "plain"} :
               f = {t \in v1 : v2 \/ t.kind = k}
  <2>1. CASE v2
    BY <1>1, <1>3, <2>1
  <2>2. CASE ~v2
    <3>1. PICK s \in v1 : f = {t \in v1 : t.kind = s.kind}
      BY <1>1, <1>3, <2>2
    <3>2. s.kind \in {"bucket", "quantile", "sum", "count", "plain"}
      BY <1>1, MetricsShape
    <3> QED
      BY <2>2, <3>1, <3>2
  <2> QED
    BY <1>1, <2>1, <2>2
<1>4. Metrics!TypeOK
  <2>1. UNION v3 \subseteq v1
    BY <1>3
  <2> QED
    BY <1>1, <2>1 DEF Metrics!TypeOK
<1>5. Metrics!FamiliesApart
  BY <1>1, <1>3 DEF Metrics!FamiliesApart, Metrics!NoSeries
<1>6. Metrics!FiledByKind
  BY <1>1 DEF Metrics!FiledByKind
<1> QED
  BY <1>1, <1>2, <1>4, <1>5, <1>6 DEF Metrics!Inv

\* A sample that has a place keeps it when further ones are filed.
LEMMA MetricsFileBucket ==
  ASSUME Metrics!Inv, NEW s \in v1, Metrics!FileBucket(s)
  PROVE  /\ DOMAIN v6' = DOMAIN v6 \cup {s.labels}
         /\ \A l \in DOMAIN v6 : v6[l] \subseteq v6'[l]
         /\ \A l \in DOMAIN v6' : \A t \in v6'[l] :
              (t = s /\ l = s.labels) \/ (l \in DOMAIN v6 /\ t \in v6[l])
         /\ s \in v6'[s.labels]
  BY DEF Metrics!FileBucket, Metrics!Series

LEMMA MetricsFileHistogram ==
  ASSUME NEW s \in v1, Metrics!FileHistogram(s)
  PROVE  /\ \A t \in v7' : t = s \/ t \in v7
         /\ s \in v7'
         /\ \A t \in v7 : \E u \in v7' : u.kind = t.kind /\ u.key = t.key
  BY DEF Metrics!FileHistogram

\* What has a place is filed still, or another one is in its place of the dictionary.
LEMMA MetricsKeep ==
  ASSUME NEW t, Metrics!Kept(t), v8 \subseteq v8',
         DOMAIN v6 \subseteq DOMAIN v6', \A l \in DOMAIN v6 : v6[l] \subseteq v6'[l],
         \A u \in v7 : \E w \in v7' : w.kind = u.kind /\ w.key = u.key
  PROVE  Metrics!Kept(t)'
  BY DEF Metrics!Kept

\* A family that is taken leaves the others apart.
LEMMA MetricsNext == Metrics!Inv /\ Metrics!NextFamily => Metrics!Inv'
<1> SUFFICES ASSUME Metrics!Inv, Metrics!NextFamily PROVE Metrics!Inv'
  OBVIOUS
<1>1. PICK f \in v3 : v3' = v3 \ {f} /\ v4' = f
  BY DEF Metrics!NextFamily
<1>2. /\ v4 = {} /\ v5 = {} /\ v9 = "" /\ UNCHANGED <<v1, v2, v5, v6, v7, v8, v9>>
  BY DEF Metrics!NextFamily, Metrics!filed
<1>3. ASSUME NEW g \in v3
      PROVE  \E k \in {"bucket", "quantile", "sum", "count", "plain"} :
               g = {t \in v1 : v2 \/ t.kind = k}
  BY DEF Metrics!Inv, Metrics!FamiliesApart
<1>4. Metrics!TypeOK'
  <2>1. ASSUME NEW g \in v3 PROVE g \subseteq v1
    BY <1>3
  <2>2. UNION v3' \subseteq v1 /\ v4' \subseteq v1
    BY <1>1, <2>1
  <2>3. v5 \cup v7 \cup v8 \subseteq v1
    BY DEF Metrics!Inv, Metrics!TypeOK
  <2>4. (UNION v3') \cup v4' \cup v5' \cup v8' \cup v7' \subseteq v1'
    BY <1>2, <2>2, <2>3
  <2> QED
    BY <1>2, <2>4 DEF Metrics!Inv, Metrics!TypeOK
<1>5. ASSUME NEW g \in v3', v2 PROVE FALSE
  <2>1. g = v1 /\ f = v1
    BY <1>1, <1>3, <1>5
  <2> QED
    BY <1>1, <2>1
<1>6. Metrics!FamiliesApart'
  <2>1. ASSUME NEW g \in v3', NEW t \in g, t.kind = "bucket", NEW s \in f, s.kind = "bucket"
        PROVE  FALSE
    <3>1. PICK k \in {"bucket", "quantile", "sum", "count", "plain"} :
            g = {u \in v1 : v2 \/ u.kind = k}
      BY <1>1, <1>3
    <3>2. PICK j \in {"bucket", "quantile", "sum", "count", "plain"} :
            f = {u \in v1 : v2 \/ u.kind = j}
      BY <1>3
    <3>3. ~v2
      BY <1>5
    <3>4. k = "bucket" /\ j = "bucket"
      BY <2>1, <3>1, <3>2, <3>3
    <3> QED
      BY <1>1, <3>1, <3>2, <3>4
  <2>2. ~Metrics!NoSeries => \A g \in v3 : \A t \in g : t.kind # "bucket"
    BY DEF Metrics!Inv, Metrics!FamiliesApart
  <2>3. Metrics!NoSeries' = Metrics!NoSeries
    BY <1>2 DEF Metrics!NoSeries
  <2>4. v2 => v3' = {}
    BY <1>5
  <2>5. ~Metrics!NoSeries' \/ (\E s \in v4' : s.kind = "bucket") =>
          \A g \in v3' : \A t \in g : t.kind # "bucket"
    <3>1. CASE ~Metrics!NoSeries'
      BY <1>1, <2>2, <2>3, <3>1
    <3>2. CASE \E s \in f : s.kind = "bucket"
      BY <2>1, <3>2
    <3> QED
      BY <1>1, <3>1, <3>2
  <2>6. \A g \in v3' : \E k \in {"bucket", "quantile", "sum", "count", "plain"} :
          g = {t \in v1' : v2' \/ t.kind = k}
    <3>1. SUFFICES ASSUME NEW g \in v3'
                   PROVE  \E k \in {"bucket", "quantile", "sum", "count", "plain"} :
                            g = {t \in v1' : v2' \/ t.kind = k}
      OBVIOUS
    <3>2. PICK k \in {"bucket", "quantile", "sum", "count", "plain"} : g = {t \in v1 : v2 \/ t.kind = k}
      BY <1>1, <1>3
    <3>3. g = {t \in v1' : v2' \/ t.kind = k}
      BY <1>2, <3>2
    <3> QED
      BY <3>3
  <2> QED
    BY <1>2, <2>4, <2>5, <2>6 DEF Metrics!FamiliesApart
<1>7. Metrics!FiledByKind'
  <2>1. v2 => v8 = {}
    BY <1>1 DEF Metrics!Inv, Metrics!FamiliesApart
  <2> QED
    BY <1>2, <2>1 DEF Metrics!Inv, Metrics!FiledByKind, Metrics!NoSeries
<1>8. ASSUME NEW t \in v1' PROVE t \in (UNION v3') \cup v4' \cup v5' \/ Metrics!Kept(t)'
  <2>1. t \in UNION v3 \/ Metrics!Kept(t)
    BY <1>2, <1>8 DEF Metrics!Inv
  <2>2. Metrics!Kept(t) => Metrics!Kept(t)'
    BY <1>2 DEF Metrics!Kept
  <2>3. t \in UNION v3 => t \in (UNION v3') \cup v4'
    <3>1. SUFFICES ASSUME NEW g \in v3, t \in g PROVE t \in (UNION v3') \cup v4'
      OBVIOUS
    <3>2. g = f \/ g \in v3'
      BY <1>1
    <3>3. CASE g = f
      BY <1>1, <3>1, <3>3
    <3>4. CASE g \in v3'
      BY <3>1, <3>4
    <3> QED
      BY <3>2, <3>3, <3>4
  <2> QED
    BY <2>1, <2>2, <2>3
<1> QED
  BY <1>2, <1>4, <1>6, <1>7, <1>8 DEF Metrics!Inv

\* What the steps of the passes leave of what a family and a kind are.
LEMMA MetricsApart ==
  ASSUME Metrics!FamiliesApart, UNCHANGED <<v1, v2, v3>>,
         Metrics!NoSeries => Metrics!NoSeries' \/ \E s \in v4 : s.kind = "bucket",
         v4' \subseteq v4, v4 \cup v5 \cup v8 = {} => v4' \cup v5' \cup v8' = {}
  PROVE  Metrics!FamiliesApart'
<1>1. ASSUME NEW f \in v3'
      PROVE  \E k \in {"bucket", "quantile", "sum", "count", "plain"} :
               f = {t \in v1' : v2' \/ t.kind = k}
  <2>1. PICK k \in {"bucket", "quantile", "sum", "count", "plain"} : f = {t \in v1 : v2 \/ t.kind = k}
    BY <1>1 DEF Metrics!FamiliesApart
  <2>2. f = {t \in v1' : v2' \/ t.kind = k}
    BY <2>1
  <2> QED
    BY <2>2
<1>2. ~Metrics!NoSeries' \/ (\E s \in v4' : s.kind = "bucket") =>
        \A f \in v3' : \A s \in f : s.kind # "bucket"
  BY DEF Metrics!FamiliesApart
<1>3. v2' /\ v4' \cup v5' \cup v8' # {} => v3' = {}
  BY DEF Metrics!FamiliesApart
<1> QED
  BY <1>1, <1>2, <1>3 DEF Metrics!FamiliesApart

\* The first pass files buckets and quantiles, and puts the rest aside.
LEMMA MetricsFirst == Metrics!Inv /\ Metrics!FirstPass => Metrics!Inv'
<1> SUFFICES ASSUME Metrics!Inv, Metrics!FirstPass PROVE Metrics!Inv'
  OBVIOUS
<1>1. PICK s \in v4 :
        /\ v4' = v4 \ {s}
        /\ Metrics!_handle_bucket_sample(s) \/ Metrics!_handle_histogram_stat(s) \/ Metrics!PutAside(s)
        /\ v9 = "" /\ UNCHANGED <<v1, v2, v3>>
  BY DEF Metrics!FirstPass
<1>2. /\ s \in v1 /\ v9 = "" /\ (UNION v3) \cup v4 \cup v5 \cup v8 \cup v7 \subseteq v1
      /\ v1 \in Metrics!Contents /\ v2 \in BOOLEAN
      /\ DOMAIN v6 \subseteq Actors /\ \A l \in DOMAIN v6 : v6[l] \subseteq v1
  BY <1>1 DEF Metrics!Inv, Metrics!TypeOK
<1>3. Metrics!FamiliesApart /\ Metrics!FiledByKind
  BY DEF Metrics!Inv
<1>4. s.labels \in Actors
  BY <1>2, MetricsShape
<1>5. v2 => v8 = {}
  BY <1>1, <1>3 DEF Metrics!FiledByKind
<1>6. ASSUME Metrics!TypeOK', Metrics!FamiliesApart', Metrics!FiledByKind', v9' = v9,
             s \in v5' \/ Metrics!Kept(s)', v5 \subseteq v5',
             \A t \in v1 : Metrics!Kept(t) => Metrics!Kept(t)'
      PROVE  Metrics!Inv'
  <2>1. ASSUME NEW t \in v1' PROVE t \in (UNION v3') \cup v4' \cup v5' \/ Metrics!Kept(t)'
    <3>1. t \in UNION v3 \/ t \in v4 \/ t \in v5 \/ Metrics!Kept(t)
      BY <1>1, <1>2, <2>1 DEF Metrics!Inv
    <3> QED
      BY <1>1, <1>6, <3>1
  <2> QED
    BY <1>1, <1>2, <1>6, <2>1 DEF Metrics!Inv
<1>10. CASE Metrics!_handle_bucket_sample(s) /\ s.key = None
  <2>1. s.kind = "bucket" /\ v9' = "raised" /\ UNCHANGED <<v5, v6, v7, v8>>
    BY <1>10 DEF Metrics!_handle_bucket_sample
  <2>2. Metrics!TypeOK'
    BY <1>1, <1>2, <2>1 DEF Metrics!TypeOK
  <2>3. Metrics!NoSeries' = Metrics!NoSeries
    BY <2>1 DEF Metrics!NoSeries
  <2>4. Metrics!FamiliesApart'
    BY <1>1, <1>3, <2>1, <2>3, MetricsApart
  <2>5. Metrics!FiledByKind'
    BY <1>1, <1>3, <1>5, <2>1, <2>3 DEF Metrics!FiledByKind
  <2>6. Metrics!NamedLikeBuckets'
    BY <1>1, <1>2, <1>10, <2>1 DEF Metrics!NamedLikeBuckets
  <2> QED
    BY <2>1, <2>2, <2>4, <2>5, <2>6 DEF Metrics!Inv
<1>7. CASE Metrics!_handle_bucket_sample(s) /\ s.key # None
  <2>1. s.kind = "bucket" /\ Metrics!FileBucket(s) /\ UNCHANGED <<v5, v7, v8, v9>>
    BY <1>7 DEF Metrics!_handle_bucket_sample
  <2>2. /\ DOMAIN v6' = DOMAIN v6 \cup {s.labels}
        /\ \A l \in DOMAIN v6 : v6[l] \subseteq v6'[l]
        /\ \A l \in DOMAIN v6' : \A t \in v6'[l] :
             (t = s /\ l = s.labels) \/ (l \in DOMAIN v6 /\ t \in v6[l])
        /\ s \in v6'[s.labels]
    BY <1>2, <2>1, MetricsFileBucket
  <2>3. Metrics!TypeOK'
    <3>1. (UNION v3') \cup v4' \cup v5' \cup v8' \cup v7' \subseteq v1'
      BY <1>1, <1>2, <2>1
    <3>2. DOMAIN v6' \subseteq Actors /\ \A l \in DOMAIN v6' : v6'[l] \subseteq v1'
      BY <1>1, <1>2, <1>4, <2>2
    <3> QED
      BY <1>1, <1>2, <2>1, <3>1, <3>2 DEF Metrics!TypeOK
  <2>4. Metrics!FamiliesApart'
    BY <1>1, <1>3, <2>1, MetricsApart
  <2>5. Metrics!FiledByKind'
    <3>1. ASSUME NEW l \in DOMAIN v6'
          PROVE  (\E t \in v6'[l] : t.kind = "bucket") /\ \A t \in v6'[l] : t.labels = l
      BY <1>3, <2>1, <2>2, <3>1 DEF Metrics!FiledByKind
    <3> QED
      BY <1>1, <1>3, <1>5, <2>1, <3>1 DEF Metrics!FiledByKind
  <2>6. Metrics!Kept(s)'
    BY <2>2 DEF Metrics!Kept
  <2>7. \A t \in v1 : Metrics!Kept(t) => Metrics!Kept(t)'
    BY <2>1, <2>2, MetricsKeep
  <2> QED
    BY <1>6, <2>1, <2>3, <2>4, <2>5, <2>6, <2>7
<1>8. CASE Metrics!_handle_histogram_stat(s)
  <2>1. s.kind = "quantile" /\ Metrics!FileHistogram(s) /\ UNCHANGED <<v5, v6, v8, v9>>
    BY <1>8 DEF Metrics!_handle_histogram_stat
  <2>2. /\ \A t \in v7' : t = s \/ t \in v7
        /\ s \in v7'
        /\ \A t \in v7 : \E u \in v7' : u.kind = t.kind /\ u.key = t.key
    BY <1>2, <2>1, MetricsFileHistogram
  <2>3. Metrics!TypeOK'
    <3>1. (UNION v3') \cup v4' \cup v5' \cup v8' \cup v7' \subseteq v1'
      BY <1>1, <1>2, <2>1, <2>2
    <3> QED
      BY <1>1, <1>2, <2>1, <3>1 DEF Metrics!TypeOK
  <2>4. Metrics!NoSeries' = Metrics!NoSeries
    BY <2>1 DEF Metrics!NoSeries
  <2>5. Metrics!FamiliesApart'
    BY <1>1, <1>3, <2>1, <2>4, MetricsApart
  <2>6. Metrics!FiledByKind'
    BY <1>1, <1>2, <1>3, <1>5, <2>1, <2>2 DEF Metrics!FiledByKind
  <2>7. Metrics!Kept(s)'
    BY <2>2 DEF Metrics!Kept
  <2>8. \A t \in v1 : Metrics!Kept(t) => Metrics!Kept(t)'
    BY <2>1, <2>2, MetricsKeep
  <2> QED
    BY <1>6, <2>1, <2>3, <2>5, <2>6, <2>7, <2>8
<1>9. CASE Metrics!PutAside(s)
  <2>1. s.kind \notin {"bucket", "quantile"} /\ v5' = v5 \cup {s} /\ UNCHANGED <<v6, v7, v8, v9>>
    BY <1>9 DEF Metrics!PutAside, Metrics!filed
  <2>2. Metrics!TypeOK'
    <3>1. (UNION v3') \cup v4' \cup v8' \cup v7' \subseteq v1'
      BY <1>1, <1>2, <2>1
    <3>2. v5' \subseteq v1'
      BY <1>1, <1>2, <2>1
    <3>3. (UNION v3') \cup v4' \cup v5' \cup v8' \cup v7' \subseteq v1'
      BY <3>1, <3>2
    <3> QED
      BY <1>1, <1>2, <2>1, <3>3 DEF Metrics!TypeOK
  <2>3. Metrics!NoSeries' = Metrics!NoSeries
    BY <2>1 DEF Metrics!NoSeries
  <2>4. Metrics!FamiliesApart'
    BY <1>1, <1>3, <2>1, <2>3, MetricsApart
  <2>5. Metrics!FiledByKind'
    BY <1>1, <1>3, <1>5, <2>1, <2>3 DEF Metrics!FiledByKind
  <2>6. \A t \in v1 : Metrics!Kept(t) => Metrics!Kept(t)'
    BY <2>1 DEF Metrics!Kept
  <2> QED
    BY <1>6, <2>1, <2>2, <2>4, <2>5, <2>6
<1> QED
  BY <1>1, <1>7, <1>8, <1>9, <1>10

\* The second pass finds the series of every sum and count of a histogram.
LEMMA MetricsSecond == Metrics!Inv /\ Metrics!SecondPass => Metrics!Inv'
<1> SUFFICES ASSUME Metrics!Inv, Metrics!SecondPass PROVE Metrics!Inv'
  OBVIOUS
<1>1. PICK s \in v5 :
        /\ v5' = v5 \ {s}
        /\ Metrics!_handle_bucket_total(s) \/ Metrics!HistogramTotal(s) \/ Metrics!OtherStat(s)
  BY DEF Metrics!SecondPass
<1>2. v9 = "" /\ v4 = {} /\ UNCHANGED <<v1, v2, v3, v4>>
  BY DEF Metrics!SecondPass
<1>3. /\ s \in v1 /\ (UNION v3) \cup v4 \cup v5 \cup v8 \cup v7 \subseteq v1
      /\ v1 \in Metrics!Contents /\ v2 \in BOOLEAN
      /\ DOMAIN v6 \subseteq Actors /\ \A l \in DOMAIN v6 : v6[l] \subseteq v1
  BY <1>1 DEF Metrics!Inv, Metrics!TypeOK
<1>4. Metrics!FamiliesApart /\ Metrics!FiledByKind
  BY DEF Metrics!Inv
<1>5. s.labels \in Actors
  BY <1>3, MetricsShape
<1>6. s.kind \notin {"bucket", "quantile"}
  BY <1>1, <1>4 DEF Metrics!FiledByKind
<1>7. ASSUME Metrics!TypeOK', Metrics!FamiliesApart', Metrics!FiledByKind', v9' = "",
             Metrics!Kept(s)', \A t \in v1 : Metrics!Kept(t) => Metrics!Kept(t)'
      PROVE  Metrics!Inv'
  <2>1. ASSUME NEW t \in v1' PROVE t \in (UNION v3') \cup v4' \cup v5' \/ Metrics!Kept(t)'
    <3>1. t \in UNION v3 \/ t \in v4 \/ t \in v5 \/ Metrics!Kept(t)
      BY <1>2, <2>1 DEF Metrics!Inv
    <3> QED
      BY <1>1, <1>2, <1>7, <3>1
  <2> QED
    BY <1>7, <2>1 DEF Metrics!Inv
<1>8. CASE Metrics!_handle_bucket_total(s)
  <2>1. ~Metrics!NoSeries /\ UNCHANGED <<v7, v8>>
    BY <1>8 DEF Metrics!_handle_bucket_total
  <2>2. s.labels \in DOMAIN v6
    <3>1. PICK l \in DOMAIN v6 : TRUE
      BY <2>1 DEF Metrics!NoSeries
    <3>2. \E b \in v1 : b.kind = "bucket"
      BY <1>3, <1>4, <3>1 DEF Metrics!FiledByKind
    <3>3. PICK b \in v1 : b.kind = "bucket" /\ b.labels = s.labels
      BY <1>3, <3>2, MetricsShape
    <3>4. b \notin UNION v3
      BY <1>4, <2>1, <3>3 DEF Metrics!FamiliesApart
    <3>5. b \notin v5 \cup v8 /\ \A t \in v7 : t.kind # "bucket"
      BY <1>4, <3>3 DEF Metrics!FiledByKind
    <3>6. Metrics!Kept(b)
      BY <1>2, <3>4, <3>5 DEF Metrics!Inv
    <3> QED
      BY <3>3, <3>5, <3>6 DEF Metrics!Kept
  <2>3. Metrics!FileBucket(s) /\ v9' = v9
    BY <1>8, <2>2 DEF Metrics!_handle_bucket_total, Metrics!Series
  <2>4. /\ DOMAIN v6' = DOMAIN v6 \cup {s.labels}
        /\ \A l \in DOMAIN v6 : v6[l] \subseteq v6'[l]
        /\ \A l \in DOMAIN v6' : \A t \in v6'[l] :
             (t = s /\ l = s.labels) \/ (l \in DOMAIN v6 /\ t \in v6[l])
        /\ s \in v6'[s.labels]
    BY <1>3, <2>3, MetricsFileBucket
  <2>5. DOMAIN v6' = DOMAIN v6
    BY <2>2, <2>4
  <2>6. Metrics!TypeOK'
    <3>1. (UNION v3') \cup v4' \cup v5' \cup v8' \cup v7' \subseteq v1'
      BY <1>1, <1>2, <1>3, <2>1
    <3>2. DOMAIN v6' \subseteq Actors /\ \A l \in DOMAIN v6' : v6'[l] \subseteq v1'
      BY <1>2, <1>3, <2>4, <2>5
    <3> QED
      BY <1>2, <1>3, <2>3, <3>1, <3>2 DEF Metrics!TypeOK
  <2>7. Metrics!FamiliesApart'
    <3>1. Metrics!NoSeries' = Metrics!NoSeries
      BY <2>5 DEF Metrics!NoSeries
    <3> QED
      BY <1>1, <1>2, <1>4, <2>1, <3>1, MetricsApart
  <2>8. Metrics!FiledByKind'
    <3>1. ASSUME NEW l \in DOMAIN v6'
          PROVE  (\E t \in v6'[l] : t.kind = "bucket") /\ \A t \in v6'[l] : t.labels = l
      BY <1>4, <2>4, <2>5, <3>1 DEF Metrics!FiledByKind
    <3>2. Metrics!NoSeries' = Metrics!NoSeries
      BY <2>5 DEF Metrics!NoSeries
    <3> QED
      BY <1>1, <1>2, <1>4, <2>1, <3>1, <3>2 DEF Metrics!FiledByKind
  <2>9. Metrics!Kept(s)'
    BY <2>4 DEF Metrics!Kept
  <2>10. \A t \in v1 : Metrics!Kept(t) => Metrics!Kept(t)'
    BY <2>1, <2>4, MetricsKeep
  <2> QED
    BY <1>2, <1>7, <2>3, <2>6, <2>7, <2>8, <2>9, <2>10
<1>9. CASE Metrics!HistogramTotal(s)
  <2>1. v7 # {} /\ Metrics!FileHistogram(s) /\ UNCHANGED <<v6, v8, v9>>
    BY <1>9 DEF Metrics!HistogramTotal
  <2>2. /\ \A t \in v7' : t = s \/ t \in v7
        /\ s \in v7'
        /\ \A t \in v7 : \E u \in v7' : u.kind = t.kind /\ u.key = t.key
    BY <1>3, <2>1, MetricsFileHistogram
  <2>3. Metrics!TypeOK'
    <3>1. (UNION v3') \cup v4' \cup v5' \cup v8' \cup v7' \subseteq v1'
      BY <1>1, <1>2, <1>3, <2>1, <2>2
    <3> QED
      BY <1>2, <1>3, <2>1, <3>1 DEF Metrics!Inv, Metrics!TypeOK
  <2>4. Metrics!NoSeries' = Metrics!NoSeries
    BY <2>1 DEF Metrics!NoSeries
  <2>5. Metrics!FamiliesApart'
    BY <1>1, <1>2, <1>4, <2>1, <2>4, MetricsApart
  <2>6. Metrics!FiledByKind'
    BY <1>1, <1>2, <1>4, <1>6, <2>1, <2>2 DEF Metrics!FiledByKind
  <2>7. Metrics!Kept(s)'
    BY <2>2 DEF Metrics!Kept
  <2>8. \A t \in v1 : Metrics!Kept(t) => Metrics!Kept(t)'
    BY <2>1, <2>2, MetricsKeep
  <2> QED
    BY <1>2, <1>7, <2>1, <2>3, <2>5, <2>6, <2>7, <2>8
<1>10. CASE Metrics!OtherStat(s)
  <2>1. v8' = v8 \cup {s} /\ UNCHANGED <<v6, v7, v9>>
    BY <1>10 DEF Metrics!OtherStat
  <2>2. Metrics!NoSeries /\ v7 = {}
    <3>1. CASE s.kind = "plain"
      <4>1. ~\E b \in v1 : b.kind = "bucket" \/ b.kind = "quantile"
        BY <1>3, <3>1, MetricsShape
      <4>2. v7 = {}
        BY <1>4, <4>1 DEF Metrics!FiledByKind
      <4>3. ASSUME NEW l \in DOMAIN v6 PROVE FALSE
        <5>1. PICK b \in v6[l] : b.kind = "bucket"
          BY <1>4 DEF Metrics!FiledByKind
        <5> QED
          BY <1>3, <4>1, <5>1
      <4> QED
        BY <4>2, <4>3 DEF Metrics!NoSeries
    <3> QED
      BY <1>10, <3>1 DEF Metrics!OtherStat
  <2>3. Metrics!TypeOK'
    <3>1. (UNION v3') \cup v4' \cup v5' \cup v8' \cup v7' \subseteq v1'
      BY <1>1, <1>2, <1>3, <2>1
    <3> QED
      BY <1>2, <1>3, <2>1, <3>1 DEF Metrics!Inv, Metrics!TypeOK
  <2>4. Metrics!NoSeries' = Metrics!NoSeries
    BY <2>1 DEF Metrics!NoSeries
  <2>5. Metrics!FamiliesApart'
    BY <1>1, <1>2, <1>4, <2>4, MetricsApart
  <2>6. Metrics!FiledByKind'
    BY <1>1, <1>2, <1>4, <1>6, <2>1, <2>2, <2>4 DEF Metrics!FiledByKind
  <2>7. Metrics!Kept(s)'
    BY <2>1 DEF Metrics!Kept
  <2>8. \A t \in v1 : Metrics!Kept(t) => Metrics!Kept(t)'
    BY <2>1 DEF Metrics!Kept
  <2> QED
    BY <1>2, <1>7, <2>1, <2>3, <2>5, <2>6, <2>7, <2>8
<1> QED
  BY <1>1, <1>8, <1>9, <1>10

\* Percentiles lack a count only when it was filed with the other samples.
LEMMA MetricsEnd == Metrics!Inv /\ Metrics!calculate_percentiles => Metrics!Inv'
<1> SUFFICES ASSUME Metrics!Inv, Metrics!calculate_percentiles PROVE Metrics!Inv'
  OBVIOUS
<1>1. /\ v3 = {} /\ v4 = {} /\ v5 = {} /\ UNCHANGED <<v1, v2, v3, v4, v5, v6, v7, v8>>
      /\ v9' = IF \A l \in DOMAIN v6 : \E s \in v6[l] : s.kind = "count" THEN "ok" ELSE "raised"
  BY DEF Metrics!calculate_percentiles, Metrics!at, Metrics!filed
<1>2. /\ v1 \in Metrics!Contents /\ v7 \subseteq v1
      /\ \A l \in DOMAIN v6 : v6[l] \subseteq v1
  BY DEF Metrics!Inv, Metrics!TypeOK
<1>8. v9 = ""
  BY DEF Metrics!calculate_percentiles
<1>3. ASSUME v9' = "raised", ~Metrics!NamedLikeBuckets PROVE ~v2 /\ \E s \in v8 : s.kind = "count"
  <2>1. PICK l \in DOMAIN v6 : \A s \in v6[l] : s.kind # "count"
    BY <1>1, <1>3
  <2>2. PICK b \in v6[l] : b.kind = "bucket" /\ b.labels = l
    BY DEF Metrics!Inv, Metrics!FiledByKind
  <2>3. PICK t \in v1 : t.kind = "count" /\ t.labels = l
    <3>1. b \in v1
      BY <1>2
    <3>2. \E u \in v1 : u.kind = "bucket"
      BY <2>2, <3>1
    <3>4. \E u \in v1 : u.kind = "count"
      BY <1>3, <2>2, <3>1 DEF Metrics!NamedLikeBuckets
    <3>3. \E u \in v1 : u.kind = "count" /\ u.labels = b.labels
      BY <1>2, <3>1, <3>2, <3>4, MetricsShape
    <3> QED
      BY <2>2, <3>3
  <2>4. v7 = {}
    <3>1. \A s \in v1 : s.kind # "quantile"
      BY <1>2, <2>2, MetricsShape
    <3> QED
      BY <3>1 DEF Metrics!Inv, Metrics!FiledByKind
  <2>5. t \in v8
    <3>1. Metrics!Kept(t)
      BY <1>1, <1>8, <2>3 DEF Metrics!Inv
    <3> QED
      BY <2>1, <2>3, <2>4, <3>1 DEF Metrics!Kept
  <2>6. ~v2
    BY <2>1, <2>5 DEF Metrics!Inv, Metrics!FiledByKind, Metrics!NoSeries
  <2> QED
    BY <2>3, <2>5, <2>6
<1>4. Metrics!TypeOK'
  BY <1>1 DEF Metrics!Inv, Metrics!TypeOK
<1>5. Metrics!FamiliesApart'
  BY <1>1 DEF Metrics!FamiliesApart
<1>6. Metrics!FiledByKind'
  BY <1>1 DEF Metrics!Inv, Metrics!FiledByKind, Metrics!NoSeries
<1>7. ASSUME NEW t \in v1' PROVE Metrics!Kept(t)'
  <2>1. Metrics!Kept(t)
    BY <1>1, <1>7, <1>8 DEF Metrics!Inv
  <2> QED
    BY <1>1, <2>1 DEF Metrics!Kept
<1>9. Metrics!NamedLikeBuckets' = Metrics!NamedLikeBuckets
  BY <1>1 DEF Metrics!NamedLikeBuckets
<1> QED
  BY <1>9, <1>1, <1>3, <1>4, <1>5, <1>6, <1>7 DEF Metrics!Inv

LEMMA MetricsStutter == Metrics!Inv /\ UNCHANGED vars => Metrics!Inv'
<1> SUFFICES ASSUME Metrics!Inv, UNCHANGED <<v1, v2, v3, v4, v5, v6, v7, v8, v9>> PROVE Metrics!Inv'
  BY DEF vars
<1>1. Metrics!TypeOK'
  BY DEF Metrics!Inv, Metrics!TypeOK
<1>2. Metrics!NoSeries' = Metrics!NoSeries
  BY DEF Metrics!NoSeries
<1>3. Metrics!FamiliesApart'
  BY <1>2, MetricsApart DEF Metrics!Inv
<1>4. Metrics!FiledByKind'
  BY DEF Metrics!Inv, Metrics!FiledByKind, Metrics!NoSeries
<1>5. ASSUME v9 # "raised", NEW t \in v1'
      PROVE  t \in (UNION v3') \cup v4' \cup v5' \/ Metrics!Kept(t)'
  BY <1>5 DEF Metrics!Inv, Metrics!Kept
<1>6. Metrics!NamedLikeBuckets' = Metrics!NamedLikeBuckets
  BY DEF Metrics!NamedLikeBuckets
<1> QED
  BY <1>1, <1>3, <1>4, <1>5, <1>6 DEF Metrics!Inv

LEMMA MetricsAlways == Spec => [](focus = "metrics" => Metrics!Inv)
<1> DEFINE Holds == focus = "metrics" => Metrics!Inv
<1>1. Init => Holds
  BY MetricsInit DEF Init
<1>2. Holds /\ [Next]_vars => Holds'
  <2>1. ASSUME Holds, Next PROVE Holds'
    BY <2>1, MetricsNext, MetricsFirst, MetricsSecond, MetricsEnd DEF Next, Metrics!Next
  <2>2. ASSUME Holds, UNCHANGED vars PROVE Holds'
    BY <2>2, MetricsStutter DEF vars
  <2> QED
    BY <2>1, <2>2
<1> QED
  BY <1>1, <1>2, PTL DEF Spec

\* The parser returns every sample of a metric where it belongs, whatever the order of its
\* families and samples, and for any label sets and bounds of buckets.
THEOREM ParsesKeepSamples == Spec => []MetricsAreKept
<1> DEFINE Holds == focus = "metrics" => Metrics!Inv
<1>1. Holds => MetricsAreKept
  <2>1. ASSUME Metrics!Inv PROVE Metrics!SamplesAreKept
    <3>1. ASSUME v9 = "ok", NEW s \in v1 PROVE Metrics!Kept(s)
      BY <2>1, <3>1 DEF Metrics!Inv
    <3> QED
      BY <2>1, <3>1 DEF Metrics!Inv, Metrics!FiledByKind, Metrics!SamplesAreKept, Metrics!Kept
  <2> QED
    BY <2>1 DEF MetricsAreKept
<1> QED
  BY <1>1, MetricsAlways, PTL

-----------------------------------------------------------------------------
(* The percentiles of a histogram.                                         *)

LEMMA PercentilesElements ==
  ASSUME Percents!TypeOK
  PROVE  /\ \A i \in 1..Len(v3) : v3[i] \in Nat
         /\ \A j \in 1..Len(v1) : v1[j] \in Nat
<1>1. ASSUME NEW i \in 1..Len(v3) PROVE v3[i] \in Nat
  BY ElementOfSeq, Zenon DEF Percents!TypeOK
<1>2. ASSUME NEW j \in 1..Len(v1) PROVE v1[j] \in Nat
  BY ElementOfSeq, Zenon DEF Percents!TypeOK
<1> QED BY <1>1, <1>2

LEMMA PercentilesCeilDiv ==
  ASSUME NEW n \in Nat, NEW v \in Nat
  PROVE  Percents!CeilDiv(n, 1000) \in Nat /\ (Percents!CeilDiv(n, 1000) <= v <=> n <= 1000 * v)
BY DEF Percents!CeilDiv

LEMMA PercentilesProduct ==
  ASSUME NEW p \in Nat, NEW q \in Nat, NEW t \in Nat, p <= q
  PROVE  p * t \in Nat /\ p * t <= q * t
BY SMT

\* search_samples is compared with a count as the definition compares shares.
LEMMA PercentilesSearch ==
  ASSUME Percents!TypeOK, NEW i \in 1..Len(v3), NEW v \in Nat
  PROVE  /\ Percents!Search(i) \in Nat
         /\ Percents!Search(i) <= v <=> Percents!HoldsShare(v, v3[i])
<1>1. v3[i] \in Nat /\ v2 \in Nat
  BY PercentilesElements DEF Percents!TypeOK
<1>2. v3[i] * v2 \in Nat
  BY <1>1, SMT
<1> DEFINE n == v3[i] * v2
<1>3. Percents!Search(i) = Percents!CeilDiv(n, 1000)
  BY DEF Percents!Search
<1>4. Percents!HoldsShare(v, v3[i]) <=> n <= 1000 * v
  <2>1. Percents!HoldsShare(v, v3[i]) <=> 1000 * v >= n
    BY DEF Percents!HoldsShare
  <2> HIDE DEF n
  <2> QED BY <1>2, <2>1
<1>5. n \in Nat
  BY <1>2
<1> HIDE DEF n
<1>6. Percents!CeilDiv(n, 1000) \in Nat /\ (Percents!CeilDiv(n, 1000) <= v <=> n <= 1000 * v)
  BY <1>5, PercentilesCeilDiv
<1> QED BY <1>3, <1>4, <1>6

\* It ascends with the percentiles.
LEMMA PercentilesSearchMonotone ==
  ASSUME Percents!TypeOK, Percents!Ascending,
         NEW i \in 1..Len(v3), NEW k \in 1..Len(v3), i <= k
  PROVE  Percents!Search(i) <= Percents!Search(k)
<1>1. v3[i] \in Nat /\ v3[k] \in Nat /\ v2 \in Nat
  BY PercentilesElements DEF Percents!TypeOK
<1>2. v3[i] <= v3[k]
  BY DEF Percents!Ascending
<1>3. v3[i] * v2 <= v3[k] * v2
  BY <1>1, <1>2, PercentilesProduct
<1>4. Percents!Search(k) \in Nat /\ v3[k] * v2 <= 1000 * Percents!Search(k)
  <2>1. Percents!Search(k) \in Nat
    BY PercentilesSearch
  <2> QED BY <2>1, PercentilesSearch DEF Percents!HoldsShare
<1>5. v3[i] * v2 <= 1000 * Percents!Search(k)
  <2>1. v3[i] * v2 \in Nat /\ v3[k] * v2 \in Nat
    BY <1>1, PercentilesProduct
  <2> QED BY <1>3, <1>4, <2>1
<1> QED BY <1>4, <1>5, PercentilesSearch DEF Percents!HoldsShare

LEMMA PercentilesInit == Percents!Init => Percents!Inv
BY InputAssumption DEF Percents!Init, Percents!Inv, Percents!TypeOK, Percents!LoopInvariant

LEMMA PercentilesFound == ASSUME Percents!Inv, Percents!Found PROVE Percents!Inv'
<1> USE DEF Percents!Inv
<1>1. Percents!TypeOK'
  BY DEF Percents!Found, Percents!Looping, Percents!TypeOK, Percents!inputs
<1>2. /\ \A i \in 1..Len(v3) :
           Percents!Search(i)' = Percents!Search(i) /\ Percents!Search(i) \in Nat
      /\ Percents!Ascending' <=> Percents!Ascending
  BY PercentilesSearch DEF Percents!Found, Percents!inputs, Percents!Search, Percents!Ascending
<1>3. v5 \in 1..Len(v3) /\ v4 \in 1..Len(v1) /\ v1[v4] \in Nat
  BY PercentilesElements DEF Percents!Found, Percents!Looping, Percents!TypeOK
<1>4. ASSUME NEW i \in (1..Len(v3))'
      PROVE  /\ i < v5' => v6'[i] \in 1..Len(v1) /\ Percents!Search(i)' <= v1[v6'[i]]
             /\ i >= v5' => v6'[i] = 0
  <2>1. i \in 1..Len(v3) /\ Percents!Search(i)' = Percents!Search(i)
    BY <1>2, <1>4 DEF Percents!Found, Percents!inputs
  <2>2. CASE i = v5
    BY <1>3, <2>1, <2>2 DEF Percents!Found, Percents!TypeOK
  <2>3. CASE i # v5
    <3>1. v6'[i] = v6[i] /\ (i < v5' <=> i < v5) /\ (i >= v5' <=> i > v5)
      <4>1. v6' = [v6 EXCEPT ![v5] = v4] /\ v5' = v5 + 1
        BY DEF Percents!Found
      <4>2. v6'[i] = v6[i]
        BY <2>1, <2>3, <4>1 DEF Percents!TypeOK
      <4> QED BY <1>3, <2>1, <2>3, <4>1, <4>2
    <3> QED BY <1>3, <2>1, <2>3, <3>1 DEF Percents!LoopInvariant
  <2> QED BY <2>2, <2>3
<1>5. ASSUME Percents!Ascending, NEW j \in 1..Len(v1)
      PROVE  /\ \A i \in 1..Len(v3) : i < v5' /\ j < v6'[i] => v1[j] < Percents!Search(i)
             /\ v5' <= Len(v3) /\ j < v4' => v1[j] < Percents!Search(v5')
  <2>1. ASSUME NEW i \in 1..Len(v3), i < v5', j < v6'[i]
        PROVE  v1[j] < Percents!Search(i)
    <3>1. v6' = [v6 EXCEPT ![v5] = v4] /\ v5' = v5 + 1
      BY DEF Percents!Found
    <3>2. CASE i = v5
      <4>1. v6'[i] = v4
        BY <1>3, <3>1, <3>2 DEF Percents!TypeOK
      <4> QED BY <1>3, <1>5, <2>1, <3>2, <4>1 DEF Percents!LoopInvariant
    <3>3. CASE i # v5
      <4>1. v6'[i] = v6[i] /\ i < v5
        <5>1. i < v5
          BY <1>3, <2>1, <3>1, <3>3
        <5> QED BY <2>1, <3>1, <3>3, <5>1 DEF Percents!TypeOK
      <4> QED BY <1>5, <2>1, <4>1 DEF Percents!LoopInvariant
    <3> QED BY <3>2, <3>3
  <2>2. ASSUME v5' <= Len(v3), j < v4'
        PROVE  v1[j] < Percents!Search(v5')
    <3>1. v5' \in 1..Len(v3) /\ v5 <= v5'
      BY <1>3, <2>2 DEF Percents!Found, Percents!TypeOK
    <3>2. Percents!Search(v5) <= Percents!Search(v5')
      BY <1>3, <1>5, <3>1, PercentilesSearchMonotone
    <3>3. v1[j] < Percents!Search(v5)
      BY <1>3, <1>5, <2>2 DEF Percents!Found, Percents!LoopInvariant, Percents!inputs
    <3>4. v1[j] \in Nat /\ Percents!Search(v5) \in Nat /\ Percents!Search(v5') \in Nat
      BY <1>2, <1>3, <3>1, PercentilesElements
    <3> QED BY <3>2, <3>3, <3>4
  <2> QED BY <2>1, <2>2
<1>6. UNCHANGED <<Percents!inputs, v4, v7>> /\ v7 = "loop"
  BY DEF Percents!Found, Percents!Looping
<1>7. Percents!LoopInvariant'
  <2>1. ASSUME Percents!Ascending', NEW j \in (1..Len(v1))'
        PROVE  /\ \A i \in (1..Len(v3))' :
                    i < v5' /\ j < v6'[i] => v1'[j] < Percents!Search(i)'
               /\ v5' <= Len(v3') /\ j < v4' => v1'[j] < Percents!Search(v5)'
    <3>1. v5' <= Len(v3) => v5' \in 1..Len(v3)
      BY <1>3 DEF Percents!Found
    <3>2. v5' <= Len(v3) => Percents!Search(v5)' = Percents!Search(v5')
      BY <3>1, <1>6 DEF Percents!Search, Percents!inputs
    <3> QED BY <1>2, <1>5, <1>6, <2>1, <3>1, <3>2 DEF Percents!inputs
  <2> QED BY <1>4, <1>6, <2>1 DEF Percents!LoopInvariant, Percents!inputs
<1> QED BY <1>1, <1>7

LEMMA PercentilesNextBucket == ASSUME Percents!Inv, Percents!NextBucket PROVE Percents!Inv'
<1> USE DEF Percents!Inv
<1>1. Percents!TypeOK'
  BY DEF Percents!NextBucket, Percents!Looping, Percents!TypeOK, Percents!inputs
<1>2. /\ \A i \in 1..Len(v3) : Percents!Search(i)' = Percents!Search(i)
      /\ Percents!Ascending' <=> Percents!Ascending
  BY DEF Percents!NextBucket, Percents!inputs, Percents!Search, Percents!Ascending
<1>3. v5 \in 1..Len(v3) /\ v4 \in 1..Len(v1) /\ v1[v4] \in Nat
  BY PercentilesElements DEF Percents!NextBucket, Percents!Looping, Percents!TypeOK
<1>4. UNCHANGED <<Percents!inputs, v5, v6, v7>> /\ v4' = v4 + 1 /\ v7 = "loop"
  BY DEF Percents!NextBucket, Percents!Looping
<1>5. ASSUME NEW i \in (1..Len(v3))'
      PROVE  /\ i < v5' => v6'[i] \in (1..Len(v1))' /\ Percents!Search(i)' <= v1'[v6'[i]]
             /\ i >= v5' => v6'[i] = 0
  BY <1>2, <1>4 DEF Percents!LoopInvariant, Percents!inputs
<1>6. ASSUME Percents!Ascending, NEW j \in 1..Len(v1)
      PROVE  /\ \A i \in 1..Len(v3) : i < v5 /\ j < v6[i] => v1[j] < Percents!Search(i)
             /\ j < v4' => v1[j] < Percents!Search(v5)
  <2>1. ASSUME j < v4' PROVE v1[j] < Percents!Search(v5)
    <3>1. j < v4 \/ j = v4
      BY <1>3, <1>4, <2>1
    <3>2. CASE j < v4
      BY <1>3, <1>6, <3>2 DEF Percents!LoopInvariant
    <3>3. CASE j = v4
      BY <1>3, <3>3, PercentilesSearch DEF Percents!NextBucket
    <3> QED BY <3>1, <3>2, <3>3
  <2> QED BY <1>6, <2>1 DEF Percents!LoopInvariant
<1>7. Percents!LoopInvariant'
  BY <1>2, <1>3, <1>4, <1>5, <1>6 DEF Percents!LoopInvariant, Percents!inputs
<1> QED BY <1>1, <1>7

LEMMA PercentilesNext == Percents!Inv /\ [Percents!Next]_(Percents!vars) => Percents!Inv'
<1> SUFFICES ASSUME Percents!Inv, [Percents!Next]_(Percents!vars) PROVE Percents!Inv'
  OBVIOUS
<1>1. CASE Percents!Found
  BY <1>1, PercentilesFound
<1>2. CASE Percents!NextBucket
  BY <1>2, PercentilesNextBucket
<1>3. CASE Percents!Return
  <2>1. Percents!TypeOK'
    BY <1>3 DEF Percents!Return, Percents!Inv, Percents!TypeOK, Percents!inputs
  <2>2. Percents!LoopInvariant'
    BY <1>3 DEF Percents!Return, Percents!Looping, Percents!Inv, Percents!LoopInvariant,
       Percents!TypeOK, Percents!inputs, Percents!Search, Percents!Ascending
  <2> QED BY <2>1, <2>2 DEF Percents!Inv
<1>4. CASE UNCHANGED Percents!vars
  BY <1>4 DEF Percents!vars, Percents!Inv, Percents!TypeOK, Percents!LoopInvariant,
     Percents!Search, Percents!Ascending
<1> QED BY <1>1, <1>2, <1>3, <1>4 DEF Percents!Next

LEMMA PercentilesCorrect == Percents!Inv => Percents!Correct
<1> SUFFICES ASSUME Percents!Inv, v7 = "done", Percents!Ascending, NEW i \in 1..Len(v3)
             PROVE  Percents!IsPercentile(v3[i], v6[i])
  BY DEF Percents!Correct
<1> DEFINE Holds(j) == Percents!HoldsShare(v1[j], v3[i])
<1>1. \A j \in 1..Len(v1) : v1[j] \in Nat
  BY PercentilesElements DEF Percents!Inv
<1>2. Percents!Search(i) \in Nat /\ \A j \in 1..Len(v1) : Percents!Search(i) <= v1[j] <=> Holds(j)
  <2>1. ASSUME NEW j \in 1..Len(v1) PROVE Percents!Search(i) <= v1[j] <=> Holds(j)
    BY <1>1, PercentilesSearch DEF Percents!Inv
  <2>2. Percents!Search(i) \in Nat
    BY PercentilesSearch DEF Percents!Inv
  <2> QED BY <2>1, <2>2
<1>3. v6[i] # 0 => v6[i] \in 1..Len(v1) /\ Holds(v6[i])
  <2>1. v5 \in Int
    BY DEF Percents!Inv, Percents!TypeOK
  <2>2. i < v5 \/ i >= v5
    BY <2>1
  <2>3. v6[i] # 0 => v6[i] \in 1..Len(v1) /\ Percents!Search(i) <= v1[v6[i]]
    BY <2>2 DEF Percents!Inv, Percents!LoopInvariant
  <2> QED BY <1>2, <2>3
<1>4. ASSUME NEW j \in 1..Len(v1), v6[i] = 0 \/ j < v6[i]
      PROVE  ~Holds(j)
  <2>1. CASE i < v5
    <3>1. v1[j] < Percents!Search(i)
      BY <1>4, <2>1 DEF Percents!Inv, Percents!LoopInvariant
    <3> QED BY <1>1, <1>2, <3>1
  <2>2. CASE i >= v5
    <3>1. v5 \in 1..Len(v3) /\ j < v4
      <4>1. /\ v5 \in 1..(Len(v3) + 1) /\ v4 \in 1..(Len(v1) + 1)
            /\ Len(v1) \in Nat /\ Len(v3) \in Nat
        BY DEF Percents!Inv, Percents!TypeOK
      <4>2. v5 <= Len(v3)
        BY <2>2, <4>1
      <4>3. v4 > Len(v1)
        BY <4>1, <4>2 DEF Percents!Inv, Percents!LoopInvariant
      <4> QED BY <4>1, <4>2, <4>3
    <3>2. v1[j] < Percents!Search(v5)
      BY <3>1 DEF Percents!Inv, Percents!LoopInvariant
    <3>3. Percents!Search(v5) <= Percents!Search(i) /\ Percents!Search(v5) \in Nat
      BY <2>2, <3>1, PercentilesSearchMonotone, PercentilesSearch DEF Percents!Inv
    <3> QED BY <1>1, <1>2, <3>2, <3>3
  <2> QED BY <2>1, <2>2 DEF Percents!Inv, Percents!TypeOK
<1> QED BY <1>3, <1>4 DEF Percents!IsPercentile

LEMMA PercentilesAlways == Spec => [](focus = "percentiles" => Percents!Inv)
<1> DEFINE Holds == focus = "percentiles" => Percents!Inv
<1>1. Init => Holds
  BY PercentilesInit DEF Init
<1>2. Holds /\ [Next]_vars => Holds'
  <2>1. ASSUME Holds, Next PROVE Holds'
    BY <2>1, PercentilesNext DEF Next
  <2>2. ASSUME Holds, UNCHANGED vars PROVE Holds'
    BY <2>2, PercentilesNext DEF vars, Percents!vars, Percents!inputs
  <2> QED
    BY <2>1, <2>2
<1> QED
  BY <1>1, <1>2, PTL DEF Spec

\* For ascending percentiles the single pass of percentiles_on_sample returns what the
\* definition of a percentile says, for histograms of any length and counts.
THEOREM PassIsCorrect == Spec => []PercentilesAreRight
<1> DEFINE Holds == focus = "percentiles" => Percents!Inv
<1>1. Holds => PercentilesAreRight
  BY PercentilesCorrect DEF PercentilesAreRight
<1> QED
  BY <1>1, PercentilesAlways, PTL

-----------------------------------------------------------------------------
(* The keys of Consul.                                                    *)

\* The chunks of a transaction have all of the layers.
LEMMA ConsulLayers ==
  /\ Consul!Layers \in Seq(Consul!Settings) /\ Len(Consul!Layers) = 3
  /\ \A j \in 1..3 : Consul!Layers[j] \in Consul!Settings
  /\ \A k \in Consul!Settings : \E j \in 1..3 : k = Consul!Layers[j]
  /\ \A i, j \in 1..3 : Consul!Layers[i] = Consul!Layers[j] => i = j
BY DEF Consul!Layers, Consul!Settings

LEMMA ConsulChunks ==
  /\ Len(Consul!Chunks) \in Nat /\ Consul!Chunks = [i \in 1..Len(Consul!Chunks) |-> Consul!Chunks[i]]
  /\ \A i \in 1..Len(Consul!Chunks) : Consul!Chunks[i] \subseteq Consul!Settings
  /\ \A k \in Consul!Settings : \E i \in 1..Len(Consul!Chunks) : k \in Consul!Chunks[i]
<1> DEFINE size == ChunkSize
           m == (3 + size - 1) \div size
           chunk(i) == {Consul!Layers[j] : j \in {n \in 1..3 : size * (i - 1) < n /\ n <= size * i}}
<1>1. size \in Nat \ {0}
  BY BoundsAssumption
<1>2. m \in Nat /\ m >= 1
  <2>1. CASE size >= 3
    BY <1>1, <2>1
  <2>2. CASE size \in {1, 2}
    BY <2>2
  <2> QED
    BY <1>1, <2>1, <2>2
<1>3. Len(Consul!Layers) = 3 /\ \A j \in 1..3 : Consul!Layers[j] \in Consul!Settings
  BY ConsulLayers
<1>4. Consul!Chunks = [i \in 1..m |-> chunk(i)]
  BY <1>3, Zenon DEF Consul!Chunks, Consul!divide_chunks
<1>5. \A i \in 1..m : chunk(i) \subseteq Consul!Settings
  BY <1>3, Zenon
<1>6. ASSUME NEW j \in 1..3
      PROVE  \E i \in 1..m : size * (i - 1) < j /\ j <= size * i
  <2>1. CASE size >= 3
    <3>1. size * (1 - 1) < j /\ j <= size * 1
      BY <1>1, <2>1
    <3> QED
      BY <1>2, <3>1
  <2>2. CASE size = 1
    <3>1. size * (j - 1) < j /\ j <= size * j /\ m = 3
      BY <2>2
    <3> QED
      BY <3>1
  <2>3. CASE size = 2
    <3>1. m = 2
      BY <2>3
    <3> QED
      BY <2>3, <3>1
  <2> QED
    BY <1>1, <2>1, <2>2, <2>3
<1>7. ASSUME NEW k \in Consul!Settings PROVE \E i \in 1..m : k \in chunk(i)
  <2>1. PICK j \in 1..3 : k = Consul!Layers[j]
    BY ConsulLayers
  <2>2. PICK i \in 1..m : size * (i - 1) < j /\ j <= size * i
    BY <1>6
  <2> QED
    BY <2>1, <2>2
<1> HIDE DEF m, chunk
<1>8. Len(Consul!Chunks) = m /\ \A i \in 1..m : Consul!Chunks[i] = chunk(i)
  BY <1>2, <1>4
<1> QED
  BY <1>2, <1>4, <1>5, <1>7, <1>8

\* The requests of each call.
ConsulReads == [i \in 1..3 |-> <<"read", Consul!Layers[i]>>]
ConsulWrites == [i \in 1..Len(Consul!Chunks) |-> <<"txn", Consul!Chunks[i]>>]
ConsulChecks ==
  <<<<"put", "test_key">>, <<"get", "test_key">>, <<"delete", "test_key">>,
    <<"services", "consul">>, <<"put", "test_key_int">>, <<"get", "test_key_int">>>>
ConsulClears == <<<<"rm", "files">>, <<"docker_start", "consul">>, <<"wait", "leader">>>>
ConsulStarts == <<<<"docker_restart", "consul">>, <<"wait", "leader">>>>
ConsulUpdates == <<<<"delete", "OVERRIDE">>, <<"put", "OVERRIDE">>>>
ConsulPut == <<<<"put", "OVERRIDE">>>>
ConsulDelete == <<<<"delete", "OVERRIDE">>>>
ConsulGet == <<<<"get", "OVERRIDE">>>>
ConsulStop == <<<<"docker_stop", "consul">>>>
ConsulPing == <<<<"leader", "consul">>>>

ConsulIs(p, op, ks, requests) == p.op = op /\ p.keys = ks /\ p.requests = requests

LEMMA ConsulPlans ==
  ASSUME NEW p \in Consul!Plans
  PROVE  \/ ConsulIs(p, "put_key", {"OVERRIDE"}, ConsulPut)
         \/ ConsulIs(p, "update_key_value", {"OVERRIDE"}, ConsulUpdates)
         \/ ConsulIs(p, "delete_key", {"OVERRIDE"}, ConsulDelete)
         \/ ConsulIs(p, "get_key", {"OVERRIDE"}, ConsulGet)
         \/ ConsulIs(p, "get_key_layered", Consul!Settings, ConsulReads)
         \/ ConsulIs(p, "transaction", Consul!Settings, ConsulWrites)
         \/ ConsulIs(p, "verify_functionality", {"test_key", "test_key_int"}, ConsulChecks)
         \/ ConsulIs(p, "clear_and_start", Consul!Keys, ConsulClears)
         \/ ConsulIs(p, "start", {}, ConsulStarts)
         \/ ConsulIs(p, "stop", {}, ConsulStop)
         \/ ConsulIs(p, "ping", {}, ConsulPing)
<1>1. \A op, ks, r : ConsulIs(Consul!Plan(op, ks, r), op, ks, r)
  BY DEF Consul!Plan, ConsulIs
<1>2. CASE p \in Consul!KeyPlans
  <2>1. \/ p = Consul!Plan("put_key", {"OVERRIDE"}, ConsulPut)
        \/ p = Consul!Plan("update_key_value", {"OVERRIDE"}, ConsulUpdates)
        \/ p = Consul!Plan("delete_key", {"OVERRIDE"}, ConsulDelete)
        \/ p = Consul!Plan("get_key", {"OVERRIDE"}, ConsulGet)
    BY <1>2, Zenon DEF Consul!KeyPlans, ConsulPut, ConsulUpdates, ConsulDelete, ConsulGet
  <2> QED
    BY <1>1, <2>1, Zenon
<1>3. CASE p \notin Consul!KeyPlans
  <2>1. \/ p = Consul!Plan("get_key_layered", Consul!Settings, ConsulReads)
        \/ p = Consul!Plan("transaction", Consul!Settings, ConsulWrites)
        \/ p = Consul!Plan("verify_functionality", {"test_key", "test_key_int"}, ConsulChecks)
        \/ p = Consul!Plan("clear_and_start", Consul!Keys, ConsulClears)
        \/ p = Consul!Plan("start", {}, ConsulStarts)
        \/ p = Consul!Plan("stop", {}, ConsulStop)
        \/ p = Consul!Plan("ping", {}, ConsulPing)
    BY <1>3, Zenon DEF Consul!Plans, ConsulStop, ConsulPing, ConsulReads, ConsulWrites, ConsulChecks,
       ConsulClears, ConsulStarts
  <2> QED
    BY <1>1, <2>1, Zenon
<1> QED
  BY <1>2, <1>3

LEMMA ConsulOnesAre ==
  /\ Len(ConsulPut) = 1 /\ ConsulPut[1] = <<"put", "OVERRIDE">>
  /\ Len(ConsulDelete) = 1 /\ ConsulDelete[1] = <<"delete", "OVERRIDE">>
  /\ Len(ConsulGet) = 1 /\ ConsulGet[1] = <<"get", "OVERRIDE">>
  /\ Len(ConsulStop) = 1 /\ ConsulStop[1] = <<"docker_stop", "consul">>
  /\ Len(ConsulPing) = 1 /\ ConsulPing[1] = <<"leader", "consul">>
BY DEF ConsulPut, ConsulDelete, ConsulGet, ConsulStop, ConsulPing

LEMMA ConsulUpdatesAre ==
  /\ Len(ConsulUpdates) = 2
  /\ ConsulUpdates[1] = <<"delete", "OVERRIDE">> /\ ConsulUpdates[2] = <<"put", "OVERRIDE">>
BY DEF ConsulUpdates

LEMMA ConsulStartsAre ==
  /\ Len(ConsulStarts) = 2
  /\ ConsulStarts[1] = <<"docker_restart", "consul">> /\ ConsulStarts[2] = <<"wait", "leader">>
BY DEF ConsulStarts

LEMMA ConsulClearsAre ==
  /\ Len(ConsulClears) = 3
  /\ ConsulClears[1] = <<"rm", "files">> /\ ConsulClears[2] = <<"docker_start", "consul">>
  /\ ConsulClears[3] = <<"wait", "leader">>
BY DEF ConsulClears

LEMMA ConsulChecksAre ==
  /\ Len(ConsulChecks) = 6
  /\ ConsulChecks[1] = <<"put", "test_key">> /\ ConsulChecks[2] = <<"get", "test_key">>
  /\ ConsulChecks[3] = <<"delete", "test_key">> /\ ConsulChecks[4] = <<"services", "consul">>
  /\ ConsulChecks[5] = <<"put", "test_key_int">> /\ ConsulChecks[6] = <<"get", "test_key_int">>
BY DEF ConsulChecks

LEMMA ConsulReadsAre ==
  /\ Len(ConsulReads) = 3
  /\ \A i \in 1..3 : ConsulReads[i] = <<"read", Consul!Layers[i]>>
BY DEF ConsulReads

LEMMA ConsulWritesAre ==
  /\ Len(ConsulWrites) = Len(Consul!Chunks)
  /\ \A i \in 1..Len(ConsulWrites) : ConsulWrites[i] = <<"txn", Consul!Chunks[i]>>
<1>1. Len(Consul!Chunks) \in Nat
  BY ConsulChunks
<1> QED
  BY <1>1 DEF ConsulWrites

\* Every call makes requests, and each is a pair.
LEMMA ConsulPairs ==
  ASSUME NEW p \in Consul!Plans
  PROVE  /\ Len(p.requests) \in Nat \ {0}
         /\ p.requests = [i \in 1..Len(p.requests) |-> p.requests[i]]
         /\ \A i \in 1..Len(p.requests) : Len(p.requests[i]) = 2
<1>1. \A kind, what : Len(<<kind, what>>) = 2
  OBVIOUS
<1>2. ConsulUpdates = [i \in 1..2 |-> ConsulUpdates[i]]
  BY DEF ConsulUpdates
<1>3. ConsulStarts = [i \in 1..2 |-> ConsulStarts[i]]
  BY DEF ConsulStarts
<1>4. ConsulClears = [i \in 1..3 |-> ConsulClears[i]]
  BY DEF ConsulClears
<1>5. ConsulChecks = [i \in 1..6 |-> ConsulChecks[i]]
  BY DEF ConsulChecks
<1>6. ConsulReads = [i \in 1..3 |-> ConsulReads[i]]
  BY DEF ConsulReads
<1>7. ConsulWrites = [i \in 1..Len(ConsulWrites) |-> ConsulWrites[i]]
  BY ConsulChunks, ConsulWritesAre DEF ConsulWrites
<1> DEFINE good(r) == /\ Len(r) \in Nat \ {0} /\ r = [i \in 1..Len(r) |-> r[i]]
                      /\ \A i \in 1..Len(r) : Len(r[i]) = 2
<1>8. good(ConsulUpdates)
  BY <1>1, <1>2, ConsulUpdatesAre
<1>9. good(ConsulStarts)
  <2>1. \A i \in 1..2 : i = 1 \/ i = 2
    OBVIOUS
  <2>2. \A i \in 1..Len(ConsulStarts) : Len(ConsulStarts[i]) = 2
    BY <1>1, <2>1, ConsulStartsAre
  <2> QED
    BY <1>3, <2>2, ConsulStartsAre
<1>10. good(ConsulClears)
  <2>1. \A i \in 1..3 : i = 1 \/ i = 2 \/ i = 3
    OBVIOUS
  <2>2. \A i \in 1..Len(ConsulClears) : Len(ConsulClears[i]) = 2
    BY <1>1, <2>1, ConsulClearsAre
  <2> QED
    BY <1>4, <2>2, ConsulClearsAre
<1>11. good(ConsulChecks)
  BY <1>1, <1>5, ConsulChecksAre
<1>12. good(ConsulReads)
  BY <1>1, <1>6, ConsulReadsAre
<1>13. good(ConsulWrites)
  <2>1. Len(ConsulWrites) \in Nat \ {0}
    <3>1. \E k : k \in Consul!Settings
      BY DEF Consul!Settings
    <3> QED
      BY <3>1, ConsulChunks, ConsulWritesAre
  <2> QED
    BY <2>1, <1>1, <1>7, ConsulWritesAre
<1>14. good(ConsulPut) /\ good(ConsulDelete) /\ good(ConsulGet) /\ good(ConsulStop) /\ good(ConsulPing)
  BY <1>1, ConsulOnesAre DEF ConsulPut, ConsulDelete, ConsulGet, ConsulStop, ConsulPing
<1> HIDE DEF good
<1>15. good(p.requests)
  <2>1. p.requests \in {ConsulUpdates, ConsulReads, ConsulWrites, ConsulChecks, ConsulClears, ConsulStarts,
                      ConsulPut, ConsulDelete, ConsulGet, ConsulStop, ConsulPing}
    BY ConsulPlans, Zenon DEF ConsulIs
  <2> QED
    BY <1>8, <1>9, <1>10, <1>11, <1>12, <1>13, <1>14, <2>1, Zenon
<1> QED
  BY <1>15 DEF good

\* The i-th of the n requests of p is of this kind.
ConsulRow(p, i, op, place, n, kind, what) ==
  /\ p.op = op /\ i = place /\ Len(p.requests) = n
  /\ p.requests[i][1] = kind /\ p.requests[i][2] = what

ConsulListed(p, i) ==
  \/ ConsulRow(p, i, "put_key", 1, 1, "put", "OVERRIDE")
  \/ ConsulRow(p, i, "update_key_value", 1, 2, "delete", "OVERRIDE")
  \/ ConsulRow(p, i, "update_key_value", 2, 2, "put", "OVERRIDE")
  \/ ConsulRow(p, i, "delete_key", 1, 1, "delete", "OVERRIDE")
  \/ ConsulRow(p, i, "get_key", 1, 1, "get", "OVERRIDE")
  \/ ConsulRow(p, i, "verify_functionality", 1, 6, "put", "test_key")
  \/ ConsulRow(p, i, "verify_functionality", 2, 6, "get", "test_key")
  \/ ConsulRow(p, i, "verify_functionality", 3, 6, "delete", "test_key")
  \/ ConsulRow(p, i, "verify_functionality", 4, 6, "services", "consul")
  \/ ConsulRow(p, i, "verify_functionality", 5, 6, "put", "test_key_int")
  \/ ConsulRow(p, i, "verify_functionality", 6, 6, "get", "test_key_int")
  \/ ConsulRow(p, i, "clear_and_start", 1, 3, "rm", "files")
  \/ ConsulRow(p, i, "clear_and_start", 2, 3, "docker_start", "consul")
  \/ ConsulRow(p, i, "clear_and_start", 3, 3, "wait", "leader")
  \/ ConsulRow(p, i, "start", 1, 2, "docker_restart", "consul")
  \/ ConsulRow(p, i, "start", 2, 2, "wait", "leader")
  \/ ConsulRow(p, i, "stop", 1, 1, "docker_stop", "consul")
  \/ ConsulRow(p, i, "ping", 1, 1, "leader", "consul")
  \/ ConsulRow(p, i, "get_key_layered", i, 3, "read", Consul!Layers[i])
  \/ ConsulRow(p, i, "transaction", i, Len(Consul!Chunks), "txn", Consul!Chunks[i])

\* What the i-th request of each call is.
LEMMA ConsulTable ==
  ASSUME NEW p \in Consul!Plans, NEW i \in 1..Len(p.requests)
  PROVE  ConsulListed(p, i)
<1>1. \A kind, what : <<kind, what>>[1] = kind /\ <<kind, what>>[2] = what
  OBVIOUS
<1>2. CASE p.op = "put_key" /\ p.requests = ConsulPut
  BY <1>2, ConsulOnesAre DEF ConsulPut, ConsulRow, ConsulListed
<1>3. CASE p.op = "update_key_value" /\ p.requests = ConsulUpdates
  BY <1>3, ConsulUpdatesAre DEF ConsulUpdates, ConsulRow, ConsulListed
<1>4. CASE p.op = "delete_key" /\ p.requests = ConsulDelete
  BY <1>4, ConsulOnesAre DEF ConsulDelete, ConsulRow, ConsulListed
<1>5. CASE p.op = "get_key" /\ p.requests = ConsulGet
  BY <1>5, ConsulOnesAre DEF ConsulGet, ConsulRow, ConsulListed
<1>6. CASE p.op = "verify_functionality" /\ p.requests = ConsulChecks
  BY <1>6, ConsulChecksAre DEF ConsulChecks, ConsulRow, ConsulListed
<1>7. CASE p.op = "clear_and_start" /\ p.requests = ConsulClears
  BY <1>7, ConsulClearsAre DEF ConsulClears, ConsulRow, ConsulListed
<1>8. CASE p.op = "start" /\ p.requests = ConsulStarts
  BY <1>8, ConsulStartsAre DEF ConsulStarts, ConsulRow, ConsulListed
<1>9. CASE p.op = "stop" /\ p.requests = ConsulStop
  BY <1>9, ConsulOnesAre DEF ConsulStop, ConsulRow, ConsulListed
<1>10. CASE p.op = "ping" /\ p.requests = ConsulPing
  BY <1>10, ConsulOnesAre DEF ConsulPing, ConsulRow, ConsulListed
<1>11. CASE p.op = "get_key_layered" /\ p.requests = ConsulReads
  BY <1>1, <1>11, ConsulReadsAre DEF ConsulRow, ConsulListed
<1>12. CASE p.op = "transaction" /\ p.requests = ConsulWrites
  BY <1>1, <1>12, ConsulWritesAre DEF ConsulRow, ConsulListed
<1> QED
  BY <1>2, <1>3, <1>4, <1>5, <1>6, <1>7, <1>8, <1>9, <1>10, <1>11, <1>12, ConsulPlans, Zenon DEF ConsulIs

\* What each call is about.
LEMMA ConsulKeys ==
  ASSUME NEW p \in Consul!Plans
  PROVE  /\ p.op \in {"put_key", "update_key_value", "delete_key", "get_key"} => p.keys = {"OVERRIDE"}
         /\ p.op \in {"get_key_layered", "transaction"} => p.keys = Consul!Settings
         /\ p.op = "verify_functionality" => p.keys = {"test_key", "test_key_int"}
         /\ p.op = "clear_and_start" => p.keys = Consul!Keys
         /\ p.op \in {"put_key", "update_key_value", "delete_key", "get_key", "get_key_layered",
                      "transaction", "verify_functionality", "clear_and_start", "start", "stop", "ping"}
         /\ p.op = "transaction" => Len(p.requests) = Len(Consul!Chunks)
BY ConsulPlans, ConsulWritesAre DEF ConsulIs

\* Call c is a call of p.
ConsulTyped(c, p) == v5[c].op = p.op /\ v5[c].keys = p.keys
\* Call c makes the i-th of the requests of p next.
ConsulAt(c, p, i) ==
  /\ p \in Consul!Plans /\ i \in 1..Len(p.requests)
  /\ ConsulTyped(c, p)
  /\ Head(v4[c]) = p.requests[i] /\ Tail(v4[c]) = SubSeq(p.requests, i + 1, Len(p.requests))
  /\ Len(v4[c]) = Len(p.requests) - i + 1 /\ Len(Tail(v4[c])) = Len(p.requests) - i
  /\ Tail(v4[c]) = <<>> <=> i = Len(p.requests)

\* What is left of a plan after n requests.
LEMMA ConsulSeq ==
  ASSUME NEW p \in Consul!Plans
  PROVE  \E S : p.requests \in Seq(S)
<1> DEFINE S == {p.requests[i] : i \in 1..Len(p.requests)}
           n == Len(p.requests)
<1>1. n \in Nat /\ p.requests = [i \in 1..n |-> p.requests[i]]
  BY ConsulPairs
<1>2. \A i \in 1..n : p.requests[i] \in S
  OBVIOUS
<1> HIDE DEF S
<1>3. p.requests \in [1..n -> S]
  BY <1>1, <1>2
<1>4. p.requests \in Seq(S)
  BY <1>1, <1>3, SeqDef, Zenon
<1> QED
  BY <1>4

LEMMA ConsulTail ==
  ASSUME NEW p \in Consul!Plans, NEW n \in 0..Len(p.requests), NEW s,
         s = SubSeq(p.requests, n + 1, Len(p.requests))
  PROVE  /\ Len(s) = Len(p.requests) - n /\ (s = <<>> <=> n = Len(p.requests))
         /\ \A i \in 1..Len(s) : Len(s[i]) = 2
         /\ n < Len(p.requests) =>
              /\ Head(s) = p.requests[n + 1]
              /\ Tail(s) = SubSeq(p.requests, n + 1 + 1, Len(p.requests))
<1>1. PICK S : p.requests \in Seq(S)
  BY ConsulSeq
<1> DEFINE m == Len(p.requests)
<1>2. m \in Nat \ {0} /\ \A i \in 1..m : p.requests[i] \in S /\ Len(p.requests[i]) = 2
  BY <1>1, ConsulPairs, ElementOfSeq
<1>3. n \in 0..m /\ n + 1 \in Int /\ m \in Int
  BY <1>2
<1>4. \A i \in (n + 1)..m : p.requests[i] \in S
  BY <1>2, <1>3
<1>5. /\ SubSeq(p.requests, n + 1, m) \in Seq(S)
      /\ Len(SubSeq(p.requests, n + 1, m)) = IF n + 1 <= m THEN m - (n + 1) + 1 ELSE 0
      /\ \A i \in 1..m - (n + 1) + 1 : SubSeq(p.requests, n + 1, m)[i] = p.requests[n + 1 + i - 1]
  BY <1>3, <1>4, SubSeqProperties
<1> HIDE DEF m
<1>6. s \in Seq(S) /\ Len(s) = m - n
  BY <1>3, <1>5 DEF m
<1>7. s = <<>> <=> n = m
  <2>0. Len(<<>>) = 0
    OBVIOUS
  <2>1. ASSUME s = <<>> PROVE Len(s) = 0
    BY <2>0, <2>1, Zenon
  <2>2. ASSUME s # <<>> PROVE Len(s) # 0
    BY <1>6, <2>2, EmptySeq, Zenon
  <2>3. m - n = 0 <=> n = m
    BY <1>3
  <2> QED
    BY <1>6, <2>1, <2>2, <2>3
<1>8. ASSUME NEW i \in 1..Len(s) PROVE Len(s[i]) = 2
  <2>1. i \in 1..(m - (n + 1) + 1) /\ n + 1 + i - 1 \in 1..m
    BY <1>2, <1>3, <1>6
  <2>2. s[i] = p.requests[n + 1 + i - 1]
    BY <1>5, <2>1 DEF m
  <2> QED
    BY <1>2, <2>1, <2>2
<1>9. ASSUME n < m
      PROVE  /\ Head(s) = p.requests[n + 1]
             /\ Tail(s) = SubSeq(p.requests, n + 1 + 1, m)
  <2>1. n + 1 \in 1..Len(p.requests) /\ m \in (n + 1)..Len(p.requests)
    BY <1>2, <1>3, <1>9 DEF m
  <2> QED
    BY <1>1, <2>1, HeadTailOfSubSeq DEF m
<1> QED
  BY <1>6, <1>7, <1>8, <1>9 DEF m

LEMMA ConsulNext ==
  ASSUME NEW c, Consul!Pending(c), v4[c] # <<>>
  PROVE  \E p, i : ConsulAt(c, p, i)
<1>0. PICK p \in Consul!Plans :
        /\ ConsulTyped(c, p)
        /\ \E n \in 0..Len(p.requests) : v4[c] = SubSeq(p.requests, n + 1, Len(p.requests))
  BY Zenon DEF Consul!Pending, ConsulTyped
<1>1. PICK n \in 0..Len(p.requests) : v4[c] = SubSeq(p.requests, n + 1, Len(p.requests))
  BY <1>0
<1>2. Len(p.requests) \in Nat \ {0}
  BY ConsulPairs
<1>3. n < Len(p.requests) /\ n + 1 \in 1..Len(p.requests)
  BY <1>1, <1>2, ConsulTail
<1>4. /\ Len(v4[c]) = Len(p.requests) - n
      /\ Head(v4[c]) = p.requests[n + 1]
      /\ Tail(v4[c]) = SubSeq(p.requests, n + 1 + 1, Len(p.requests))
  BY <1>1, <1>3, ConsulTail
<1>5. n + 1 \in 0..Len(p.requests)
  BY <1>3
<1>6. /\ Len(Tail(v4[c])) = Len(p.requests) - (n + 1)
      /\ Tail(v4[c]) = <<>> <=> n + 1 = Len(p.requests)
  BY <1>4, <1>5, ConsulTail
<1>7. Len(v4[c]) = Len(p.requests) - (n + 1) + 1
  BY <1>2, <1>3, <1>4
<1> QED
  BY <1>0, <1>3, <1>4, <1>6, <1>7 DEF ConsulAt

\* What is pending stays pending when a request has been made, or the call has ended.
LEMMA ConsulStaysPending ==
  ASSUME NEW c, Consul!Pending(c), v5'[c].op = v5[c].op, v5'[c].keys = v5[c].keys,
         v4'[c] \in {v4[c], Tail(v4[c]), <<>>}, v4[c] = <<>> => v4'[c] = <<>>
  PROVE  Consul!Pending(c)'
<1>1. CASE v5[c].op = "none" /\ v4[c] = <<>>
  BY <1>1 DEF Consul!Pending
<1>2. CASE v4'[c] = v4[c]
  BY <1>2, Zenon DEF Consul!Pending
<1>3. CASE v4'[c] = <<>> /\ v5[c].op # "none"
  <2>1. PICK p \in Consul!Plans : ConsulTyped(c, p)
    BY <1>3, Zenon DEF Consul!Pending, ConsulTyped
  <2>2. Len(p.requests) \in Nat
    BY ConsulPairs
  <2>3. SubSeq(p.requests, Len(p.requests) + 1, Len(p.requests)) = <<>>
    BY <2>2, SubSeqEmpty
  <2>4. Len(p.requests) \in 0..Len(p.requests)
    BY <2>2
  <2> QED
    BY <1>3, <2>1, <2>3, <2>4, Zenon DEF Consul!Pending, ConsulTyped
<1>4. CASE v4'[c] = Tail(v4[c]) /\ v4[c] # <<>>
  <2>1. PICK p, i : ConsulAt(c, p, i)
    BY <1>4, ConsulNext
  <2>2. i \in 0..Len(p.requests)
    BY <2>1 DEF ConsulAt
  <2> QED
    BY <1>4, <2>1, <2>2, Zenon DEF Consul!Pending, ConsulAt, ConsulTyped
<1> QED
  BY <1>1, <1>2, <1>3, <1>4, Zenon DEF Consul!Pending

ConsulTypes ==
  /\ v1 \in {"down", "electing", "up"} /\ v2 \subseteq Consul!Keys
  /\ v3 \in BOOLEAN /\ (v3 => v1 # "down")
  /\ v4 = [c \in Actors |-> v4[c]] /\ v5 \in [Actors -> Consul!Calls] /\ v6 \in 0..MaxFaults
  /\ v7 \subseteq ({"OVERRIDE"} \cap Consul!Settings) \ v2

\* The keys are now s, and those with an empty value m: only ks have changed.
ConsulChanges(s, m, ks) ==
  /\ s \subseteq Consul!Keys /\ ks \subseteq Consul!Keys
  /\ m \subseteq ({"OVERRIDE"} \cap Consul!Settings) \ s
  /\ s \ ks = v2 \ ks /\ m \ ks = v7 \ ks

ConsulCallOk(c) ==
  /\ Consul!Pending(c) /\ Consul!Unfinished(c)
  /\ Consul!Written(c) /\ Consul!Seen(c) /\ Consul!Reasons(c)

\* The invariant as the types and what holds of each call.
LEMMA ConsulLeft ==
  ASSUME NEW c, Consul!Pending(c), NEW i \in 1..Len(v4[c])
  PROVE  Len(v4[c][i]) = 2
<1>1. CASE v4[c] = <<>>
  <2>1. Len(<<>>) = 0
    OBVIOUS
  <2>2. i \in 1..0
    BY <1>1, <2>1, Zenon
  <2> QED
    BY <2>2
<1>2. CASE v4[c] # <<>>
  <2>1. PICK p \in Consul!Plans :
          \E n \in 0..Len(p.requests) : v4[c] = SubSeq(p.requests, n + 1, Len(p.requests))
    BY <1>2, Zenon DEF Consul!Pending
  <2>2. PICK n \in 0..Len(p.requests) : v4[c] = SubSeq(p.requests, n + 1, Len(p.requests))
    BY <2>1
  <2>3. /\ Len(v4[c]) = Len(p.requests) - n /\ (v4[c] = <<>> <=> n = Len(p.requests))
        /\ \A j \in 1..Len(v4[c]) : Len(v4[c][j]) = 2
        /\ n < Len(p.requests) =>
             /\ Head(v4[c]) = p.requests[n + 1]
             /\ Tail(v4[c]) = SubSeq(p.requests, n + 1 + 1, Len(p.requests))
    BY <2>2, ConsulTail, Zenon
  <2> QED
    BY <2>3
<1> QED
  BY <1>1, <1>2

LEMMA ConsulInvIs == Consul!Inv <=> ConsulTypes /\ \A c \in Actors : ConsulCallOk(c)
<1>1. ASSUME Consul!Inv PROVE ConsulTypes /\ \A c \in Actors : ConsulCallOk(c)
  BY <1>1 DEF Consul!Inv, Consul!TypeOK, ConsulTypes, ConsulCallOk
<1>2. ASSUME ConsulTypes, \A c \in Actors : ConsulCallOk(c) PROVE Consul!Inv
  <2>1. \A c \in Actors : \A i \in 1..Len(v4[c]) : Len(v4[c][i]) = 2
    BY <1>2, ConsulLeft DEF ConsulCallOk
  <2> QED
    BY <1>2, <2>1 DEF Consul!Inv, Consul!TypeOK, ConsulTypes, ConsulCallOk
<1> QED
  BY <1>1, <1>2

LEMMA ConsulInvPrimed == Consul!Inv' <=> (ConsulTypes /\ \A c \in Actors : ConsulCallOk(c))'
BY ConsulInvIs, PTL

\* Others have seen that the keys are now s and that ks were touched, and so has c, whose call
\* has this result.
ConsulSame(d, s, ks) ==
  /\ v5'[d].op = v5[d].op /\ v5'[d].keys = v5[d].keys /\ v5'[d].result = v5[d].result
  /\ v5'[d].excused = v5[d].excused /\ v5'[d].stays = v5[d].stays \cap s
  /\ v5'[d].touched = IF v5[d].op \in Consul!Reads THEN v5[d].touched
                      ELSE v5[d].touched \cup (ks \cap v5[d].keys)

ConsulMoves(c, s, ks, r, e) ==
  /\ v5'[c].op = v5[c].op /\ v5'[c].keys = v5[c].keys /\ v5'[c].result = r /\ v5'[c].excused = e
  /\ v5'[c].stays = v5[c].stays \cap s /\ v5'[c].touched = v5[c].touched
  /\ \A d \in Actors \ {c} : ConsulSame(d, s, ks)

\* Records of calls, when they are updated.
LEMMA ConsulRecord ==
  ASSUME NEW x \in Consul!Calls
  PROVE  /\ x.keys \subseteq Consul!Keys /\ x.touched \subseteq Consul!Keys /\ x.stays \subseteq Consul!Keys
         /\ x.result \in {"none", "ok", "raised"} \cup Consul!Settings /\ x.excused \in BOOLEAN
         /\ \A r \in {"none", "ok", "raised"} \cup Consul!Settings :
              /\ [x EXCEPT !.result = r] \in Consul!Calls
              /\ \A e \in BOOLEAN : [x EXCEPT !.result = r, !.excused = e] \in Consul!Calls
         /\ \A e \in BOOLEAN : [x EXCEPT !.excused = e] \in Consul!Calls
         /\ \A s, t \in SUBSET Consul!Keys : [x EXCEPT !.stays = s, !.touched = t] \in Consul!Calls
BY DEF Consul!Calls

\* A change of the keys moves its own call and what the others have seen.
LEMMA ConsulStored ==
  ASSUME NEW c \in Actors, NEW s, NEW m, NEW ks, NEW changed \in [Actors -> Consul!Calls],
         changed[c].op = v5[c].op, changed[c].keys = v5[c].keys, changed[c].stays = v5[c].stays,
         changed[c].touched = v5[c].touched, \A d \in Actors \ {c} : changed[d] = v5[d],
         Consul!Store(c, s, m, ks, changed)
  PROVE  /\ v2' = s /\ v7' = m /\ v5' \in [Actors -> Consul!Calls]
         /\ ConsulMoves(c, s, ks, changed[c].result, changed[c].excused)
<1> DEFINE touched(d) == IF d = c \/ changed[d].op \in Consul!Reads THEN changed[d].touched
                         ELSE changed[d].touched \cup (ks \cap changed[d].keys)
           new(d) == [changed[d] EXCEPT !.stays = @ \cap s, !.touched = touched(d)]
<1>1. v2' = s /\ v7' = m /\ v5' = [d \in Actors |-> new(d)]
  BY Zenon DEF Consul!Store
<1>2. ASSUME NEW d \in Actors
      PROVE  /\ new(d) \in Consul!Calls
             /\ new(d).op = changed[d].op /\ new(d).keys = changed[d].keys
             /\ new(d).result = changed[d].result /\ new(d).excused = changed[d].excused
             /\ new(d).stays = changed[d].stays \cap s /\ new(d).touched = touched(d)
  <2>1. changed[d] \in Consul!Calls
    OBVIOUS
  <2>2. /\ changed[d].stays \cap s \in SUBSET Consul!Keys
        /\ touched(d) \in SUBSET Consul!Keys
    BY <2>1, ConsulRecord
  <2> HIDE DEF touched
  <2>3. new(d) \in Consul!Calls
    <3>1. new(d) = [changed[d] EXCEPT !.stays = changed[d].stays \cap s, !.touched = touched(d)]
      BY <2>1 DEF Consul!Calls
    <3> QED
      BY <2>1, <2>2, <3>1, ConsulRecord
  <2>4. /\ new(d).op = changed[d].op /\ new(d).keys = changed[d].keys
        /\ new(d).result = changed[d].result /\ new(d).excused = changed[d].excused
        /\ new(d).stays = changed[d].stays \cap s /\ new(d).touched = touched(d)
    BY <2>1 DEF Consul!Calls
  <2> QED
    BY <2>3, <2>4
<1> HIDE DEF new
<1>3. v5' \in [Actors -> Consul!Calls] /\ \A d \in Actors : v5'[d] = new(d)
  BY <1>1, <1>2
<1>4. touched(c) = v5[c].touched
  OBVIOUS
<1>5. \A d \in Actors \ {c} : touched(d) = IF v5[d].op \in Consul!Reads THEN v5[d].touched
                                          ELSE v5[d].touched \cup (ks \cap v5[d].keys)
  OBVIOUS
<1> HIDE DEF touched
<1>6. ASSUME NEW d \in Actors \ {c} PROVE ConsulSame(d, s, ks)
  <2>1. d \in Actors /\ changed[d] = v5[d] /\ v5'[d] = new(d)
    BY <1>3
  <2>2. /\ v5'[d].op = v5[d].op /\ v5'[d].keys = v5[d].keys
        /\ v5'[d].result = v5[d].result /\ v5'[d].excused = v5[d].excused
        /\ v5'[d].stays = v5[d].stays \cap s
    BY <1>2, <2>1
  <2>3. v5'[d].touched = touched(d)
    BY <1>2, <2>1
  <2> QED
    BY <1>5, <2>2, <2>3, Zenon DEF ConsulSame
<1> QED
  BY <1>1, <1>2, <1>3, <1>4, <1>6, Zenon DEF ConsulMoves

LEMMA ConsulAnswered ==
  ASSUME v5 \in [Actors -> Consul!Calls], NEW c \in Actors, NEW t
  PROVE  LET x == Consul!Answered(c, t)
         IN  /\ x \in [Actors -> Consul!Calls] /\ \A d \in Actors \ {c} : x[d] = v5[d]
             /\ x[c].op = v5[c].op /\ x[c].keys = v5[c].keys /\ x[c].stays = v5[c].stays
             /\ x[c].touched = v5[c].touched /\ x[c].excused = v5[c].excused
             /\ x[c].result = IF t = <<>> THEN "ok" ELSE v5[c].result
<1> DEFINE r == IF t = <<>> THEN "ok" ELSE v5[c].result
           new == [v5[c] EXCEPT !.result = r]
<1>1. v5[c] \in Consul!Calls
  OBVIOUS
<1>2. r \in {"none", "ok", "raised"} \cup Consul!Settings
  BY <1>1, ConsulRecord
<1>3. Consul!Answered(c, t) = [v5 EXCEPT ![c] = new]
  BY <1>1, Zenon DEF Consul!Answered
<1> HIDE DEF r
<1>4. new \in Consul!Calls
  BY <1>1, <1>2, ConsulRecord
<1>5. /\ new.op = v5[c].op /\ new.keys = v5[c].keys /\ new.stays = v5[c].stays
      /\ new.touched = v5[c].touched /\ new.excused = v5[c].excused /\ new.result = r
  BY <1>1 DEF Consul!Calls
<1> HIDE DEF new
<1> DEFINE x == Consul!Answered(c, t)
<1>6. x \in [Actors -> Consul!Calls] /\ \A d \in Actors \ {c} : x[d] = v5[d]
  BY <1>3, <1>4
<1>7. x[c] = new
  BY <1>3
<1> HIDE DEF x
<1>8. x[c].result = IF t = <<>> THEN "ok" ELSE v5[c].result
  BY <1>5, <1>7 DEF r
<1> QED
  BY <1>5, <1>6, <1>7, <1>8 DEF x

\* What others do to the keys takes nothing from call d but what they have touched.
LEMMA ConsulOther ==
  ASSUME Consul!Inv, NEW d \in Actors, NEW s, NEW m, NEW ks, ConsulChanges(s, m, ks),
         ConsulSame(d, s, ks), v4'[d] = v4[d], v2' = s, v7' = m
  PROVE  ConsulCallOk(d)'
<1>1. ConsulCallOk(d) /\ v5[d] \in Consul!Calls /\ v2 \subseteq Consul!Keys
  BY ConsulInvIs DEF ConsulTypes
<1>2. Consul!Pending(d)'
  BY <1>1, ConsulStaysPending DEF ConsulCallOk, ConsulSame
<1>3. Consul!Unfinished(d)'
  BY <1>1 DEF ConsulCallOk, ConsulSame, Consul!Unfinished
<1>0. s \ ks = v2 \ ks /\ (s \cup m) \ ks = (v2 \cup v7) \ ks
      /\ s \subseteq Consul!Keys /\ m \subseteq Consul!Keys
  BY DEF ConsulChanges, Consul!Keys
<1> DEFINE own == v5[d].keys \ v5[d].touched
<1>4. v5[d].op \notin Consul!Reads => v5'[d].keys \ v5'[d].touched = own \ ks
  BY DEF ConsulSame
<1>5. own \subseteq Consul!Keys
  BY <1>1, ConsulRecord
<1>6. Consul!Written(d)'
  <2>0. Consul!Written(d)
    BY <1>1 DEF ConsulCallOk
  <2>1. CASE v5[d].op \in {"put_key", "update_key_value"}
    <3>1. v5[d].result # "raised" /\ Len(v4[d]) = 0 => own \subseteq v2 \cup v7
      BY <2>0, <2>1 DEF Consul!Written
    <3>2. v5[d].result # "raised" /\ Len(v4[d]) = 0 => own \ ks \subseteq s \cup m
      BY <1>0, <3>1
    <3> QED
      BY <1>4, <2>1, <3>2 DEF Consul!Written, ConsulSame, Consul!Reads
  <2>2. CASE v5[d].op = "delete_key"
    <3>1. v5[d].result # "raised" /\ Len(v4[d]) = 0 => own \cap (v2 \cup v7) = {}
      BY <2>0, <2>2 DEF Consul!Written
    <3>2. v5[d].result # "raised" /\ Len(v4[d]) = 0 => (own \ ks) \cap (s \cup m) = {}
      BY <1>0, <3>1
    <3> QED
      BY <1>4, <2>2, <3>2 DEF Consul!Written, ConsulSame, Consul!Reads
  <2>3. CASE v5[d].op = "transaction"
    <3>1. v5[d].result # "raised" =>
            \A i \in 1..(Len(Consul!Chunks) - Len(v4[d])) : own \cap Consul!Chunks[i] \subseteq v2 \cup v7
      BY <2>0, <2>3, Zenon DEF Consul!Written
    <3>2. v5[d].result # "raised" =>
            \A i \in 1..(Len(Consul!Chunks) - Len(v4[d])) : (own \ ks) \cap Consul!Chunks[i] \subseteq s \cup m
      BY <1>0, <3>1
    <3>3. v5'[d].keys \ v5'[d].touched = own \ ks
      BY <1>4, <2>3 DEF Consul!Reads
    <3> HIDE DEF own
    <3> QED
      BY <2>3, <3>2, <3>3 DEF Consul!Written, ConsulSame
  <2>4. CASE v5[d].op = "verify_functionality"
    <3>1. ConsulCallOk(d) /\ v5[d].op # "none"
      BY <1>1, <2>4
    <3>2. v5[d].keys = {"test_key", "test_key_int"}
      <4>1. PICK p \in Consul!Plans : v5[d].op = p.op /\ v5[d].keys = p.keys
        BY <3>1, Zenon DEF ConsulCallOk, Consul!Pending
      <4> QED
        BY <2>4, <4>1, ConsulKeys
    <3>3. \A k \in {"test_key", "test_key_int"} :
             k \in v2 \cup v5[d].touched => k \in s \cup (v5[d].touched \cup (ks \cap v5[d].keys))
      BY <1>0, <3>2
    <3>4. v5'[d].touched = v5[d].touched \cup (ks \cap v5[d].keys)
      BY <2>4 DEF ConsulSame, Consul!Reads
    <3> QED
      BY <2>0, <2>4, <3>3, <3>4 DEF Consul!Written, ConsulSame
  <2>5. CASE v5[d].op = "clear_and_start"
    <3>1. v5[d].keys = Consul!Keys
      <4>1. PICK p \in Consul!Plans : v5[d].op = p.op /\ v5[d].keys = p.keys
        BY <1>1, <2>5, Zenon DEF ConsulCallOk, Consul!Pending
      <4> QED
        BY <2>5, <4>1, ConsulKeys
    <3>2. v2 \cup v7 \subseteq v5[d].touched => s \cup m \subseteq v5[d].touched \cup (ks \cap v5[d].keys)
      BY <1>0, <3>1
    <3>3. v5'[d].touched = v5[d].touched \cup (ks \cap v5[d].keys)
      BY <2>5 DEF ConsulSame, Consul!Reads
    <3> QED
      BY <2>0, <2>5, <3>2, <3>3 DEF Consul!Written, ConsulSame
  <2>6. CASE v5[d].op \notin {"put_key", "update_key_value", "delete_key", "transaction",
                              "verify_functionality", "clear_and_start"}
    BY <2>6 DEF Consul!Written, ConsulSame
  <2> QED
    BY <2>1, <2>2, <2>3, <2>4, <2>5, <2>6
<1>7. Consul!Seen(d)'
  <2>1. Consul!Seen(d)
    BY <1>1 DEF ConsulCallOk
  <2>2. v5'[d].stays \subseteq s /\ v5'[d].stays \subseteq v5[d].stays
    BY DEF ConsulSame
  <2> QED
    BY <2>1, <2>2 DEF Consul!Seen, ConsulSame
<1>8. Consul!Reasons(d)'
  <2>1. Consul!Reasons(d)
    BY <1>1 DEF ConsulCallOk
  <2>2. v5'[d].stays \subseteq v5[d].stays /\ v5[d].touched \subseteq v5'[d].touched
    BY DEF ConsulSame
  <2> QED
    BY <2>1, <2>2 DEF Consul!Reasons, ConsulSame
<1> QED
  BY <1>2, <1>3, <1>6, <1>7, <1>8 DEF ConsulCallOk

\* A step of call c.
LEMMA ConsulStep ==
  ASSUME Consul!Inv, NEW c \in Actors, NEW s, NEW m, NEW ks, NEW r, NEW e, NEW t,
         ConsulChanges(s, m, ks), v5' \in [Actors -> Consul!Calls],
         ConsulMoves(c, s, ks, r, e), v4' = [v4 EXCEPT ![c] = t], v2' = s, v7' = m,
         v1' \in {"down", "electing", "up"}, v3' \in BOOLEAN, v3' => v1' # "down",
         v6' \in 0..MaxFaults, ConsulCallOk(c)'
  PROVE  Consul!Inv'
<1>1. v4 = [d \in Actors |-> v4[d]]
  BY ConsulInvIs DEF ConsulTypes
<1>2. v4' = [d \in Actors |-> v4'[d]] /\ \A d \in Actors \ {c} : v4'[d] = v4[d]
  BY <1>1
<1>3. ASSUME NEW d \in Actors \ {c} PROVE ConsulCallOk(d)'
  BY <1>2, ConsulOther DEF ConsulMoves
<1>4. ConsulTypes'
  BY <1>2 DEF ConsulTypes, ConsulChanges
<1> QED
  BY <1>3, <1>4, ConsulInvPrimed

\* A request that has been answered.
LEMMA ConsulReturns ==
  ASSUME Consul!Inv, NEW c \in Actors, v4[c] # <<>>, NEW s, NEW ks, NEW e, NEW t,
         t \in {Tail(v4[c]), <<>>}, v4'[c] = t, v2' = s,
         ConsulMoves(c, s, ks, IF t = <<>> THEN "ok" ELSE v5[c].result, e),
         Consul!Written(c)', v5[c].op = "get_key_layered" => Consul!Seen(c)'
  PROVE  ConsulCallOk(c)'
<1>1. ConsulCallOk(c)
  BY ConsulInvIs
<1>2. Consul!Pending(c)'
  BY <1>1, ConsulStaysPending DEF ConsulCallOk, ConsulMoves
<1>3. v5[c].result = "none"
  BY <1>1 DEF ConsulCallOk, Consul!Unfinished
<1>4. Consul!Unfinished(c)' /\ v5'[c].result \in {"ok", "none"}
  BY <1>3 DEF ConsulMoves, Consul!Unfinished
<1>5. Consul!Seen(c)'
  BY DEF ConsulMoves, Consul!Seen
<1>6. Consul!Reasons(c)'
  BY <1>4 DEF Consul!Reasons
<1> QED
  BY <1>2, <1>4, <1>5, <1>6 DEF ConsulCallOk

\* A call that has raised.
LEMMA ConsulRaises ==
  ASSUME Consul!Inv, NEW c \in Actors, v4[c] # <<>>, NEW s, NEW ks, NEW e,
         v4'[c] = <<>>, v2' = s, ConsulMoves(c, s, ks, "raised", e), e = TRUE \/ Consul!Reasons(c)'
  PROVE  ConsulCallOk(c)'
<1>1. ConsulCallOk(c)
  BY ConsulInvIs
<1>2. Consul!Pending(c)'
  BY <1>1, ConsulStaysPending DEF ConsulCallOk, ConsulMoves
<1>3. Consul!Unfinished(c)' /\ Consul!Written(c)' /\ Consul!Seen(c)' /\ Consul!Reasons(c)'
  BY DEF ConsulMoves, Consul!Unfinished, Consul!Written, Consul!Seen, Consul!Reasons
<1> QED
  BY <1>2, <1>3 DEF ConsulCallOk

\* Where c is in its call when it makes a request of this kind.
LEMMA ConsulPlace ==
  ASSUME Consul!Inv, NEW c \in Actors, v4[c] # <<>>
  PROVE  \E p, i : ConsulAt(c, p, i) /\ ConsulListed(p, i)
<1>1. PICK p, i : ConsulAt(c, p, i)
  BY ConsulNext, ConsulInvIs DEF ConsulCallOk
<1> QED
  BY <1>1, ConsulTable DEF ConsulAt

LEMMA ConsulPutPlace ==
  ASSUME NEW p, NEW i, NEW c, ConsulAt(c, p, i), ConsulListed(p, i), Head(v4[c])[1] = "put"
  PROVE  LET k == Head(v4[c])[2]
         IN  /\ k \in Consul!Keys
             /\ \/ v5[c].op \in {"put_key", "update_key_value"} /\ v5[c].keys = {k}
                \/ /\ v5[c].op = "verify_functionality" /\ Len(p.requests) = 6
                   /\ (i = 1 /\ k = "test_key") \/ (i = 5 /\ k = "test_key_int")
BY ConsulKeys DEF ConsulAt, ConsulListed, ConsulRow, ConsulTyped, Consul!Keys, Consul!Settings

LEMMA ConsulDeletePlace ==
  ASSUME NEW p, NEW i, NEW c, ConsulAt(c, p, i), ConsulListed(p, i), Head(v4[c])[1] = "delete"
  PROVE  LET k == Head(v4[c])[2]
         IN  /\ k \in Consul!Keys
             /\ \/ v5[c].op = "update_key_value" /\ i = 1 /\ Len(p.requests) = 2
                \/ v5[c].op = "delete_key" /\ v5[c].keys = {k}
                \/ v5[c].op = "verify_functionality" /\ i = 3 /\ Len(p.requests) = 6
BY ConsulKeys DEF ConsulAt, ConsulListed, ConsulRow, ConsulTyped, Consul!Keys, Consul!Settings

LEMMA ConsulTxnPlace ==
  ASSUME NEW p, NEW i, NEW c, ConsulAt(c, p, i), ConsulListed(p, i), Head(v4[c])[1] = "txn"
  PROVE  /\ v5[c].op = "transaction" /\ Head(v4[c])[2] = Consul!Chunks[i]
         /\ Len(p.requests) = Len(Consul!Chunks)
BY ConsulKeys DEF ConsulAt, ConsulListed, ConsulRow, ConsulTyped

LEMMA ConsulGetPlace ==
  ASSUME NEW p, NEW i, NEW c, ConsulAt(c, p, i), ConsulListed(p, i), Head(v4[c])[1] = "get"
  PROVE  LET k == Head(v4[c])[2]
         IN  \/ v5[c].op = "get_key" /\ v5[c].keys = {k}
             \/ /\ v5[c].op = "verify_functionality" /\ Len(p.requests) = 6
                /\ (i = 2 /\ k = "test_key") \/ (i = 6 /\ k = "test_key_int")
BY ConsulKeys DEF ConsulAt, ConsulListed, ConsulRow, ConsulTyped

LEMMA ConsulReadPlace ==
  ASSUME NEW p, NEW i, NEW c, ConsulAt(c, p, i), ConsulListed(p, i), Head(v4[c])[1] = "read"
  PROVE  /\ v5[c].op = "get_key_layered" /\ Head(v4[c])[2] = Consul!Layers[i]
         /\ Len(p.requests) = 3 /\ i \in 1..3
BY ConsulKeys DEF ConsulAt, ConsulListed, ConsulRow, ConsulTyped

LEMMA ConsulServerPlace ==
  ASSUME NEW p, NEW i, NEW c, ConsulAt(c, p, i), ConsulListed(p, i)
  PROVE  /\ Head(v4[c])[1] = "services" =>
              v5[c].op = "verify_functionality" /\ i = 4 /\ Len(p.requests) = 6
         /\ Head(v4[c])[1] = "leader" => v5[c].op = "ping"
         /\ Head(v4[c])[1] = "rm" =>
              v5[c].op = "clear_and_start" /\ i = 1 /\ Len(p.requests) = 3
         /\ Head(v4[c])[1] = "docker_stop" => v5[c].op = "stop"
         /\ Head(v4[c])[1] = "docker_restart" => v5[c].op = "start"
         /\ Head(v4[c])[1] = "docker_start" =>
              v5[c].op = "clear_and_start" /\ i = 2 /\ Len(p.requests) = 3
         /\ Head(v4[c])[1] = "wait" =>
              v5[c].op \in {"clear_and_start", "start"} /\ i = Len(p.requests)
BY ConsulKeys DEF ConsulAt, ConsulListed, ConsulRow, ConsulTyped

\* A request that touches no key: only its own call changes.
LEMMA ConsulQuiet ==
  ASSUME Consul!Inv, NEW c \in Actors, v5' \in [Actors -> Consul!Calls],
         \A d \in Actors \ {c} : v5'[d] = v5[d],
         v5'[c].op = v5[c].op, v5'[c].keys = v5[c].keys, v5'[c].stays = v5[c].stays,
         v5'[c].touched = v5[c].touched
  PROVE  ConsulMoves(c, v2, {}, v5'[c].result, v5'[c].excused)
<1>1. \A d \in Actors : v5[d].stays \cap v2 = v5[d].stays
  BY ConsulInvIs DEF ConsulCallOk, Consul!Seen
<1>2. \A ks : {} \cap ks = {}
  OBVIOUS
<1>3. \A t : t \cup {} = t
  OBVIOUS
<1>4. ASSUME NEW d \in Actors \ {c} PROVE ConsulSame(d, v2, {})
  BY <1>1, <1>2, <1>3 DEF ConsulSame
<1> QED
  BY <1>1, <1>4 DEF ConsulMoves

ConsulRaisedBy(c, why) == [v5 EXCEPT ![c].result = "raised", ![c].excused = why]

LEMMA ConsulRaised ==
  ASSUME v5 \in [Actors -> Consul!Calls], NEW c \in Actors, NEW why \in BOOLEAN
  PROVE  LET x == ConsulRaisedBy(c, why)
         IN  /\ x \in [Actors -> Consul!Calls] /\ \A d \in Actors \ {c} : x[d] = v5[d]
             /\ x[c].op = v5[c].op /\ x[c].keys = v5[c].keys /\ x[c].stays = v5[c].stays
             /\ x[c].touched = v5[c].touched /\ x[c].excused = why /\ x[c].result = "raised"
<1> DEFINE new == [v5[c] EXCEPT !.result = "raised", !.excused = why]
<1>1. v5[c] \in Consul!Calls
  OBVIOUS
<1> DEFINE x == ConsulRaisedBy(c, why)
<1>2. x = [v5 EXCEPT ![c] = new]
  BY <1>1 DEF ConsulRaisedBy
<1>3. new \in Consul!Calls
  BY <1>1, ConsulRecord
<1>4. /\ new.op = v5[c].op /\ new.keys = v5[c].keys /\ new.stays = v5[c].stays
      /\ new.touched = v5[c].touched /\ new.excused = why /\ new.result = "raised"
  BY <1>1 DEF Consul!Calls
<1> HIDE DEF new
<1> HIDE DEF x
<1>5. x \in [Actors -> Consul!Calls] /\ (\A d \in Actors \ {c} : x[d] = v5[d]) /\ x[c] = new
  BY <1>2, <1>3
<1> QED
  BY <1>4, <1>5 DEF x

\* What stays as it is unless a step says otherwise.
LEMMA ConsulRest ==
  ASSUME Consul!Inv
  PROVE  /\ v5 \in [Actors -> Consul!Calls] /\ v2 \subseteq Consul!Keys
         /\ v7 \subseteq ({"OVERRIDE"} \cap Consul!Settings) \ v2
         /\ v4 = [c \in Actors |-> v4[c]]
         /\ v1 \in {"down", "electing", "up"} /\ v3 \in BOOLEAN /\ (v3 => v1 # "down")
         /\ v6 \in 0..MaxFaults /\ (Consul!Fault => v6' \in 0..MaxFaults)
<1>1. ConsulTypes
  BY ConsulInvIs
<1>2. v6 \in 0..MaxFaults
  BY <1>1 DEF ConsulTypes
<1>3. Consul!Fault => v6' \in 0..MaxFaults
  BY <1>2, BoundsAssumption DEF Consul!Fault
<1> QED
  BY <1>1, <1>2, <1>3 DEF ConsulTypes

LEMMA ConsulCallsAre == Consul!Inv => v5 \in [Actors -> Consul!Calls]
BY ConsulRest

LEMMA ConsulKeptStep ==
  ASSUME Consul!Inv, NEW c \in Actors, NEW r, NEW e, NEW t, v5' \in [Actors -> Consul!Calls],
         ConsulMoves(c, v2, {}, r, e), v4' = [v4 EXCEPT ![c] = t], v2' = v2, v7' = v7,
         v1' \in {"down", "electing", "up"}, v3' \in BOOLEAN, v3' => v1' # "down",
         v6' \in 0..MaxFaults, ConsulCallOk(c)'
  PROVE  Consul!Inv'
<1> DEFINE none == {}
<1>1. ConsulChanges(v2, v7, none)
  BY ConsulRest DEF ConsulChanges
<1>2. ConsulMoves(c, v2, none, r, e)
  OBVIOUS
<1> HIDE DEF none
<1> QED
  BY <1>1, <1>2, ConsulStep

\* A call that raises without a word to the server.
LEMMA ConsulRaisesQuietly ==
  ASSUME Consul!Inv, NEW c \in Actors, v4[c] # <<>>, NEW why \in BOOLEAN, Consul!Raises(c, why),
         v6' \in 0..MaxFaults,
         ConsulMoves(c, v2, {}, "raised", why) => why = TRUE \/ Consul!Reasons(c)'
  PROVE  Consul!Inv'
<1>1. /\ v4' = [v4 EXCEPT ![c] = <<>>] /\ UNCHANGED <<v1, v2, v3, v7>>
      /\ v5' = ConsulRaisedBy(c, why)
  BY DEF Consul!Raises, ConsulRaisedBy
<1>2. /\ v5' \in [Actors -> Consul!Calls] /\ \A d \in Actors \ {c} : v5'[d] = v5[d]
      /\ v5'[c].op = v5[c].op /\ v5'[c].keys = v5[c].keys /\ v5'[c].stays = v5[c].stays
      /\ v5'[c].touched = v5[c].touched /\ v5'[c].excused = why /\ v5'[c].result = "raised"
  BY <1>1, ConsulRaised, ConsulCallsAre, Zenon
<1>3. ConsulMoves(c, v2, {}, "raised", why)
  <2>1. ConsulMoves(c, v2, {}, v5'[c].result, v5'[c].excused)
    BY <1>2, ConsulQuiet
  <2> QED
    BY <1>2, <2>1, Zenon
<1>4. v4'[c] = <<>>
  BY <1>1, ConsulRest
<1>5. ConsulCallOk(c)'
  BY <1>1, <1>3, <1>4, ConsulRaises
<1>6. /\ v1' \in {"down", "electing", "up"} /\ v3' \in BOOLEAN /\ (v3' => v1' # "down")
      /\ v2' = v2 /\ v7' = v7
  BY <1>1, ConsulRest
<1> QED
  BY <1>1, <1>2, <1>3, <1>5, <1>6, ConsulKeptStep, Zenon

\* A call that goes on, or returns, without a change of the keys.
LEMMA ConsulGoes ==
  ASSUME Consul!Inv, NEW c \in Actors, v4[c] # <<>>, NEW t, t \in {Tail(v4[c]), <<>>},
         v5' = Consul!Answered(c, t), v4' = [v4 EXCEPT ![c] = t], UNCHANGED <<v2, v6, v7>>,
         v1' \in {"down", "electing", "up"}, v3' \in BOOLEAN, v3' => v1' # "down",
         /\ v4'[c] = t
         /\ ConsulMoves(c, v2, {}, IF t = <<>> THEN "ok" ELSE v5[c].result, v5[c].excused)
         => Consul!Written(c)' /\ (v5[c].op = "get_key_layered" => Consul!Seen(c)')
  PROVE  Consul!Inv'
<1>1. /\ v5' \in [Actors -> Consul!Calls] /\ \A d \in Actors \ {c} : v5'[d] = v5[d]
      /\ v5'[c].op = v5[c].op /\ v5'[c].keys = v5[c].keys /\ v5'[c].stays = v5[c].stays
      /\ v5'[c].touched = v5[c].touched /\ v5'[c].excused = v5[c].excused
      /\ v5'[c].result = IF t = <<>> THEN "ok" ELSE v5[c].result
  BY ConsulAnswered, ConsulCallsAre, Zenon
<1>2. ConsulMoves(c, v2, {}, IF t = <<>> THEN "ok" ELSE v5[c].result, v5[c].excused)
  <2>1. ConsulMoves(c, v2, {}, v5'[c].result, v5'[c].excused)
    BY <1>1, ConsulQuiet
  <2> QED
    BY <1>1, <2>1, Zenon
<1>3. v4'[c] = t
  BY ConsulRest
<1>4. ConsulCallOk(c)'
  BY <1>2, <1>3, ConsulReturns
<1>5. v2' = v2 /\ v7' = v7 /\ v6' \in 0..MaxFaults
  BY ConsulRest
<1> QED
  BY <1>1, <1>2, <1>4, <1>5, ConsulKeptStep, Zenon

\* A request that writes, or fails.
LEMMA ConsulWritten ==
  ASSUME Consul!Inv, NEW c \in Actors, NEW kind, NEW s, NEW m, NEW ks,
         ConsulChanges(s, m, ks), Consul!Write(c, kind, s, m, ks),
         v5[c].op # "get_key_layered",
         /\ v4'[c] = Tail(v4[c]) /\ v2' = s /\ v7' = m
         /\ ConsulMoves(c, s, ks, IF Tail(v4[c]) = <<>> THEN "ok" ELSE v5[c].result, v5[c].excused)
         => Consul!Written(c)'
  PROVE  Consul!Inv'
<1>0. v4[c] # <<>>
  BY DEF Consul!Write, Consul!Doing
<1> DEFINE t == Tail(v4[c])
           y == ConsulRaisedBy(c, TRUE)
<1>1. CASE Consul!Store(c, s, m, ks, Consul!Answered(c, t)) /\ Consul!Goes(c, t)
  <2> DEFINE x == Consul!Answered(c, t)
  <2>1. /\ x \in [Actors -> Consul!Calls] /\ \A d \in Actors \ {c} : x[d] = v5[d]
        /\ x[c].op = v5[c].op /\ x[c].keys = v5[c].keys /\ x[c].stays = v5[c].stays
        /\ x[c].touched = v5[c].touched /\ x[c].excused = v5[c].excused
        /\ x[c].result = IF t = <<>> THEN "ok" ELSE v5[c].result
    BY ConsulAnswered, ConsulCallsAre, Zenon
  <2>2. Consul!Store(c, s, m, ks, x)
    BY <1>1
  <2> HIDE DEF x
  <2>3. /\ v2' = s /\ v7' = m /\ v5' \in [Actors -> Consul!Calls]
        /\ ConsulMoves(c, s, ks, x[c].result, x[c].excused)
    BY <2>1, <2>2, ConsulStored
  <2>4. ConsulMoves(c, s, ks, IF t = <<>> THEN "ok" ELSE v5[c].result, v5[c].excused)
    BY <2>1, <2>3, Zenon
  <2>5. v4' = [v4 EXCEPT ![c] = t] /\ UNCHANGED <<v1, v3, v6>>
    BY <1>1 DEF Consul!Goes
  <2>6. v4'[c] = t
    BY <2>5, ConsulRest
  <2> HIDE DEF t
  <2>7. ConsulCallOk(c)'
    BY <1>0, <2>3, <2>4, <2>6, ConsulReturns DEF t
  <2> QED
    BY <2>3, <2>4, <2>5, <2>7, ConsulRest, ConsulStep
<1>2. CASE /\ Consul!Store(c, s, m, ks, y)
           /\ v4' = [v4 EXCEPT ![c] = <<>>] /\ Consul!Fault /\ UNCHANGED <<v1, v3>>
  <2>1. /\ y \in [Actors -> Consul!Calls] /\ \A d \in Actors \ {c} : y[d] = v5[d]
        /\ y[c].op = v5[c].op /\ y[c].keys = v5[c].keys /\ y[c].stays = v5[c].stays
        /\ y[c].touched = v5[c].touched /\ y[c].excused = TRUE /\ y[c].result = "raised"
    BY ConsulRaised, ConsulRest, Zenon
  <2>2. Consul!Store(c, s, m, ks, y)
    BY <1>2
  <2> HIDE DEF y
  <2>3. /\ v2' = s /\ v7' = m /\ v5' \in [Actors -> Consul!Calls]
        /\ ConsulMoves(c, s, ks, y[c].result, y[c].excused)
    BY <2>1, <2>2, ConsulStored
  <2>4. ConsulMoves(c, s, ks, "raised", TRUE)
    BY <2>1, <2>3, Zenon
  <2>5. v4'[c] = <<>>
    BY <1>2, ConsulRest
  <2>6. ConsulCallOk(c)'
    BY <1>0, <2>3, <2>4, <2>5, ConsulRaises
  <2> QED
    BY <1>2, <2>3, <2>4, <2>6, ConsulRest, ConsulStep
<1> QED
  BY <1>1, <1>2, Zenon DEF Consul!Write, ConsulRaisedBy

\* The steps, request by request.
LEMMA ConsulKey ==
  ASSUME NEW c, NEW kind, Consul!Doing(c, kind)
  PROVE  v4[c] # <<>> /\ Head(v4[c])[1] = kind /\ Consul!Key(c) = Head(v4[c])[2]
BY DEF Consul!Doing, Consul!Key

LEMMA ConsulPutStep ==
  ASSUME Consul!Inv, NEW c \in Actors, Consul!Put(c) PROVE Consul!Inv'
<1> DEFINE k == Consul!Key(c)
           ks == {k}
<1>0. PICK void \in SUBSET (ks \cap {"OVERRIDE"}) :
        Consul!Write(c, "put", (v2 \cup ks) \ void, (v7 \ ks) \cup void, ks)
  BY Zenon DEF Consul!Put, Consul!Set
<1> DEFINE s == (v2 \cup ks) \ void
           m == (v7 \ ks) \cup void
<1>1. /\ Consul!Write(c, "put", s, m, ks)
      /\ v4[c] # <<>> /\ Head(v4[c])[1] = "put" /\ k = Head(v4[c])[2]
  BY <1>0, ConsulKey DEF Consul!Put, Consul!Set
<1>2. PICK p, i : ConsulAt(c, p, i) /\ ConsulListed(p, i)
  BY <1>1, ConsulPlace
<1> HIDE DEF k
<1>3. /\ k \in Consul!Keys
      /\ \/ v5[c].op \in {"put_key", "update_key_value"} /\ v5[c].keys = {k}
         \/ /\ v5[c].op = "verify_functionality" /\ Len(p.requests) = 6
            /\ (i = 1 /\ k = "test_key") \/ (i = 5 /\ k = "test_key_int")
  BY <1>1, <1>2, ConsulPutPlace
<1>4. ConsulChanges(s, m, ks)
  BY <1>3, ConsulRest DEF ConsulChanges, Consul!Settings
<1>5. ASSUME v4'[c] = Tail(v4[c]), v2' = s, v7' = m,
             ConsulMoves(c, s, ks, IF Tail(v4[c]) = <<>> THEN "ok" ELSE v5[c].result, v5[c].excused)
      PROVE  Consul!Written(c)'
  <2>1. v5'[c].op = v5[c].op /\ v5'[c].keys = v5[c].keys /\ v5'[c].touched = v5[c].touched
    BY <1>5 DEF ConsulMoves
  <2>2. Len(v4'[c]) = Len(p.requests) - i
    BY <1>2, <1>5 DEF ConsulAt
  <2>3. CASE v5[c].op \in {"put_key", "update_key_value"} /\ v5[c].keys = {k}
    BY <1>5, <2>1, <2>3 DEF Consul!Written
  <2>4. CASE /\ v5[c].op = "verify_functionality" /\ Len(p.requests) = 6
             /\ (i = 1 /\ k = "test_key") \/ (i = 5 /\ k = "test_key_int")
    <3>0. /\ Len(v4'[c]) = 5 => i = 1 /\ k = "test_key"
          /\ Len(v4'[c]) = 1 => i = 5 /\ k = "test_key_int"
      BY <2>2, <2>4
    <3>1. /\ Len(v4'[c]) = 5 => "test_key" \in v2' \cup v5'[c].touched
          /\ Len(v4'[c]) = 1 => "test_key_int" \in v2' \cup v5'[c].touched
      <4>1. k \in v2' \cup v5'[c].touched
        <5>1. void = {}
          BY <2>4
        <5> QED
          BY <1>5, <5>1
      <4> QED
        BY <3>0, <4>1, Zenon
    <3> QED
      BY <2>1, <2>4, <3>1, Zenon DEF Consul!Written
  <2> QED
    BY <1>3, <2>3, <2>4
<1>6. v5[c].op # "get_key_layered"
  BY <1>3
<1> HIDE DEF s, m, ks
<1> QED
  BY <1>1, <1>4, <1>5, <1>6, ConsulWritten

LEMMA ConsulDeleteStep ==
  ASSUME Consul!Inv, NEW c \in Actors, Consul!Delete(c) PROVE Consul!Inv'
<1> DEFINE k == Consul!Key(c)
           s == v2 \ {k}
           m == v7 \ {k}
           ks == {k}
<1>1. Consul!Write(c, "delete", s, m, ks) /\ v4[c] # <<>> /\ Head(v4[c])[1] = "delete" /\ k = Head(v4[c])[2]
  BY ConsulKey DEF Consul!Delete, Consul!Write
<1>2. PICK p, i : ConsulAt(c, p, i) /\ ConsulListed(p, i)
  BY <1>1, ConsulPlace
<1> HIDE DEF k
<1>3. /\ k \in Consul!Keys
      /\ \/ v5[c].op = "update_key_value" /\ i = 1 /\ Len(p.requests) = 2
         \/ v5[c].op = "delete_key" /\ v5[c].keys = {k}
         \/ v5[c].op = "verify_functionality" /\ i = 3 /\ Len(p.requests) = 6
  BY <1>1, <1>2, ConsulDeletePlace
<1>4. ConsulChanges(s, m, ks)
  BY <1>3, ConsulRest DEF ConsulChanges
<1>5. ASSUME v4'[c] = Tail(v4[c]), v2' = s, v7' = m,
             ConsulMoves(c, s, ks, IF Tail(v4[c]) = <<>> THEN "ok" ELSE v5[c].result, v5[c].excused)
      PROVE  Consul!Written(c)'
  <2>1. v5'[c].op = v5[c].op /\ v5'[c].keys = v5[c].keys /\ v5'[c].touched = v5[c].touched
    BY <1>5 DEF ConsulMoves
  <2>2. Len(v4'[c]) = Len(p.requests) - i
    BY <1>2, <1>5 DEF ConsulAt
  <2>3. CASE v5[c].op = "update_key_value" /\ i = 1 /\ Len(p.requests) = 2
    <3>1. Len(v4'[c]) # 0
      BY <2>2, <2>3
    <3> QED
      BY <2>1, <2>3, <3>1 DEF Consul!Written
  <2>4. CASE v5[c].op = "delete_key" /\ v5[c].keys = {k}
    <3>1. {k} \cap (s \cup m) = {}
      OBVIOUS
    <3>2. (v5'[c].keys \ v5'[c].touched) \cap (v2' \cup v7') = {}
      BY <1>5, <2>1, <2>4, <3>1
    <3> QED
      BY <2>1, <2>4, <3>2 DEF Consul!Written
  <2>5. CASE v5[c].op = "verify_functionality" /\ i = 3 /\ Len(p.requests) = 6
    <3>1. Len(v4'[c]) # 5 /\ Len(v4'[c]) # 1
      BY <2>2, <2>5
    <3> QED
      BY <2>1, <2>5, <3>1 DEF Consul!Written
  <2> QED
    BY <1>3, <2>3, <2>4, <2>5
<1>6. v5[c].op # "get_key_layered"
  BY <1>3
<1> HIDE DEF s, m, ks
<1> QED
  BY <1>1, <1>4, <1>5, <1>6, ConsulWritten

LEMMA ConsulPutChunkStep ==
  ASSUME Consul!Inv, NEW c \in Actors, Consul!PutChunk(c) PROVE Consul!Inv'
<1> DEFINE k == Consul!Key(c)
<1>0. PICK void \in SUBSET (k \cap {"OVERRIDE"}) :
        Consul!Write(c, "txn", (v2 \cup k) \ void, (v7 \ k) \cup void, k)
  BY Zenon DEF Consul!PutChunk, Consul!Set
<1> DEFINE s == (v2 \cup k) \ void
           m == (v7 \ k) \cup void
<1>1. /\ Consul!Write(c, "txn", s, m, k)
      /\ v4[c] # <<>> /\ Head(v4[c])[1] = "txn" /\ k = Head(v4[c])[2]
  BY <1>0, ConsulKey DEF Consul!PutChunk, Consul!Set
<1>2. PICK p, i : ConsulAt(c, p, i) /\ ConsulListed(p, i)
  BY <1>1, ConsulPlace
<1> HIDE DEF k
<1>3. /\ v5[c].op = "transaction" /\ k = Consul!Chunks[i]
      /\ Len(p.requests) = Len(Consul!Chunks) /\ i \in 1..Len(Consul!Chunks)
  <2>1. /\ v5[c].op = "transaction" /\ Head(v4[c])[2] = Consul!Chunks[i]
        /\ Len(p.requests) = Len(Consul!Chunks)
    BY <1>1, <1>2, ConsulTxnPlace, Zenon
  <2>2. i \in 1..Len(p.requests)
    BY <1>2, Zenon DEF ConsulAt
  <2> QED
    BY <1>1, <2>1, <2>2, Zenon
<1>4. ConsulChanges(s, m, k)
  BY <1>3, ConsulRest, ConsulChunks DEF ConsulChanges, Consul!Keys, Consul!Settings
<1>5. ASSUME v4'[c] = Tail(v4[c]), v2' = s, v7' = m,
             ConsulMoves(c, s, k, IF Tail(v4[c]) = <<>> THEN "ok" ELSE v5[c].result, v5[c].excused)
      PROVE  Consul!Written(c)'
  <2> DEFINE own == v5[c].keys \ v5[c].touched
  <2>1. v5'[c].op = v5[c].op /\ v5'[c].keys \ v5'[c].touched = own
    BY <1>5 DEF ConsulMoves
  <2>2. /\ Len(v4'[c]) = Len(Consul!Chunks) - i /\ Len(v4[c]) = Len(Consul!Chunks) - i + 1
    BY <1>2, <1>3, <1>5 DEF ConsulAt
  <2>3. \A j \in 1..(Len(Consul!Chunks) - Len(v4[c])) : own \cap Consul!Chunks[j] \subseteq v2 \cup v7
    <3>1. Consul!Written(c) /\ v5[c].result = "none"
      BY <1>1, ConsulInvIs DEF ConsulCallOk, Consul!Unfinished
    <3> QED
      BY <1>3, <3>1 DEF Consul!Written
  <2> HIDE DEF own
  <2>4. ASSUME NEW j \in 1..(Len(Consul!Chunks) - Len(v4'[c]))
        PROVE  own \cap Consul!Chunks[j] \subseteq v2' \cup v7'
    <3>1. j = i \/ j \in 1..(Len(Consul!Chunks) - Len(v4[c]))
      BY <1>3, <2>2, ConsulChunks
    <3> QED
      BY <1>3, <1>5, <2>3, <3>1
  <2> QED
    BY <1>3, <2>1, <2>4 DEF Consul!Written
<1>6. v5[c].op # "get_key_layered"
  BY <1>3
<1> HIDE DEF s, m
<1> QED
  BY <1>1, <1>4, <1>5, <1>6, ConsulWritten

LEMMA ConsulGetStep ==
  ASSUME Consul!Inv, NEW c \in Actors, Consul!Get(c) PROVE Consul!Inv'
<1> DEFINE k == Consul!Key(c)
           t == Tail(v4[c])
<1>1. v4[c] # <<>> /\ Head(v4[c])[1] = "get" /\ k = Head(v4[c])[2]
  BY ConsulKey DEF Consul!Get
<1>2. PICK p, i : ConsulAt(c, p, i) /\ ConsulListed(p, i)
  BY <1>1, ConsulPlace
<1>3. \/ v5' = Consul!Answered(c, t) /\ Consul!Goes(c, t) /\ UNCHANGED <<v2, v7>>
      \/ k \notin v2 /\ Consul!Raises(c, FALSE) /\ v6' = v6
  BY DEF Consul!Get
<1> HIDE DEF k
<1>4. \/ v5[c].op = "get_key" /\ v5[c].keys = {k}
      \/ /\ v5[c].op = "verify_functionality" /\ Len(p.requests) = 6
         /\ (i = 2 /\ k = "test_key") \/ (i = 6 /\ k = "test_key_int")
  BY <1>1, <1>2, ConsulGetPlace
<1>5. Len(v4[c]) = Len(p.requests) - i + 1 /\ Len(t) = Len(p.requests) - i
  BY <1>2 DEF ConsulAt
<1>6. CASE v5' = Consul!Answered(c, t) /\ Consul!Goes(c, t) /\ UNCHANGED <<v2, v7>>
  <2>1. v4' = [v4 EXCEPT ![c] = t] /\ UNCHANGED <<v1, v3, v6>>
    BY <1>6 DEF Consul!Goes
  <2>2. ASSUME v4'[c] = t,
               ConsulMoves(c, v2, {}, IF t = <<>> THEN "ok" ELSE v5[c].result, v5[c].excused)
        PROVE  Consul!Written(c)'
    <3>1. v5'[c].op = v5[c].op
      BY <2>2 DEF ConsulMoves
    <3>2. v5[c].op = "verify_functionality" => Len(v4'[c]) # 5 /\ Len(v4'[c]) # 1
      <4> SUFFICES ASSUME v5[c].op = "verify_functionality" PROVE Len(v4'[c]) # 5 /\ Len(v4'[c]) # 1
        OBVIOUS
      <4>1. Len(p.requests) = 6 /\ i \in {2, 6}
        BY <1>4
      <4>2. Len(v4'[c]) = Len(p.requests) - i
        BY <1>5, <2>2, Zenon
      <4> DEFINE n == Len(v4'[c])
      <4>3. n \in {0, 4}
        BY <4>1, <4>2
      <4> HIDE DEF n
      <4>4. n # 5 /\ n # 1
        BY <4>3
      <4> QED
        BY <4>4 DEF n
    <3> QED
      BY <1>4, <3>1, <3>2, Zenon DEF Consul!Written
  <2>3. v5[c].op # "get_key_layered"
    BY <1>4
  <2>4. v1' \in {"down", "electing", "up"} /\ v3' \in BOOLEAN /\ (v3' => v1' # "down")
    BY <2>1, ConsulRest
  <2> HIDE DEF t
  <2>5. t \in {Tail(v4[c]), <<>>}
    BY DEF t
  <2> QED
    BY <1>1, <1>6, <2>1, <2>2, <2>3, <2>4, <2>5, ConsulGoes
<1>7. CASE k \notin v2 /\ Consul!Raises(c, FALSE) /\ v6' = v6
  <2>1. Consul!Written(c) /\ Consul!Seen(c) /\ v5[c].result = "none"
    BY <1>1, ConsulInvIs DEF ConsulCallOk, Consul!Unfinished
  <2>2. k \notin v5[c].stays
    BY <1>7, <2>1 DEF Consul!Seen
  <2>3. ASSUME v5[c].op = "verify_functionality" PROVE v5[c].touched # {}
    <3>1. /\ Len(v4[c]) = 5 => "test_key" \in v2 \cup v5[c].touched
          /\ Len(v4[c]) = 1 => "test_key_int" \in v2 \cup v5[c].touched
      BY <2>1, <2>3 DEF Consul!Written
    <3>2. \/ Len(v4[c]) = 5 /\ k = "test_key"
          \/ Len(v4[c]) = 1 /\ k = "test_key_int"
      <4>1. CASE Len(p.requests) = 6 /\ i = 2 /\ k = "test_key"
        BY <1>5, <4>1
      <4>2. CASE Len(p.requests) = 6 /\ i = 6 /\ k = "test_key_int"
        BY <1>5, <4>2
      <4> QED
        BY <1>4, <2>3, <4>1, <4>2
    <3>3. k \in v2 \cup v5[c].touched
      BY <3>1, <3>2, Zenon
    <3> QED
      BY <1>7, <3>3
  <2>4. ASSUME ConsulMoves(c, v2, {}, "raised", FALSE) PROVE Consul!Reasons(c)'
    <3>1. /\ v5'[c].op = v5[c].op /\ v5'[c].keys = v5[c].keys
          /\ v5'[c].stays \subseteq v5[c].stays /\ v5'[c].touched = v5[c].touched
      BY <2>4 DEF ConsulMoves
    <3>2. CASE v5[c].op = "get_key" /\ v5[c].keys = {k}
      BY <2>2, <3>1, <3>2 DEF Consul!Reasons
    <3>3. CASE v5[c].op = "verify_functionality"
      BY <2>3, <3>1, <3>3 DEF Consul!Reasons
    <3> QED
      BY <1>4, <3>2, <3>3
  <2>5. v6' \in 0..MaxFaults
    BY <1>7, ConsulRest
  <2> QED
    BY <1>1, <1>7, <2>4, <2>5, ConsulRaisesQuietly
<1> QED
  BY <1>3, <1>6, <1>7

LEMMA ConsulReadStep ==
  ASSUME Consul!Inv, NEW c \in Actors, Consul!ReadLayer(c) PROVE Consul!Inv'
<1> DEFINE k == Consul!Key(c)
           t == Tail(v4[c])
<1>1. v4[c] # <<>> /\ Head(v4[c])[1] = "read" /\ k = Head(v4[c])[2]
  BY ConsulKey DEF Consul!ReadLayer
<1>2. PICK p, i : ConsulAt(c, p, i) /\ ConsulListed(p, i)
  BY <1>1, ConsulPlace
<1>3. \/ /\ k \in v2 /\ v5' = [v5 EXCEPT ![c].result = k] /\ Consul!Goes(c, <<>>) /\ UNCHANGED <<v2, v7>>
      \/ k \notin v2 /\ v5' = Consul!Answered(c, t) /\ Consul!Goes(c, t) /\ UNCHANGED <<v2, v7>>
  <2>1. CASE k \in v2
    BY <2>1 DEF Consul!ReadLayer
  <2>2. CASE k \notin v2
    BY <2>2 DEF Consul!ReadLayer
  <2> QED
    BY <2>1, <2>2
<1> HIDE DEF k
<1>4. /\ v5[c].op = "get_key_layered" /\ k = Consul!Layers[i] /\ i \in 1..3
      /\ Len(v4[c]) = 3 - i + 1 /\ Len(t) = 3 - i
  <2>1. /\ v5[c].op = "get_key_layered" /\ Head(v4[c])[2] = Consul!Layers[i]
        /\ Len(p.requests) = 3 /\ i \in 1..3
    BY <1>1, <1>2, ConsulReadPlace, Zenon
  <2>2. /\ Len(v4[c]) = Len(p.requests) - i + 1
        /\ Len(t) = Len(p.requests) - i
    BY <1>2, Zenon DEF ConsulAt
  <2> QED
    BY <1>1, <2>1, <2>2, Zenon
<1>5. /\ v5[c].stays \subseteq v2 /\ v5[c].result = "none"
      /\ \A j \in 1..(i - 1) : Consul!Layers[j] \notin v5[c].stays
  <2>1. Consul!Seen(c) /\ v5[c].result = "none"
    BY <1>1, ConsulInvIs DEF ConsulCallOk, Consul!Unfinished
  <2>2. Len(v4[c]) # 0 /\ 3 - Len(v4[c]) = i - 1
    BY <1>4
  <2> QED
    BY <1>4, <2>1, <2>2 DEF Consul!Seen
<1>6. CASE k \notin v2 /\ v5' = Consul!Answered(c, t) /\ Consul!Goes(c, t) /\ UNCHANGED <<v2, v7>>
  <2>1. v4' = [v4 EXCEPT ![c] = t] /\ UNCHANGED <<v1, v3, v6>>
    BY <1>6 DEF Consul!Goes
  <2>2. ASSUME v4'[c] = t,
               ConsulMoves(c, v2, {}, IF t = <<>> THEN "ok" ELSE v5[c].result, v5[c].excused)
        PROVE  Consul!Written(c)' /\ Consul!Seen(c)'
    <3>1. v5'[c].op = v5[c].op /\ v5'[c].stays = v5[c].stays \cap v2
      BY <2>2 DEF ConsulMoves
    <3>2. Consul!Written(c)'
      BY <1>4, <3>1 DEF Consul!Written
    <3>3. \A j \in 1..(3 - Len(v4'[c])) : Consul!Layers[j] \notin v5'[c].stays
      <4>1. 3 - Len(v4'[c]) = i
        BY <1>4, <2>2
      <4>2. \A j \in 1..i : j = i \/ j \in 1..(i - 1)
        BY <1>4
      <4> QED
        BY <1>4, <1>5, <1>6, <3>1, <4>1, <4>2
    <3> QED
      BY <1>6, <3>1, <3>2, <3>3 DEF Consul!Seen
  <2>4. v1' \in {"down", "electing", "up"} /\ v3' \in BOOLEAN /\ (v3' => v1' # "down")
    BY <2>1, ConsulRest
  <2> HIDE DEF t
  <2>5. t \in {Tail(v4[c]), <<>>}
    BY DEF t
  <2> QED
    BY <1>1, <1>6, <2>1, <2>2, <2>4, <2>5, ConsulGoes
<1>7. CASE k \in v2 /\ v5' = [v5 EXCEPT ![c].result = k] /\ Consul!Goes(c, <<>>) /\ UNCHANGED <<v2, v7>>
  <2>1. v4' = [v4 EXCEPT ![c] = <<>>] /\ UNCHANGED <<v1, v3, v6>>
    BY <1>7 DEF Consul!Goes
  <2>2. v5[c] \in Consul!Calls /\ k \in Consul!Settings
    BY <1>4, ConsulRest, ConsulLayers
  <2> DEFINE new == [v5[c] EXCEPT !.result = k]
  <2>3. new \in Consul!Calls
    BY <2>2, ConsulRecord
  <2>4. /\ new.op = v5[c].op /\ new.keys = v5[c].keys /\ new.stays = v5[c].stays
        /\ new.touched = v5[c].touched /\ new.excused = v5[c].excused /\ new.result = k
    BY <2>2 DEF Consul!Calls
  <2>5. v5' = [v5 EXCEPT ![c] = new]
    BY <1>7, <2>2
  <2> HIDE DEF new
  <2>6. v5' \in [Actors -> Consul!Calls] /\ (\A d \in Actors \ {c} : v5'[d] = v5[d]) /\ v5'[c] = new
    BY <2>3, <2>5, ConsulRest
  <2>7. ConsulMoves(c, v2, {}, k, v5[c].excused)
    <3>1. ConsulMoves(c, v2, {}, v5'[c].result, v5'[c].excused)
      BY <2>4, <2>6, ConsulQuiet
    <3> QED
      BY <2>4, <2>6, <3>1, Zenon
  <2>8. v4'[c] = <<>>
    BY <2>1, ConsulRest
  <2>9. ConsulCallOk(c)'
    <3>0. Len(<<>>) = 0
      OBVIOUS
    <3>1. Len(v4'[c]) = 0
      BY <2>8, <3>0, Zenon
    <3>2. v5'[c].op = v5[c].op /\ v5'[c].keys = v5[c].keys /\ v5'[c].stays = v5[c].stays /\ v5'[c].result = k
      BY <2>4, <2>6
    <3>3. Consul!Pending(c)'
      BY <1>1, <2>8, <3>2, ConsulInvIs, ConsulStaysPending DEF ConsulCallOk
    <3>4. Consul!Unfinished(c)' /\ Consul!Written(c)'
      BY <1>4, <2>8, <3>2 DEF Consul!Unfinished, Consul!Written
    <3>5. Consul!Reasons(c)'
      BY <2>2, <3>2 DEF Consul!Reasons, Consul!Settings
    <3>6. Consul!Seen(c)'
      BY <1>4, <1>5, <1>7, <3>1, <3>2 DEF Consul!Seen
    <3> QED
      BY <3>3, <3>4, <3>5, <3>6 DEF ConsulCallOk
  <2>10. /\ v1' \in {"down", "electing", "up"} /\ v3' \in BOOLEAN /\ (v3' => v1' # "down")
         /\ v6' \in 0..MaxFaults
    BY <2>1, ConsulRest
  <2> QED
    BY <1>7, <2>1, <2>6, <2>7, <2>9, <2>10, ConsulKeptStep
<1> QED
  BY <1>3, <1>6, <1>7

LEMMA ConsulServicesStep ==
  ASSUME Consul!Inv, NEW c \in Actors, Consul!GetServices(c) \/ Consul!ping(c) PROVE Consul!Inv'
<1> DEFINE t == Tail(v4[c])
<1>1. v4[c] # <<>> /\ Head(v4[c])[1] \in {"services", "leader"}
  BY DEF Consul!GetServices, Consul!ping, Consul!Doing
<1>2. PICK p, i : ConsulAt(c, p, i) /\ ConsulListed(p, i)
  BY <1>1, ConsulPlace
<1>3. /\ v5' = Consul!Answered(c, t) /\ v4' = [v4 EXCEPT ![c] = t]
      /\ UNCHANGED <<v1, v2, v3, v6, v7>>
  BY DEF Consul!GetServices, Consul!ping, Consul!Goes
<1>4. \/ v5[c].op = "verify_functionality" /\ i = 4 /\ Len(p.requests) = 6
      \/ v5[c].op = "ping"
  BY <1>1, <1>2, ConsulServerPlace
<1>5. Len(t) = Len(p.requests) - i
  BY <1>2 DEF ConsulAt
<1> HIDE DEF t
<1>6. v5[c].op = "verify_functionality" => Len(t) = 2
  BY <1>4, <1>5
<1>7. ASSUME v4'[c] = t,
             ConsulMoves(c, v2, {}, IF t = <<>> THEN "ok" ELSE v5[c].result, v5[c].excused)
      PROVE  Consul!Written(c)'
  <2>1. v5'[c].op = v5[c].op
    BY <1>7 DEF ConsulMoves
  <2>2. v5[c].op = "verify_functionality" => Len(v4'[c]) # 5 /\ Len(v4'[c]) # 1
    BY <1>6, <1>7
  <2> QED
    BY <1>4, <2>1, <2>2, Zenon DEF Consul!Written
<1>8. v5[c].op # "get_key_layered"
  BY <1>4
<1>9. v1' \in {"down", "electing", "up"} /\ v3' \in BOOLEAN /\ (v3' => v1' # "down")
  BY <1>3, ConsulRest
<1>10. t \in {Tail(v4[c]), <<>>}
  BY DEF t
<1> QED
  BY <1>1, <1>3, <1>7, <1>8, <1>9, <1>10, ConsulGoes

LEMMA ConsulDockerStartStep ==
  ASSUME Consul!Inv, NEW c \in Actors, Consul!DockerStart(c) PROVE Consul!Inv'
<1> DEFINE t == Tail(v4[c])
<1>1. v4[c] # <<>> /\ Head(v4[c])[1] = "docker_start"
  BY DEF Consul!DockerStart, Consul!Doing
<1>2. PICK p, i : ConsulAt(c, p, i) /\ ConsulListed(p, i)
  BY <1>1, ConsulPlace
<1>3. /\ v5' = Consul!Answered(c, t) /\ v4' = [v4 EXCEPT ![c] = t]
      /\ UNCHANGED <<v2, v3, v6, v7>> /\ v1' = IF v1 = "down" THEN "electing" ELSE v1
  BY ConsulRest DEF Consul!DockerStart
<1>4. v5[c].op = "clear_and_start" /\ i = 2 /\ Len(p.requests) = 3
  BY <1>1, <1>2, ConsulServerPlace
<1>5. Len(v4[c]) < 3
  BY <1>2, <1>4 DEF ConsulAt
<1>6. ASSUME v4'[c] = t,
             ConsulMoves(c, v2, {}, IF t = <<>> THEN "ok" ELSE v5[c].result, v5[c].excused)
      PROVE  Consul!Written(c)'
  <2>1. /\ v5'[c].op = v5[c].op /\ v5'[c].touched = v5[c].touched
        /\ v5'[c].excused = v5[c].excused
    BY <1>6 DEF ConsulMoves
  <2>2. Consul!Written(c) /\ v5[c].result = "none"
    BY <1>1, ConsulInvIs DEF ConsulCallOk, Consul!Unfinished
  <2>3. ~v5[c].excused => v2 \cup v7 \subseteq v5[c].touched
    BY <1>4, <1>5, <2>2 DEF Consul!Written
  <2> QED
    BY <1>3, <1>4, <2>1, <2>3 DEF Consul!Written
<1>7. v5[c].op # "get_key_layered"
  BY <1>4
<1>8. v1' \in {"down", "electing", "up"} /\ v3' \in BOOLEAN /\ (v3' => v1' # "down")
  BY <1>3, ConsulRest
<1> HIDE DEF t
<1>9. t \in {Tail(v4[c]), <<>>}
  BY DEF t
<1> QED
  BY <1>1, <1>3, <1>6, <1>7, <1>8, <1>9, ConsulGoes

LEMMA ConsulAwaitStep ==
  ASSUME Consul!Inv, NEW c \in Actors, Consul!AwaitLeader(c) PROVE Consul!Inv'
<1>1. v4[c] # <<>> /\ Head(v4[c])[1] = "wait"
  BY DEF Consul!AwaitLeader, Consul!Doing
<1>2. PICK p, i : ConsulAt(c, p, i) /\ ConsulListed(p, i)
  BY <1>1, ConsulPlace
<1>3. v5[c].op \in {"clear_and_start", "start"} /\ i = Len(p.requests)
  BY <1>1, <1>2, ConsulServerPlace
<1>4. CASE v5' = Consul!Answered(c, <<>>) /\ Consul!Goes(c, <<>>) /\ UNCHANGED <<v2, v7>>
  <2> DEFINE t == <<>>
  <2>1. v4' = [v4 EXCEPT ![c] = t] /\ UNCHANGED <<v1, v3, v6>> /\ v5' = Consul!Answered(c, t)
    BY <1>4 DEF Consul!Goes
  <2>2. v5[c].op = "clear_and_start" => Len(v4[c]) < 3
    <3>1. Len(v4[c]) = Len(p.requests) - i + 1 /\ Len(p.requests) \in Nat
      BY <1>2, ConsulPairs DEF ConsulAt
    <3> QED
      BY <1>3, <3>1
  <2>3. ASSUME v4'[c] = t,
               ConsulMoves(c, v2, {}, IF t = <<>> THEN "ok" ELSE v5[c].result, v5[c].excused)
        PROVE  Consul!Written(c)'
    <3>1. /\ v5'[c].op = v5[c].op /\ v5'[c].touched = v5[c].touched
          /\ v5'[c].excused = v5[c].excused
      BY <2>3 DEF ConsulMoves
    <3>2. Consul!Written(c) /\ v5[c].result = "none"
      BY <1>1, ConsulInvIs DEF ConsulCallOk, Consul!Unfinished
    <3>3. v5[c].op = "clear_and_start" /\ ~v5[c].excused => v2 \cup v7 \subseteq v5[c].touched
      BY <2>2, <3>2 DEF Consul!Written
    <3> QED
      BY <1>3, <1>4, <3>1, <3>3 DEF Consul!Written
  <2>4. v5[c].op # "get_key_layered"
    BY <1>3
  <2>5. v1' \in {"down", "electing", "up"} /\ v3' \in BOOLEAN /\ (v3' => v1' # "down")
    BY <2>1, ConsulRest
  <2>6. t \in {Tail(v4[c]), <<>>}
    OBVIOUS
  <2> HIDE DEF t
  <2> QED
    BY <1>1, <1>4, <2>1, <2>3, <2>4, <2>5, <2>6, ConsulGoes
<1>5. CASE Consul!Fault /\ Consul!Raises(c, TRUE)
  BY <1>1, <1>5, ConsulRest, ConsulRaisesQuietly
<1> QED
  BY <1>4, <1>5, Zenon DEF Consul!AwaitLeader

LEMMA ConsulFailsStep ==
  ASSUME Consul!Inv, NEW c \in Actors, Consul!RequestFails(c) PROVE Consul!Inv'
<1>1. v4[c] # <<>> /\ Consul!Raises(c, TRUE) /\ (Consul!Fault \/ v6' = v6)
  BY DEF Consul!RequestFails
<1>2. v6' \in 0..MaxFaults
  BY <1>1, ConsulRest
<1> QED
  BY <1>1, <1>2, ConsulRaisesQuietly

\* A command on the files or the process of the server.
LEMMA ConsulServerStep ==
  ASSUME Consul!Inv, NEW c \in Actors, v4[c] # <<>>, NEW s, NEW m, NEW ks, NEW changed,
         ConsulChanges(s, m, ks), Consul!Store(c, s, m, ks, changed),
         changed \in [Actors -> Consul!Calls], changed[c].op = v5[c].op,
         changed[c].keys = v5[c].keys, changed[c].stays = v5[c].stays,
         changed[c].touched = v5[c].touched, \A d \in Actors \ {c} : changed[d] = v5[d],
         changed[c].result = IF Tail(v4[c]) = <<>> THEN "ok" ELSE v5[c].result,
         v4' = [v4 EXCEPT ![c] = Tail(@)], v6' = v6,
         v1' \in {"down", "electing", "up"}, v3' \in BOOLEAN, v3' => v1' # "down",
         \/ v5[c].op \in {"start", "stop"}
         \/ v5[c].op = "clear_and_start" /\ (~changed[c].excused => s = {} /\ m = {})
  PROVE  Consul!Inv'
<1> DEFINE t == Tail(v4[c])
           r == IF t = <<>> THEN "ok" ELSE v5[c].result
           e == changed[c].excused
<1>1. v2' = s /\ v7' = m /\ v5' \in [Actors -> Consul!Calls] /\ ConsulMoves(c, s, ks, changed[c].result, e)
  BY ConsulStored
<1>2. ConsulMoves(c, s, ks, r, e)
  BY <1>1, Zenon
<1>3. v4' = [v4 EXCEPT ![c] = t] /\ v4'[c] = t
  BY ConsulRest
<1>4. Consul!Written(c)'
  <2>1. v5'[c].op = v5[c].op /\ v5'[c].excused = e
    BY <1>2 DEF ConsulMoves
  <2>2. CASE v5[c].op \in {"start", "stop"}
    BY <2>1, <2>2 DEF Consul!Written
  <2>3. CASE v5[c].op = "clear_and_start" /\ (~e => s = {} /\ m = {})
    BY <1>1, <2>1, <2>3 DEF Consul!Written
  <2> QED
    BY <2>2, <2>3
<1>5. v5[c].op # "get_key_layered"
  OBVIOUS
<1> HIDE DEF t
<1>6. ConsulCallOk(c)'
  BY <1>1, <1>2, <1>3, <1>4, <1>5, ConsulReturns DEF t
<1>7. v6' \in 0..MaxFaults
  BY ConsulRest
<1> HIDE DEF r, e
<1> QED
  BY <1>1, <1>2, <1>3, <1>6, <1>7, ConsulStep

LEMMA ConsulRestartedStep ==
  ASSUME Consul!Inv, NEW c \in Actors, Consul!DockerStop(c) \/ Consul!DockerRestart(c)
  PROVE  Consul!Inv'
<1> DEFINE s == IF v3 THEN {} ELSE v2
           m == IF v3 THEN {} ELSE v7
           ks == IF v3 THEN Consul!Keys ELSE {}
           x == Consul!Answered(c, Tail(v4[c]))
<1>1. v4[c] # <<>> /\ Head(v4[c])[1] \in {"docker_stop", "docker_restart"}
  BY DEF Consul!DockerStop, Consul!DockerRestart, Consul!Doing
<1>2. PICK p, i : ConsulAt(c, p, i) /\ ConsulListed(p, i)
  BY <1>1, ConsulPlace
<1>3. v5[c].op \in {"start", "stop"}
  BY <1>1, <1>2, ConsulServerPlace
<1>4. /\ v1' \in {"down", "electing"} /\ v3' = FALSE /\ v6' = v6
      /\ v4' = [v4 EXCEPT ![c] = Tail(@)] /\ Consul!Store(c, s, m, ks, x)
  BY DEF Consul!DockerStop, Consul!DockerRestart, Consul!Restarted
<1>5. ConsulChanges(s, m, ks)
  BY ConsulRest DEF ConsulChanges, Consul!Keys
<1>6. /\ x \in [Actors -> Consul!Calls] /\ \A d \in Actors \ {c} : x[d] = v5[d]
      /\ x[c].op = v5[c].op /\ x[c].keys = v5[c].keys /\ x[c].stays = v5[c].stays
      /\ x[c].touched = v5[c].touched
      /\ x[c].result = IF Tail(v4[c]) = <<>> THEN "ok" ELSE v5[c].result
  BY ConsulAnswered, ConsulCallsAre, Zenon
<1> HIDE DEF s, m, ks, x
<1>7. v1' \in {"down", "electing", "up"} /\ v3' \in BOOLEAN /\ (v3' => v1' # "down")
  BY <1>4
<1> QED
  BY <1>1, <1>3, <1>4, <1>5, <1>6, <1>7, ConsulServerStep

LEMMA ConsulRemoveStep ==
  ASSUME Consul!Inv, NEW c \in Actors, Consul!delete_storage_compose(c)
  PROVE  Consul!Inv'
<1> DEFINE s == IF v1 = "down" THEN {} ELSE v2
           m == IF v1 = "down" THEN {} ELSE v7
           ks == IF v1 = "down" THEN Consul!Keys ELSE {}
           goes == Consul!Answered(c, Tail(v4[c]))
           x == [goes EXCEPT ![c].excused = v1 # "down"]
<1>1. v4[c] # <<>> /\ Head(v4[c])[1] = "rm"
  BY DEF Consul!delete_storage_compose, Consul!Doing
<1>2. PICK p, i : ConsulAt(c, p, i) /\ ConsulListed(p, i)
  BY <1>1, ConsulPlace
<1>3. v5[c].op = "clear_and_start"
  BY <1>1, <1>2, ConsulServerPlace
<1>4. /\ v3' = (v1 # "down") /\ UNCHANGED <<v1, v6>>
      /\ v4' = [v4 EXCEPT ![c] = Tail(@)] /\ Consul!Store(c, s, m, ks, x)
  BY DEF Consul!delete_storage_compose
<1>5. ConsulChanges(s, m, ks)
  BY ConsulRest DEF ConsulChanges, Consul!Keys
<1>6. /\ goes \in [Actors -> Consul!Calls] /\ \A d \in Actors \ {c} : goes[d] = v5[d]
      /\ goes[c].op = v5[c].op /\ goes[c].keys = v5[c].keys /\ goes[c].stays = v5[c].stays
      /\ goes[c].touched = v5[c].touched
      /\ goes[c].result = IF Tail(v4[c]) = <<>> THEN "ok" ELSE v5[c].result
  BY ConsulAnswered, ConsulCallsAre, Zenon
<1> HIDE DEF goes
<1>7. /\ x \in [Actors -> Consul!Calls] /\ \A d \in Actors \ {c} : x[d] = v5[d]
      /\ x[c].op = v5[c].op /\ x[c].keys = v5[c].keys /\ x[c].stays = v5[c].stays
      /\ x[c].touched = v5[c].touched /\ x[c].excused = (v1 # "down")
      /\ x[c].result = IF Tail(v4[c]) = <<>> THEN "ok" ELSE v5[c].result
  <2> DEFINE new == [goes[c] EXCEPT !.excused = v1 # "down"]
  <2>1. goes[c] \in Consul!Calls /\ (v1 # "down") \in BOOLEAN
    BY <1>6
  <2>2. new \in Consul!Calls
    BY <2>1, ConsulRecord
  <2>3. /\ new.op = goes[c].op /\ new.keys = goes[c].keys /\ new.stays = goes[c].stays
        /\ new.touched = goes[c].touched /\ new.excused = (v1 # "down") /\ new.result = goes[c].result
    BY <2>1 DEF Consul!Calls
  <2>4. x = [goes EXCEPT ![c] = new]
    BY <1>6
  <2> HIDE DEF new, x
  <2>5. x \in [Actors -> Consul!Calls] /\ (\A d \in Actors \ {c} : x[d] = goes[d]) /\ x[c] = new
    BY <1>6, <2>2, <2>4
  <2> QED
    BY <1>6, <2>3, <2>5
<1>8. ~x[c].excused => s = {} /\ m = {}
  BY <1>7
<1> HIDE DEF s, m, ks, x
<1>9. v1' \in {"down", "electing", "up"} /\ v3' \in BOOLEAN /\ (v3' => v1' # "down")
  BY <1>4, ConsulRest
<1> QED
  BY <1>1, <1>3, <1>4, <1>5, <1>7, <1>8, <1>9, ConsulServerStep

\* A call that begins: it has all of its requests to make.
LEMMA ConsulBegins ==
  ASSUME NEW p \in Consul!Plans
  PROVE  /\ p.keys \subseteq Consul!Keys
         /\ p.op = "put_key" => Len(p.requests) = 1
         /\ p.op = "update_key_value" => Len(p.requests) = 2
         /\ p.op = "delete_key" => Len(p.requests) = 1
         /\ p.op = "transaction" => Len(p.requests) = Len(Consul!Chunks)
         /\ p.op = "verify_functionality" => Len(p.requests) = 6
         /\ p.op = "clear_and_start" => Len(p.requests) = 3
         /\ p.op = "get_key_layered" => Len(p.requests) = 3
<1>1. {"OVERRIDE"} \subseteq Consul!Keys /\ {"test_key", "test_key_int"} \subseteq Consul!Keys
      /\ Consul!Settings \subseteq Consul!Keys
  BY DEF Consul!Keys, Consul!Settings
<1>2. p.keys \subseteq Consul!Keys
  BY <1>1, ConsulPlans DEF ConsulIs
<1>3. Len(p.requests) \in Nat \ {0}
  BY ConsulPairs
<1>4. 1 \in 1..Len(p.requests)
  BY <1>3
<1>5. ConsulListed(p, 1)
  BY <1>4, ConsulTable
<1> QED
  BY <1>2, <1>5 DEF ConsulListed, ConsulRow

LEMMA ConsulFresh ==
  ASSUME Consul!Inv, NEW c, NEW p \in Consul!Plans, v4'[c] = p.requests, ConsulTyped(c, p)',
         v2' = v2, v7' = v7, v5'[c].result = "none", v5'[c].stays \subseteq v2
  PROVE  ConsulCallOk(c)'
<1>1. Consul!Pending(c)'
  <2>1. PICK S : p.requests \in Seq(S)
    BY ConsulSeq
  <2>2. SubSeq(p.requests, 0 + 1, Len(p.requests)) = p.requests
    BY <2>1, SubSeqFull
  <2>3. 0 \in 0..Len(p.requests)
    BY ConsulPairs
  <2> QED
    BY <2>2, <2>3, Zenon DEF Consul!Pending, ConsulTyped
<1>2. v5'[c].op = p.op /\ Len(p.requests) \in Nat \ {0}
  BY ConsulPairs DEF ConsulTyped
<1>3. Consul!Written(c)'
  <2>1. CASE p.op = "transaction"
    <3>1. Len(Consul!Chunks) - Len(v4'[c]) = 0
      BY <1>2, <2>1, ConsulBegins
    <3>2. \A i \in 1..(Len(Consul!Chunks) - Len(v4'[c])) : FALSE
      BY <3>1
    <3> QED
      BY <1>2, <2>1, <3>2 DEF Consul!Written
  <2>2. CASE p.op # "transaction"
    <3>1. /\ p.op \in {"put_key", "update_key_value", "delete_key"} => Len(v4'[c]) # 0
          /\ p.op = "verify_functionality" => Len(v4'[c]) # 5 /\ Len(v4'[c]) # 1
          /\ p.op = "clear_and_start" => ~(Len(v4'[c]) < 3)
      <4>1. Len(v4'[c]) = Len(p.requests)
        OBVIOUS
      <4>2. p.op \in {"put_key", "update_key_value", "delete_key"} => Len(v4'[c]) \in {1, 2}
        BY <4>1, ConsulBegins
      <4>3. p.op = "verify_functionality" => Len(v4'[c]) = 6
        BY <4>1, ConsulBegins
      <4>4. p.op = "clear_and_start" => Len(v4'[c]) = 3
        BY <4>1, ConsulBegins
      <4> DEFINE n == Len(v4'[c])
      <4> HIDE DEF n
      <4>5. /\ n \in {1, 2} => n # 0
            /\ n = 6 => n # 5 /\ n # 1
            /\ n = 3 => ~(n < 3)
        OBVIOUS
      <4> QED
        BY <4>2, <4>3, <4>4, <4>5, Zenon DEF n
    <3> QED
      BY <1>2, <2>2, <3>1 DEF Consul!Written
  <2> QED
    BY <2>1, <2>2
<1>4. Consul!Seen(c)'
  <2>1. p.op = "get_key_layered" => 3 - Len(v4'[c]) = 0
    BY ConsulBegins
  <2>2. \A j \in 1..0 : FALSE
    OBVIOUS
  <2> QED
    BY <1>2, <2>1, <2>2 DEF Consul!Seen
<1>5. Consul!Unfinished(c)' /\ Consul!Reasons(c)'
  BY DEF Consul!Unfinished, Consul!Reasons
<1> QED
  BY <1>1, <1>3, <1>4, <1>5 DEF ConsulCallOk

\* The calls of others: forgotten when they have returned, else as they were.
LEMMA ConsulIdle ==
  /\ Consul!Idle \in Consul!Calls
  /\ Consul!Idle.op = "none" /\ Consul!Idle.result = "none" /\ Consul!Idle.stays = {}
BY DEF Consul!Idle, Consul!Calls

LEMMA ConsulForgotten ==
  ASSUME NEW d, v4[d] = <<>>, v5[d] = Consul!Idle
  PROVE  ConsulCallOk(d)
BY ConsulIdle DEF ConsulCallOk, Consul!Pending, Consul!Unfinished, Consul!Written, Consul!Seen,
   Consul!Reasons

LEMMA ConsulForgottenPrimed ==
  ASSUME NEW d, v4'[d] = <<>>, v5'[d] = Consul!Idle
  PROVE  ConsulCallOk(d)'
BY ConsulIdle DEF ConsulCallOk, Consul!Pending, Consul!Unfinished, Consul!Written, Consul!Seen,
   Consul!Reasons

LEMMA ConsulUnchanged ==
  ASSUME NEW d, ConsulCallOk(d), v4'[d] = v4[d], v5'[d] = v5[d], v2' = v2, v7' = v7
  PROVE  ConsulCallOk(d)'
<1>1. Consul!Pending(d)'
  BY Zenon DEF ConsulCallOk, Consul!Pending
<1> QED
  BY <1>1 DEF ConsulCallOk, Consul!Unfinished, Consul!Written, Consul!Seen, Consul!Reasons

LEMMA ConsulCallStep ==
  ASSUME Consul!Inv, NEW c \in Actors, NEW op, NEW ks, NEW r,
         Consul!Plan(op, ks, r) \in Consul!Plans, Consul!Call(c, op, ks, r)
  PROVE  Consul!Inv'
<1> DEFINE p == Consul!Plan(op, ks, r)
           stays == IF op \in Consul!Reads THEN v2 \cap ks ELSE {}
           fresh == [op |-> op, keys |-> ks, result |-> "none", touched |-> {},
                     stays |-> stays, excused |-> FALSE]
<1>1. p \in Consul!Plans /\ p.op = op /\ p.keys = ks /\ p.requests = r
  BY DEF Consul!Plan
<1> HIDE DEF p
<1>2. /\ v4' = [v4 EXCEPT ![c] = r] /\ UNCHANGED <<v1, v2, v3, v6, v7>>
      /\ v5' = [d \in Actors |-> IF d = c THEN fresh
                                 ELSE IF v4[d] = <<>> THEN Consul!Idle ELSE v5[d]]
  BY Zenon DEF Consul!Call
<1>3. stays \subseteq v2 /\ stays \subseteq Consul!Keys
  BY ConsulRest
<1> HIDE DEF stays
<1>4. fresh \in Consul!Calls
  <2>1. ks \subseteq Consul!Keys
    BY <1>1, ConsulBegins
  <2>2. op \in {"put_key", "update_key_value", "delete_key", "get_key", "get_key_layered",
                "transaction", "verify_functionality", "clear_and_start", "start", "stop", "ping"}
    BY <1>1, ConsulKeys
  <2> QED
    BY <1>3, <2>1, <2>2 DEF Consul!Calls
<1>5. fresh.op = op /\ fresh.keys = ks /\ fresh.result = "none" /\ fresh.stays = stays
  OBVIOUS
<1> HIDE DEF fresh
<1>6. v5 \in [Actors -> Consul!Calls] /\ v4 = [d \in Actors |-> v4[d]]
  BY ConsulRest
<1>7. v5' \in [Actors -> Consul!Calls]
  BY <1>2, <1>4, <1>6, ConsulIdle
<1>8. v4' = [d \in Actors |-> v4'[d]]
  BY <1>2, <1>6
<1>9. ConsulTypes'
  BY <1>2, <1>7, <1>8, ConsulRest DEF ConsulTypes
<1>10. ConsulCallOk(c)'
  <2>1. v4'[c] = p.requests /\ v5'[c] = fresh
    BY <1>1, <1>2, <1>6
  <2> QED
    BY <1>1, <1>2, <1>3, <1>5, <2>1, ConsulFresh DEF ConsulTyped
<1>11. ASSUME NEW d \in Actors \ {c} PROVE ConsulCallOk(d)'
  <2>1. v4'[d] = v4[d] /\ v5'[d] = IF v4[d] = <<>> THEN Consul!Idle ELSE v5[d]
    BY <1>2, <1>6
  <2>2. CASE v4[d] = <<>>
    BY <2>1, <2>2, ConsulForgottenPrimed, Zenon
  <2>3. CASE v4[d] # <<>>
    <3>1. ConsulCallOk(d)
      BY ConsulInvIs
    <3> QED
      BY <1>2, <2>1, <2>3, <3>1, ConsulUnchanged, Zenon
  <2> QED
    BY <2>2, <2>3
<1> QED
  BY <1>9, <1>10, <1>11, ConsulInvPrimed

\* Every step keeps the invariant.
LEMMA ConsulElectStep ==
  ASSUME Consul!Inv, Consul!ElectLeader PROVE Consul!Inv'
<1>1. v1' = "up" /\ UNCHANGED <<v2, v3, v4, v5, v6, v7>>
  BY DEF Consul!ElectLeader
<1>2. ConsulTypes'
  BY <1>1, ConsulRest DEF ConsulTypes
<1>3. ASSUME NEW d \in Actors PROVE ConsulCallOk(d)'
  <2>1. ConsulCallOk(d)
    BY ConsulInvIs
  <2> QED
    BY <1>1, <2>1, ConsulUnchanged
<1> QED
  BY <1>2, <1>3, ConsulInvPrimed

LEMMA ConsulInit == Consul!Init => Consul!Inv
<1> SUFFICES ASSUME Consul!Init PROVE Consul!Inv
  OBVIOUS
<1>1. /\ v4 = [c \in Actors |-> <<>>] /\ v5 = [c \in Actors |-> Consul!Idle]
      /\ v1 \in {"down", "up"} /\ v2 \in SUBSET Consul!Settings /\ v3 = FALSE /\ v6 = MaxFaults
      /\ v7 \subseteq ({"OVERRIDE"} \cap Consul!Settings) \ v2
  BY DEF Consul!Init
<1>2. ConsulTypes
  <2>1. v5 \in [Actors -> Consul!Calls]
    BY <1>1, ConsulIdle
  <2>2. v2 \subseteq Consul!Keys
    BY <1>1 DEF Consul!Keys
  <2>3. v4 = [c \in Actors |-> v4[c]]
    BY <1>1
  <2>4. v6 \in 0..MaxFaults
    BY <1>1, BoundsAssumption
  <2> QED
    BY <1>1, <2>1, <2>2, <2>3, <2>4 DEF ConsulTypes
<1>3. ASSUME NEW c \in Actors PROVE ConsulCallOk(c)
  BY <1>1, ConsulForgotten
<1> QED
  BY <1>2, <1>3, ConsulInvIs

LEMMA ConsulCalls ==
  ASSUME Consul!Inv, NEW c \in Actors,
         \/ \E k \in {"OVERRIDE"} : \/ Consul!put_key(c, k) \/ Consul!update_key_value(c, k)
                                    \/ Consul!delete_key(c, k) \/ Consul!get_key(c, k)
         \/ Consul!get_key_layered(c) \/ Consul!transaction(c) \/ Consul!verify_functionality(c)
         \/ Consul!clear_and_start(c) \/ Consul!start(c) \/ Consul!stop(c) \/ Consul!Leader(c)
  PROVE  Consul!Inv'
<1>1. ASSUME NEW k \in {"OVERRIDE"},
             \/ Consul!put_key(c, k) \/ Consul!update_key_value(c, k)
             \/ Consul!delete_key(c, k) \/ Consul!get_key(c, k)
      PROVE  Consul!Inv'
  <2>1. /\ Consul!Plan("put_key", {k}, <<<<"put", k>>>>) \in Consul!KeyPlans
        /\ Consul!Plan("update_key_value", {k}, <<<<"delete", k>>, <<"put", k>>>>) \in Consul!KeyPlans
        /\ Consul!Plan("delete_key", {k}, <<<<"delete", k>>>>) \in Consul!KeyPlans
        /\ Consul!Plan("get_key", {k}, <<<<"get", k>>>>) \in Consul!KeyPlans
    BY Zenon DEF Consul!KeyPlans
  <2>2. Consul!KeyPlans \subseteq Consul!Plans
    BY Zenon DEF Consul!Plans
  <2> QED
    BY <1>1, <2>1, <2>2, ConsulCallStep, Zenon
       DEF Consul!put_key, Consul!update_key_value, Consul!delete_key, Consul!get_key
<1>2. CASE Consul!get_key_layered(c)
  <2>1. Consul!Plan("get_key_layered", Consul!Settings, ConsulReads) \in Consul!Plans
    BY Zenon DEF Consul!Plans, ConsulReads
  <2> QED
    BY <1>2, <2>1, ConsulCallStep, Zenon DEF Consul!get_key_layered, ConsulReads
<1>3. CASE Consul!transaction(c)
  <2>1. Consul!Plan("transaction", Consul!Settings, ConsulWrites) \in Consul!Plans
    BY Zenon DEF Consul!Plans, ConsulWrites
  <2>2. Consul!Call(c, "transaction", Consul!Settings, ConsulWrites)
    BY <1>3, Zenon DEF Consul!transaction, ConsulWrites, Consul!Chunks
  <2> QED
    BY <2>1, <2>2, ConsulCallStep, Zenon
<1>4. CASE Consul!verify_functionality(c)
  <2>1. Consul!Plan("verify_functionality", {"test_key", "test_key_int"}, ConsulChecks) \in Consul!Plans
    BY Zenon DEF Consul!Plans, ConsulChecks
  <2> QED
    BY <1>4, <2>1, ConsulCallStep, Zenon DEF Consul!verify_functionality, ConsulChecks
<1>5. CASE Consul!clear_and_start(c) \/ Consul!start(c)
  <2>1. /\ Consul!Plan("clear_and_start", Consul!Keys, ConsulClears) \in Consul!Plans
        /\ Consul!Plan("start", {}, ConsulStarts) \in Consul!Plans
    BY Zenon DEF Consul!Plans, ConsulClears, ConsulStarts
  <2> QED
    BY <1>5, <2>1, ConsulCallStep, Zenon
       DEF Consul!clear_and_start, Consul!start, ConsulClears, ConsulStarts
<1>6. CASE Consul!stop(c) \/ Consul!Leader(c)
  <2>1. /\ Consul!Plan("stop", {}, ConsulStop) \in Consul!Plans
        /\ Consul!Plan("ping", {}, ConsulPing) \in Consul!Plans
    BY Zenon DEF Consul!Plans, ConsulStop, ConsulPing
  <2> QED
    BY <1>6, <2>1, ConsulCallStep, Zenon DEF Consul!stop, Consul!Leader, ConsulStop, ConsulPing
<1> QED
  BY <1>1, <1>2, <1>3, <1>4, <1>5, <1>6

LEMMA ConsulNextStep ==
  ASSUME Consul!Inv, Consul!Next PROVE Consul!Inv'
<1>1. CASE Consul!ElectLeader
  BY <1>1, ConsulElectStep
<1>2. ASSUME NEW c \in Actors,
             \/ Consul!Put(c) \/ Consul!Delete(c) \/ Consul!PutChunk(c) \/ Consul!Get(c)
             \/ Consul!ReadLayer(c) \/ Consul!GetServices(c) \/ Consul!ping(c)
             \/ Consul!delete_storage_compose(c) \/ Consul!DockerStop(c) \/ Consul!DockerStart(c)
             \/ Consul!DockerRestart(c) \/ Consul!AwaitLeader(c) \/ Consul!RequestFails(c)
      PROVE  Consul!Inv'
  BY <1>2, ConsulPutStep, ConsulDeleteStep, ConsulPutChunkStep, ConsulGetStep, ConsulReadStep,
     ConsulServicesStep, ConsulRemoveStep, ConsulRestartedStep, ConsulDockerStartStep,
     ConsulAwaitStep, ConsulFailsStep
<1> QED
  BY <1>1, <1>2, ConsulCalls, Zenon DEF Consul!Next

LEMMA ConsulStutters ==
  ASSUME Consul!Inv, UNCHANGED Consul!vars PROVE Consul!Inv'
<1>1. UNCHANGED <<v1, v2, v3, v4, v5, v6, v7>>
  BY DEF Consul!vars
<1>2. ConsulTypes'
  BY <1>1, ConsulRest DEF ConsulTypes
<1>3. ASSUME NEW d \in Actors PROVE ConsulCallOk(d)'
  <2>1. ConsulCallOk(d)
    BY ConsulInvIs
  <2> QED
    BY <1>1, <2>1, ConsulUnchanged
<1> QED
  BY <1>2, <1>3, ConsulInvPrimed

\* What the invariant says of the calls that have returned.
LEMMA ConsulLayered == Consul!Inv => Consul!LayeredReadFindsWhatStays
<1> DEFINE Rank(l) == CHOOSE i \in 1..3 : Consul!Layers[i] = l
<1>1. ASSUME NEW i \in 1..3 PROVE Rank(Consul!Layers[i]) = i
  <2>1. \E j \in 1..3 : Consul!Layers[j] = Consul!Layers[i]
    OBVIOUS
  <2>2. Rank(Consul!Layers[i]) \in 1..3 /\ Consul!Layers[Rank(Consul!Layers[i])] = Consul!Layers[i]
    BY <2>1, Zenon
  <2> HIDE DEF Rank
  <2> QED
    BY <2>2, ConsulLayers, Zenon
<1> SUFFICES ASSUME Consul!Inv, NEW c \in Actors, Consul!Ok(c, "get_key_layered"),
                    NEW l \in v5[c].stays \cap Consul!Settings
             PROVE  v5[c].result \in Consul!Settings /\ Rank(v5[c].result) <= Rank(l)
  BY Zenon DEF Consul!LayeredReadFindsWhatStays
<1> HIDE DEF Rank
<1>2. /\ v5[c].op = "get_key_layered" /\ v4[c] = <<>> /\ v5[c].result # "raised"
      /\ Consul!Seen(c)
  BY ConsulInvIs DEF Consul!Ok, ConsulCallOk
<1>3. Len(v4[c]) = 0
  <2>1. Len(<<>>) = 0
    OBVIOUS
  <2> QED
    BY <1>2, <2>1, Zenon
<1>4. PICK j \in 1..3 : l = Consul!Layers[j]
  BY ConsulLayers
<1>5. PICK i \in 1..3 : v5[c].result = Consul!Layers[i]
                        /\ \A n \in 1..(i - 1) : Consul!Layers[n] \notin v5[c].stays
  <2>1. ~\A n \in 1..3 : Consul!Layers[n] \notin v5[c].stays
    BY <1>4
  <2>2. 3 - Len(v4[c]) = 3
    BY <1>3
  <2> QED
    BY <1>2, <1>3, <2>1, <2>2 DEF Consul!Seen
<1>6. i <= j
  BY <1>4, <1>5
<1> QED
  BY <1>1, <1>4, <1>5, <1>6, ConsulLayers

LEMMA ConsulCallsHold == Consul!Inv => Consul!CallsHold /\ Consul!ClearedWhenDown
<1> SUFFICES ASSUME Consul!Inv PROVE Consul!CallsHold /\ Consul!ClearedWhenDown
  OBVIOUS
<1>0. Len(<<>>) = 0
  OBVIOUS
<1>1. ASSUME NEW c \in Actors
      PROVE  Consul!Pending(c) /\ Consul!Written(c) /\ Consul!Reasons(c) /\ (v4[c] = <<>> => Len(v4[c]) = 0)
  BY <1>0, ConsulInvIs, Zenon DEF ConsulCallOk
<1>2. ASSUME NEW c \in Actors, Consul!Ok(c, "transaction")
      PROVE  v5[c].keys \ v5[c].touched \subseteq v2 \cup v7
  <2> DEFINE own == v5[c].keys \ v5[c].touched
             n == Len(Consul!Chunks)
  <2>1. v5[c].op = "transaction" /\ v5[c].result # "raised" /\ Len(v4[c]) = 0
    BY <1>1, <1>2 DEF Consul!Ok
  <2>2. n - Len(v4[c]) = n
    BY <2>1, ConsulChunks
  <2>3. \A i \in 1..n : own \cap Consul!Chunks[i] \subseteq v2 \cup v7
    BY <1>1, <2>1, <2>2, Zenon DEF Consul!Written
  <2>4. own \subseteq Consul!Settings
    <3>1. PICK p \in Consul!Plans : v5[c].op = p.op /\ v5[c].keys = p.keys
      BY <1>1, <2>1 DEF Consul!Pending
    <3> QED
      BY <2>1, <3>1, ConsulKeys
  <2> QED
    BY <2>3, <2>4, ConsulChunks
<1>3. ASSUME NEW c \in Actors
      PROVE  /\ \A op \in {"put_key", "update_key_value"} :
                  Consul!Ok(c, op) => v5[c].keys \ v5[c].touched \subseteq v2 \cup v7
             /\ Consul!Ok(c, "delete_key") => (v5[c].keys \ v5[c].touched) \cap (v2 \cup v7) = {}
  BY <1>1 DEF Consul!Ok, Consul!Written
<1>4. ASSUME NEW c \in Actors, Consul!Ok(c, "clear_and_start"), ~v5[c].excused
      PROVE  v2 \cup v7 \subseteq v5[c].touched
  <2>1. Len(v4[c]) < 3
    BY <1>1, <1>4 DEF Consul!Ok
  <2> QED
    BY <1>1, <1>4, <2>1 DEF Consul!Ok, Consul!Written
<1>5. Consul!CallsHold
  BY <1>1, <1>2, <1>3 DEF Consul!CallsHold, Consul!Reasons
<1> QED
  BY <1>4, <1>5 DEF Consul!ClearedWhenDown

LEMMA ConsulAlways == Spec => [](focus = "consul" => Consul!Inv)
<1> DEFINE Holds == focus = "consul" => Consul!Inv
<1>1. Init => Holds
  BY ConsulInit DEF Init
<1>2. Holds /\ [Next]_vars => Holds'
  <2>1. ASSUME Holds, Next PROVE Holds'
    BY <2>1, ConsulNextStep DEF Next
  <2>2. ASSUME Holds, UNCHANGED vars PROVE Holds'
    <3>1. UNCHANGED <<focus, v1, v2, v3, v4, v5, v6, v7>>
      BY <2>2 DEF vars
    <3> QED
      BY <2>2, <3>1, ConsulStutters DEF Consul!vars
  <2> QED
    BY <2>1, <2>2
<1> QED
  BY <1>1, <1>2, PTL DEF Spec

\* Layered reads never pass over a layer that had a value all the time, what a call that
\* returned wrote or deleted is so unless others touched it, and a clearing of a server that
\* was down leaves only what was written since, for any callers, chunks and faults.
THEOREM StoredKeysHold == Spec => []ConsulHolds
<1> DEFINE Holds == focus = "consul" => Consul!Inv
<1>1. Holds => ConsulHolds
  BY ConsulLayered, ConsulCallsHold DEF ConsulHolds
<1> QED
  BY <1>1, ConsulAlways, PTL

-----------------------------------------------------------------------------
(* The composition.                                                        *)

\* Whichever module is in focus, its variables have the types that it declares.
THEOREM TypesAreKept == Spec => []TypeOK
<1> DEFINE DeploymentTypes == /\ focus = "registry" => Registry!TypeOK
                              /\ focus = "compose" => Compose!TypeOK
                              /\ focus = "docker" => Docker!TypeOK
                              /\ focus = "data" => Data!TypeOK
           ClusterTypes == /\ focus = "k8s" => K8s!TypeOK
                           /\ focus = "job" => Jobs!TypeOK
                           /\ focus = "edits" => Edits!TypeOK
                           /\ focus = "k3s" => K3s!TypeOK
                           /\ focus = "rancher" => Rancher!TypeOK
           BrokerTypes == /\ focus = "rpyc" => Rpyc!TypeOK
                          /\ focus = "topics" => Topics!TypeOK
                          /\ focus = "rabbitmq" => Rabbit!TypeOK
           DataTypes == /\ focus = "s3" => S3!TypeOK
                        /\ focus = "memsql" => Memsql!TypeOK
                        /\ focus = "metrics" => Metrics!TypeOK
           PassTypes == /\ focus = "percentiles" => Percents!TypeOK
                        /\ focus = "consul" => Consul!TypeOK
                        /\ focus = "manager" => Manager!TypeOK
<1>1. Spec => []DeploymentTypes
  <2> DEFINE Holds == /\ focus = "registry" => Registry!Inv
                      /\ focus = "compose" => Compose!Inv
                      /\ focus = "docker" => Docker!Inv
                      /\ focus = "data" => Data!Inv
  <2>1. Holds => DeploymentTypes
    BY DEF Registry!Inv, Compose!Inv, Docker!Inv, Data!Inv
  <2> QED
    BY <2>1, RegistryAlways, ComposeAlways, DockerAlways, DataAlways, PTL
<1>2. Spec => []ClusterTypes
  <2> DEFINE Holds == /\ focus = "k8s" => K8s!Inv
                      /\ focus = "job" => Jobs!Inv
                      /\ focus = "edits" => Edits!Inv
                      /\ focus = "k3s" => K3s!Inv
                      /\ focus = "rancher" => Rancher!Inv
  <2>1. Holds => ClusterTypes
    BY DEF K8s!Inv, Jobs!Inv, Edits!Inv, K3s!Inv, Rancher!Inv
  <2> QED
    BY <2>1, EditsAlways, SetupsAlways, PTL
<1>3. Spec => []BrokerTypes
  <2> DEFINE Holds == /\ focus = "rpyc" => Rpyc!Inv
                      /\ focus = "topics" => Topics!Inv
                      /\ focus = "rabbitmq" => Rabbit!Inv
  <2>1. Holds => BrokerTypes
    BY DEF Rpyc!Inv, Topics!Inv, Rabbit!Inv
  <2> QED
    BY <2>1, BrokersAlways, PTL
<1>4. Spec => []DataTypes
  <2> DEFINE Holds == /\ focus = "s3" => S3!Inv
                      /\ focus = "memsql" => Memsql!Inv
                      /\ focus = "metrics" => Metrics!Inv
  <2>1. Holds => DataTypes
    BY DEF S3!Inv, Memsql!Inv, Metrics!Inv
  <2> QED
    BY <2>1, S3Always, MemsqlAlways, MetricsAlways, PTL
<1>5. Spec => []PassTypes
  <2> DEFINE Holds == /\ focus = "percentiles" => Percents!Inv
                      /\ focus = "consul" => Consul!Inv
                      /\ focus = "manager" => Manager!Inv
  <2>1. Holds => PassTypes
    BY DEF Percents!Inv, Consul!Inv, Manager!Inv
  <2> QED
    BY <2>1, PercentilesAlways, ConsulAlways, ManagerAlways, PTL
<1>6. DeploymentTypes /\ ClusterTypes /\ BrokerTypes /\ DataTypes /\ PassTypes => TypeOK
  BY DEF TypeOK
<1> HIDE DEF DeploymentTypes, ClusterTypes, BrokerTypes, DataTypes, PassTypes
<1> QED
  BY <1>1, <1>2, <1>3, <1>4, <1>5, <1>6, PTL

=============================================================================
