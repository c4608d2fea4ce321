--------------------------- MODULE ResourceManager ---------------------------
(***************************************************************************)
(* verify_functionality of plugins/resource_manager.py, on the bucket of   *)
(* the test resources, which all tests everywhere share, and on a host     *)
(* that some of them share.                                                *)
(*                                                                         *)
(* Of the test resources the first two matter: no call looks at another.   *)
(* Requests that fail before or after they are executed come from a        *)
(* budget, MaxFaults.                                                      *)
(***************************************************************************)
EXTENDS Naturals

CONSTANTS Callers, MaxFaults

\* The file that the check uploads is one more key of the bucket.
Resources == {"first", "second"}
Keys == Resources \cup {"Jenkinsfile"}

VARIABLES
  bucket,    \* its keys
  deployed,  \* what is in /tmp/resource_multiple on the host
  call,      \* caller -> [at, files: files[0:2], todo: those to deploy, excused: history]
  faults

vars == <<bucket, deployed, call, faults>>

\* What the listing has at places 0 and 1.
Listings == [first : Keys \cup {"none"}, second : Keys \cup {"none"}]
Listed(listing) == {listing.first, listing.second} \ {"none"}
Nothing == [first |-> "none", second |-> "none"]

Init ==
  /\ bucket \in {{}, {"first"}, Resources}
  /\ deployed = {}
  /\ call = [c \in Callers |->
       [at |-> "ok", files |-> Nothing, todo |-> {}, excused |-> FALSE]]
  /\ faults = MaxFaults

At(c, label) == call[c].at = label
Returned(c) == call[c].at \in {"ok", "raised"}

\* Checks at the same time disturb each other: they use one key, and one directory.
verify_functionality(c) ==
  /\ Returned(c)
  /\ call' = [d \in Callers |->
       IF d = c THEN [at |-> "list", files |-> Nothing, todo |-> {},
                      excused |-> \E e \in Callers \ {c} : ~Returned(e)]
       ELSE [call[d] EXCEPT !.excused = @ \/ ~Returned(d)]]
  /\ UNCHANGED <<bucket, deployed, faults>>

Becomes(c, next) == call' = [call EXCEPT ![c] = next]
Goes(c, label) == [call[c] EXCEPT !.at = label]
Raises(c) == [call[c] EXCEPT !.at = "raised", !.todo = {}]

\* A request that makes the bucket and the directory what they are given as, if it may; the
\* call goes on as next, or raises.
Request(c, may, bucket2, deployed2, next) ==
  \/ may /\ bucket' = bucket2 /\ deployed' = deployed2 /\ Becomes(c, next) /\ UNCHANGED faults
  \/ ~may /\ Becomes(c, Raises(c)) /\ UNCHANGED <<bucket, deployed, faults>>
  \/ /\ faults > 0
     /\ faults' = faults - 1
     /\ \/ may /\ bucket' = bucket2 /\ deployed' = deployed2
        \/ UNCHANGED <<bucket, deployed>>
     /\ Becomes(c, [Raises(c) EXCEPT !.excused = TRUE])

\* One that changes neither.
Reads(c, may, next) == Request(c, may, bucket, deployed, next)

\* The listing of an empty bucket has no Contents, which raises.  The file of an earlier
\* check may be listed before the first resource, after it or last.
get_s3_files(c) ==
  /\ At(c, "list")
  /\ \/ bucket = {} /\ Reads(c, FALSE, call[c])
     \/ \E listing \in Listings :
          /\ listing.first \in bucket \ {"second"}
          /\ IF bucket = {listing.first} THEN listing.second = "none"
             ELSE /\ listing.second \in bucket \ {listing.first}
                  /\ "first" \in Listed(listing)
          /\ Reads(c, TRUE, [Goes(c, "put") EXCEPT !.files = listing])

upload_from_filesystem(c) ==
  /\ At(c, "put")
  /\ Request(c, TRUE, bucket \cup {"Jenkinsfile"}, deployed, Goes(c, "exists"))

\* file_exists is expected to be true, and after the deletion, for delete_file and for the
\* check, false: any ClientError means that the file is not there.
file_exists(c) ==
  LET there == "Jenkinsfile" \in bucket
  IN  \/ At(c, "exists") /\ Reads(c, there, Goes(c, "delete"))
      \/ \E step \in {<<"deleted", "gone">>, <<"gone", "fetch">>} :
           /\ At(c, step[1])
           /\ \/ Reads(c, ~there, Goes(c, step[2]))
              \/ /\ faults > 0
                 /\ faults' = faults - 1
                 /\ Becomes(c, Goes(c, step[2]))
                 /\ UNCHANGED <<bucket, deployed>>

\* Mutant of delete_file: the file stays when the request is answered.
DeleteNothing(c) == At(c, "delete") /\ Reads(c, TRUE, Goes(c, "deleted"))

delete_file(c) ==
  /\ At(c, "delete")
  /\ Request(c, TRUE, bucket \ {"Jenkinsfile"}, deployed, Goes(c, "deleted"))

\* files[0], which may be what the check itself has deleted by now, is fetched twice, once
\* to the host under a name that other checks use, and compared.
get_raw_resource(c) ==
  LET there == call[c].files.first \in bucket
  IN  \/ At(c, "fetch") /\ Reads(c, there, Goes(c, "compare"))
      \/ /\ At(c, "compare")
         /\ \E same \in BOOLEAN :
              /\ same \/ \E d \in Callers \ {c} : At(d, "compare")
              /\ Reads(c, there /\ same, [Goes(c, "deploy") EXCEPT !.todo = Listed(call[c].files)])

\* files[0:2], one after the other.
deploy_multiple_resources(c) ==
  /\ At(c, "deploy")
  /\ \/ call[c].todo = {} /\ Reads(c, TRUE, Goes(c, "count"))
     \/ \E k \in call[c].todo :
          /\ call[c].files.first \in call[c].todo => k = call[c].files.first
          /\ Request(c, k \in bucket, bucket, deployed \cup {k},
                     [call[c] EXCEPT !.todo = @ \ {k}])

\* ls -1 | wc -l
CountDeployed(c) ==
  /\ At(c, "count")
  /\ Reads(c, \E k, l \in deployed : k # l /\ deployed = {k, l}, Goes(c, "ok"))

Next ==
  \E c \in Callers :
    \/ verify_functionality(c)
    \/ get_s3_files(c) \/ upload_from_filesystem(c) \/ file_exists(c) \/ delete_file(c)
    \/ get_raw_resource(c) \/ deploy_multiple_resources(c) \/ CountDeployed(c)

Spec == Init /\ [][Next]_vars

-----------------------------------------------------------------------------
Calls ==
  [at : {"ok", "raised", "list", "put", "exists", "delete", "deleted", "gone", "fetch",
         "compare", "deploy", "count"},
   files : Listings, todo : SUBSET Keys, excused : BOOLEAN]

\* Every variable has the type its declaration says.
TypeOK ==
  /\ bucket \subseteq Keys
  /\ deployed \subseteq Keys
  /\ call \in [Callers -> Calls]
  /\ faults \in 0..MaxFaults

\* There are not two resources to fetch, or an earlier check that failed has left its own
\* file where it does not belong: among what this one has listed first, or on the host.
MayFail(c) ==
  "second" \notin bucket \/ "Jenkinsfile" \in Listed(call[c].files) \cup deployed

Holds(c) ==
  ~call[c].excused =>
    /\ At(c, "raised") => MayFail(c)
    /\ At(c, "ok") => "Jenkinsfile" \notin Listed(call[c].files)

\* The check fails only when a request failed, when another was under way at the same time,
\* without two test resources, or because of the file that an earlier one has left.  When it
\* returns normally it has not listed such a file: what it fetched is what it found.
ChecksFailForCause == \A c \in Callers : Holds(c)

-----------------------------------------------------------------------------
(* Why it holds.                                                           *)

\* No other check is under way at the same time as one that is not excused.
Alone(c) == call[c].excused \/ Returned(c) \/ \A d \in Callers \ {c} : Returned(d)

\* So each of its requests finds what the one before it has left.
Progress(c) ==
  ~call[c].excused =>
    /\ At(c, "exists") => "Jenkinsfile" \in bucket
    /\ call[c].at \in {"deleted", "gone", "fetch", "compare", "deploy"} => "Jenkinsfile" \notin bucket
    /\ call[c].at \in {"put", "exists", "delete", "deleted", "gone", "fetch", "compare", "deploy"} =>
         MayFail(c) \/ (Listed(call[c].files) = Resources /\ Resources \subseteq bucket)
    /\ At(c, "deploy") =>
         /\ Listed(call[c].files) \cap {"Jenkinsfile"} \subseteq call[c].todo
         /\ MayFail(c) \/ Resources \subseteq deployed \cup call[c].todo
         /\ call[c].todo \subseteq Listed(call[c].files)
    /\ At(c, "count") =>
         /\ "Jenkinsfile" \notin Listed(call[c].files)
         /\ MayFail(c) \/ deployed = Resources

Inv == TypeOK /\ \A c \in Callers : Alone(c) /\ Progress(c) /\ Holds(c)
==============================================================================
