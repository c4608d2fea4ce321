------------------------------- MODULE S3Store -------------------------------
(***************************************************************************)
(* The buckets of a Seaweed on a host and the calls of plugins/seaweed.py, *)
(* utils/s3.py and, as far as plugins/seaweed.py inherits them,            *)
(* plugins/resource_manager.py that fill and clear them.  Several tests    *)
(* use one store.                                                          *)
(*                                                                         *)
(* Seaweed refuses to create a bucket that exists, and deletes one with    *)
(* whatever it holds.  Requests that fail before or after they are         *)
(* executed come from a budget, MaxFaults.                                 *)
(***************************************************************************)
EXTENDS Naturals

CONSTANTS
  Clients,
  Files,      \* what a call of upload_files_from has to upload
  MaxChunks,  \* of a resource
  MaxFaults

\* Buckets: for tests, for the uploads of files and for deployed resources.
Buckets == {"test_bucket", "dst", "automation_infra"}
Keys == Files \cup {"test.tmp", "resource", "image"}

VARIABLES
  store,    \* bucket -> its keys
  buckets,  \* those there are
  uploads,  \* keys with a multipart upload that is neither completed nor aborted
  job,      \* client -> [op, at, todo: files or buckets left, size: chunks left,
            \*            excused: history]
  faults

vars == <<store, buckets, uploads, job, faults>>

Init ==
  /\ store = [b \in Buckets |-> {}]
  /\ buckets = {"automation_infra"}
  /\ uploads = {}
  /\ job = [c \in Clients |-> [op |-> "none", at |-> "ok", todo |-> {}, size |-> 0, excused |-> FALSE]]
  /\ faults = MaxFaults

At(c, label) == job[c].at = label
Returned(c) == job[c].at \in {"ok", "raised"}
Does(c, op) == job[c].op = op /\ ~Returned(c)
Clearing == {"clear_buckets", "verify_functionality"}

\* A call begins.  Calls that clear buckets and all others disturb each other.
Begin(c, op, label, todo, size) ==
  /\ Returned(c)
  /\ LET others == {d \in Clients \ {c} : {op, job[d].op} \cap Clearing # {}}
     IN  job' = [d \in Clients |->
           IF d = c THEN [op |-> op, at |-> label, todo |-> todo, size |-> size,
                          excused |-> \E e \in others : ~Returned(e)]
           ELSE [job[d] EXCEPT !.excused = @ \/ d \in others]]
  /\ UNCHANGED <<store, buckets, uploads, faults>>

Leave(c, how) == [job EXCEPT ![c].at = how, ![c].todo = {}, ![c].size = 0]

\* A request that makes store and buckets what they are given as, if it may; the call goes
\* on as next, or raises.
Request(c, may, store2, buckets2, next) ==
  \/ may /\ store' = store2 /\ buckets' = buckets2 /\ job' = next /\ UNCHANGED faults
  \/ ~may /\ job' = Leave(c, "raised") /\ UNCHANGED <<store, buckets, faults>>
  \/ /\ faults > 0
     /\ faults' = faults - 1
     /\ \/ may /\ store' = store2 /\ buckets' = buckets2
        \/ UNCHANGED <<store, buckets>>
     /\ job' = [Leave(c, "raised") EXCEPT ![c].excused = TRUE]

Goto(c, label) == IF label = "ok" THEN Leave(c, "ok") ELSE [job EXCEPT ![c].at = label]
\* For file_exists any ClientError means that the file is not there.
Unanswered(c) ==
  faults > 0 /\ faults' = faults - 1 /\ job' = Leave(c, "ok") /\ UNCHANGED <<store, buckets>>

Put(b, k) == [store EXCEPT ![b] = @ \cup {k}]
Emptied(bs) == [b \in Buckets |-> IF b \in bs THEN {} ELSE store[b]]

-----------------------------------------------------------------------------
(* Multipart uploads.                                                      *)

deploy_resource_to_s3(c) ==
  \E n \in 0..MaxChunks : Begin(c, "deploy_resource", "create_upload", {"resource"}, n)
upload_to_seaweed_from_s3(c) ==
  \E n \in 0..MaxChunks : Begin(c, "upload_image", "create_upload", {"image"}, n)

CreateUpload(c) ==
  /\ At(c, "create_upload")
  /\ Request(c, "automation_infra" \in buckets, store, buckets, Goto(c, "get"))
  /\ uploads' = IF job'[c].at = "get" THEN uploads \cup job[c].todo ELSE uploads

\* get_object of the test resources, which are in a store of their own.
GetObject(c) ==
  /\ At(c, "get")
  /\ \E there \in BOOLEAN : Request(c, there, store, buckets, Goto(c, "part"))
  /\ UNCHANGED uploads

\* Mutant of UploadPart: one part more than there are chunks.
UploadOneMore(c) ==
  /\ At(c, "part")
  /\ Request(c, TRUE, store, buckets, [job EXCEPT ![c].size = @ - 1])
  /\ UNCHANGED uploads

\* upload_part, for each chunk.  The parts are numbered from 0, and the function of
\* utils/s3.py names another key than it created the upload for: the store may refuse.
UploadPart(c) ==
  /\ At(c, "part") /\ job[c].size > 0
  /\ \E may \in BOOLEAN :
       Request(c, may, store, buckets, [job EXCEPT ![c].size = @ - 1])
  /\ UNCHANGED uploads

\* complete_multipart_upload, which the store may refuse when there was no part.  Nobody
\* aborts an upload that is not completed.
Complete(c) ==
  /\ At(c, "part") /\ job[c].size = 0
  /\ \E may \in BOOLEAN :
       Request(c, may /\ "automation_infra" \in buckets,
               [store EXCEPT !["automation_infra"] = @ \cup job[c].todo], buckets, Goto(c, "ok"))
  /\ uploads' = IF job'[c].at = "ok" THEN uploads \ job[c].todo ELSE uploads

-----------------------------------------------------------------------------
(* upload_files_from.                                                      *)

upload_files_from(c) == Begin(c, "upload_files", "create_bucket", {}, 0)

CreateDst(c) ==
  /\ At(c, "create_bucket") /\ Does(c, "upload_files")
  /\ Request(c, "dst" \notin buckets, store, buckets \cup {"dst"}, Goto(c, "missing"))
  /\ UNCHANGED uploads

\* get_bucket_files, and what is not among them.
MissingFiles(c) ==
  /\ At(c, "missing")
  /\ Request(c, "dst" \in buckets, store, buckets,
             [job EXCEPT ![c].at = "upload", ![c].todo = Files \ store["dst"]])
  /\ UNCHANGED uploads

\* Mutant of UploadFile: the last of several files is left out.
UploadFileButLast(c) ==
  /\ At(c, "upload")
  /\ \/ /\ \A f, g \in job[c].todo : f = g
        /\ job' = Leave(c, "ok")
        /\ UNCHANGED <<store, buckets, faults>>
     \/ \E f \in job[c].todo :
          Request(c, "dst" \in buckets, Put("dst", f), buckets, [job EXCEPT ![c].todo = @ \ {f}])
  /\ UNCHANGED uploads

UploadFile(c) ==
  /\ At(c, "upload")
  /\ \/ job[c].todo = {} /\ job' = Leave(c, "ok") /\ UNCHANGED <<store, buckets, faults>>
     \/ \E f \in job[c].todo :
          Request(c, "dst" \in buckets, Put("dst", f), buckets, [job EXCEPT ![c].todo = @ \ {f}])
  /\ UNCHANGED uploads

-----------------------------------------------------------------------------
(* Clearing, and the check of the plugin.                                  *)

clear_buckets(c) == Begin(c, "clear_buckets", "list", {}, 0)
verify_functionality(c) == Begin(c, "verify_functionality", "delete_bucket", {}, 0)

\* weed shell lists the buckets first, and deletes those under a lock then.  A listing
\* that fails in the middle of the pipe is an empty one.
ListBuckets(c) ==
  /\ At(c, "list")
  /\ \/ /\ job' = [job EXCEPT ![c].todo = buckets, ![c].at = "clear"]
        /\ UNCHANGED faults
     \/ /\ faults > 0
        /\ faults' = faults - 1
        /\ job' = [job EXCEPT ![c].at = "clear", ![c].excused = TRUE]
  /\ UNCHANGED <<store, buckets>>
  /\ UNCHANGED uploads

ClearBuckets(c) ==
  /\ At(c, "clear")
  /\ Request(c, TRUE, Emptied(job[c].todo), buckets \ job[c].todo,
             Goto(c, IF Does(c, "clear_buckets") THEN "ok" ELSE "cleared"))
  /\ uploads' = IF "automation_infra" \in buckets' THEN uploads ELSE {}

\* Someone makes the bucket again that deploy_resource_to_s3 expects.
CreateInfra ==
  /\ "automation_infra" \notin buckets
  /\ buckets' = buckets \cup {"automation_infra"}
  /\ UNCHANGED <<store, uploads, job, faults>>

\* Mutant of DeleteBucket: the bucket an earlier call has left stays.
DeleteNoBucket(c) ==
  /\ At(c, "delete_bucket")
  /\ Request(c, TRUE, store, buckets, Goto(c, "create_bucket"))
  /\ UNCHANGED uploads

\* Any ClientError is passed over as if it said "doesn't exist"; other errors raise.
DeleteBucket(c) ==
  /\ At(c, "delete_bucket")
  /\ \/ Request(c, TRUE, Emptied({"test_bucket"}), buckets \ {"test_bucket"}, Goto(c, "create_bucket"))
     \/ /\ faults > 0
        /\ faults' = faults - 1
        /\ job' = [Goto(c, "create_bucket") EXCEPT ![c].excused = TRUE]
        /\ UNCHANGED <<store, buckets>>
  /\ UNCHANGED uploads

CreateTestBucket(c) ==
  /\ At(c, "create_bucket") /\ Does(c, "verify_functionality")
  /\ Request(c, "test_bucket" \notin buckets, store, buckets \cup {"test_bucket"}, Goto(c, "upload_test"))
  /\ UNCHANGED uploads

UploadTest(c) ==
  /\ At(c, "upload_test")
  /\ Request(c, "test_bucket" \in buckets, Put("test_bucket", "test.tmp"), buckets, Goto(c, "files"))
  /\ UNCHANGED uploads

\* The bucket holds the file and no other.
CheckFiles(c) ==
  /\ At(c, "files")
  /\ Request(c, store["test_bucket"] = {"test.tmp"}, store, buckets, Goto(c, "list"))
  /\ UNCHANGED uploads

CheckCleared(c) ==
  /\ At(c, "cleared")
  /\ \/ Request(c, "test.tmp" \notin store["test_bucket"], store, buckets, Goto(c, "ok"))
     \/ Unanswered(c)
  /\ UNCHANGED uploads

Next ==
  \/ CreateInfra
  \/ \E c \in Clients :
       \/ deploy_resource_to_s3(c) \/ upload_to_seaweed_from_s3(c) \/ upload_files_from(c)
       \/ clear_buckets(c) \/ verify_functionality(c)
       \/ CreateUpload(c) \/ GetObject(c) \/ UploadPart(c) \/ Complete(c)
       \/ CreateDst(c) \/ MissingFiles(c) \/ UploadFile(c)
       \/ ListBuckets(c) \/ ClearBuckets(c) \/ DeleteBucket(c) \/ CreateTestBucket(c)
       \/ UploadTest(c) \/ CheckFiles(c) \/ CheckCleared(c)

Spec == Init /\ [][Next]_vars

-----------------------------------------------------------------------------
Deploying == {"deploy_resource", "upload_image"}

Jobs ==
  [op : Deploying \cup Clearing \cup {"none", "upload_files"},
   at : {"ok", "raised", "create_upload", "get", "part", "create_bucket", "missing", "upload",
         "list", "clear", "cleared", "delete_bucket", "upload_test", "files"},
   todo : SUBSET (Keys \cup Buckets), size : 0..MaxChunks, excused : BOOLEAN]

\* Every variable has the type its declaration says.
TypeOK ==
  /\ store \in [Buckets -> SUBSET Keys]
  /\ buckets \subseteq Buckets
  /\ \A b \in Buckets \ buckets : store[b] = {}
  /\ uploads \subseteq Keys
  /\ job \in [Clients -> Jobs]
  /\ faults \in 0..MaxFaults

\* What the call has uploaded if it has returned normally, and the bucket.
Uploads(c) ==
  CASE job[c].op = "upload_files" -> Files
    [] job[c].op = "deploy_resource" -> {"resource"}
    [] job[c].op = "upload_image" -> {"image"}
    [] OTHER -> {}
Target(c) == IF job[c].op = "upload_files" THEN "dst" ELSE "automation_infra"

Holds(c) ==
  ~job[c].excused =>
    /\ At(c, "ok") => Uploads(c) \subseteq store[Target(c)]
    /\ At(c, "raised") => job[c].op # "verify_functionality"

\* What a call has uploaded, files or one resource, is all there when it returns, unless a
\* call that clears buckets came in between; and the check of the plugin fails only when a
\* request failed or another call was in its way, not because of what an earlier check has
\* left behind when it failed.
UploadsAndChecksHold == \A c \in Clients : Holds(c)
-----------------------------------------------------------------------------
(* Why it holds.                                                           *)

\* The labels each call goes through, and what it has listed when it is there.
LabelsOf(c) ==
  /\ At(c, "create_upload") \/ At(c, "get") \/ At(c, "part") =>
       job[c].op \in Deploying /\ job[c].todo = Uploads(c)
  /\ At(c, "create_bucket") => job[c].op \in {"upload_files", "verify_functionality"}
  /\ At(c, "missing") \/ At(c, "upload") => job[c].op = "upload_files"
  /\ At(c, "upload") => job[c].todo \subseteq Files
  /\ At(c, "list") \/ At(c, "clear") => job[c].op \in Clearing
  /\ job[c].at \in {"delete_bucket", "create_bucket", "upload_test", "files", "list"} =>
       job[c].todo = {}
  /\ At(c, "delete_bucket") \/ At(c, "upload_test") \/ At(c, "files") \/ At(c, "cleared") =>
       job[c].op = "verify_functionality"

\* No other call is under way that could be in the way of one that is not excused.
Apart(c, d) ==
  ~job[c].excused /\ ~Returned(d) => {job[c].op, job[d].op} \cap Clearing = {}

\* So each of its requests finds what the one before it has left.
Progress(c) ==
  ~job[c].excused =>
    /\ At(c, "upload") => Files \subseteq store["dst"] \cup job[c].todo
    /\ job[c].op = "verify_functionality" =>
         /\ At(c, "create_bucket") => "test_bucket" \notin buckets
         /\ At(c, "upload_test") => "test_bucket" \in buckets /\ store["test_bucket"] = {}
         /\ At(c, "files") => store["test_bucket"] = {"test.tmp"}
         /\ At(c, "files") \/ At(c, "list") => "test_bucket" \in buckets
         /\ At(c, "clear") => "test_bucket" \in job[c].todo
         /\ At(c, "cleared") => store["test_bucket"] = {}

Inv ==
  /\ TypeOK
  /\ \A c \in Clients : LabelsOf(c) /\ Progress(c) /\ Holds(c)
  /\ \A c, d \in Clients : c = d \/ Apart(c, d)
==============================================================================
