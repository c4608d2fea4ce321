--------------------------- MODULE MemsqlPipelines ---------------------------
(***************************************************************************)
(* Memsql on a host, as plugins/memsql.py and its twin utils/memsql.py     *)
(* reset it: a pipeline that loads the partitions of a Kafka topic is      *)
(* stopped, set to the earliest offsets, made to forget its positions and  *)
(* started again, one statement after the other and without a transaction; *)
(* truncate_all empties the tables it has listed before.                   *)
(*                                                                         *)
(* The server alters a pipeline only while it is stopped, and refuses to   *)
(* start one that runs.  A connection may break before or after its        *)
(* statement is executed; MaxFaults bounds how often.                      *)
(***************************************************************************)
EXTENDS Naturals

CONSTANTS Callers, Partitions, Tables, MaxFaults

VARIABLES
  node,      \* what memsql-admin list-nodes tells: "down", "starting" or "up"
  pipeline,  \* [running, earliest: new positions start there, cursors: positions it has]
  filled,    \* tables with rows, among those there are
  tables,
  call,      \* caller -> [op, at, list: what it has read, since, excused]
  faults

vars == <<node, pipeline, filled, tables, call, faults>>

Calls == [op : {"none", "reset_pipeline", "delete_partitions", "truncate_all",
                "start_service", "stop_service", "ping"},
          at : {"ok", "raised", "stop", "offsets", "list", "drop", "start", "tables",
                "truncate", "docker", "ready"},
          list : SUBSET (Partitions \cup Tables),
          since : SUBSET (Partitions \cup Tables), \* history: loaded or filled since it began
          excused : BOOLEAN]                       \* history: disturbed

Init ==
  /\ node \in {"down", "up"}
  /\ pipeline = [running |-> TRUE, earliest |-> FALSE, cursors |-> {}]
  /\ filled = {}
  /\ tables \in SUBSET Tables
  /\ call = [c \in Callers |-> [op |-> "none", at |-> "ok", list |-> {}, since |-> {},
                                excused |-> FALSE]]
  /\ faults = MaxFaults

Returned(c) == call[c].at \in {"ok", "raised"}
At(c, label) == call[c].at = label
Goto(c, label) ==
  call' = [call EXCEPT ![c].at = label, ![c].list = IF label = "ok" THEN {} ELSE @]
Raise(c, why) ==
  call' = [call EXCEPT ![c].at = "raised", ![c].list = {}, ![c].since = {},
                       ![c].excused = @ \/ why]
Fault == faults > 0 /\ faults' = faults - 1

-----------------------------------------------------------------------------
(* The server, and the tests that use it.                                  *)

Happened(x, op) ==
  call' = [c \in Callers |-> [call[c] EXCEPT !.since =
             IF call[c].op = op /\ call[c].at # "raised" THEN @ \cup {x} ELSE @]]

Load(k) ==
  /\ node = "up" /\ pipeline.running /\ k \notin pipeline.cursors
  /\ pipeline' = [pipeline EXCEPT !.cursors = @ \cup {k}]
  /\ Happened(k, "reset_pipeline")
  /\ UNCHANGED <<node, filled, tables, faults>>

Insert(t) ==
  /\ node = "up" /\ t \notin filled
  /\ filled' = filled \cup {t}
  /\ tables' = tables \cup {t}
  /\ Happened(t, "truncate_all")
  /\ UNCHANGED <<node, pipeline, faults>>

DropTable(t) ==
  /\ node = "up" /\ t \in tables
  /\ tables' = tables \ {t}
  /\ filled' = filled \ {t}
  /\ UNCHANGED <<node, pipeline, call, faults>>

Online ==
  /\ node = "starting"
  /\ node' = "up"
  /\ UNCHANGED <<pipeline, filled, tables, call, faults>>

\* A statement that the server executes: it leaves the pipeline as p and the tables in
\* full with rows, and its answer may be lost.
Executed(c, p, full, next) ==
  /\ node = "up"
  /\ pipeline' = p
  /\ filled' = full
  /\ \/ Goto(c, next) /\ UNCHANGED faults
     \/ Fault /\ Raise(c, TRUE)
  /\ UNCHANGED <<node, tables>>

\* A statement that is not executed: no server, no connection, or the server refuses it.
Refused(c, refuses) ==
  /\ \/ node # "up" /\ Raise(c, TRUE) /\ UNCHANGED faults
     \/ node = "up" /\ refuses /\ Raise(c, FALSE) /\ UNCHANGED faults
     \/ Fault /\ Raise(c, TRUE)
  /\ UNCHANGED <<node, pipeline, filled, tables>>

-----------------------------------------------------------------------------
(* The calls.                                                              *)

Begin(c, op, label) ==
  /\ Returned(c)
  /\ LET alone == \A d \in Callers \ {c} : Returned(d)
     IN  call' = [d \in Callers |->
           IF d = c THEN [op |-> op, at |-> label, list |-> {}, since |-> {},
                          excused |-> ~alone]
           ELSE [call[d] EXCEPT !.excused = @ \/ ~Returned(d)]]
  /\ UNCHANGED <<node, pipeline, filled, tables, faults>>

\* Mutant of StopPipeline: code 1939, already stopped, is an error like any other.
StopPipelineStrict(c) ==
  /\ At(c, "stop")
  /\ \/ pipeline.running /\ Executed(c, [pipeline EXCEPT !.running = FALSE], filled, "offsets")
     \/ Refused(c, ~pipeline.running)

\* Code 1939, already stopped, is not an error.
StopPipeline(c) ==
  /\ At(c, "stop")
  /\ \/ Executed(c, [pipeline EXCEPT !.running = FALSE], filled, "offsets")
     \/ Refused(c, FALSE)

SetOffsetsEarliest(c) ==
  /\ At(c, "offsets")
  /\ \/ ~pipeline.running /\ Executed(c, [pipeline EXCEPT !.earliest = TRUE], filled, "list")
     \/ Refused(c, pipeline.running)

Dropped(c) == IF call[c].op = "reset_pipeline" THEN "start" ELSE "ok"

GetPartitions(c) ==
  /\ At(c, "list")
  /\ \/ /\ node = "up"
        /\ call' = [call EXCEPT ![c].list = pipeline.cursors,
                                ![c].at = IF pipeline.cursors = {} THEN Dropped(c) ELSE "drop"]
        /\ UNCHANGED <<node, pipeline, filled, tables, faults>>
     \/ Refused(c, FALSE)

\* Mutant of DropPartitions: one partition is left out.
DropPartitionsButOne(c) ==
  /\ At(c, "drop")
  /\ \/ /\ ~pipeline.running
        /\ \E k \in call[c].list :
             Executed(c, [pipeline EXCEPT !.cursors = @ \ (call[c].list \ {k})], filled, Dropped(c))
     \/ Refused(c, pipeline.running)

\* All in one request.  A partition that is gone may end it halfway.
DropPartitions(c) ==
  /\ At(c, "drop")
  /\ \/ /\ ~pipeline.running
        /\ Executed(c, [pipeline EXCEPT !.cursors = @ \ call[c].list], filled, Dropped(c))
     \/ /\ ~pipeline.running /\ ~(call[c].list \subseteq pipeline.cursors)
        /\ \E done \in SUBSET call[c].list : pipeline' = [pipeline EXCEPT !.cursors = @ \ done]
        /\ Raise(c, FALSE)
        /\ UNCHANGED <<node, filled, tables, faults>>
     \/ Refused(c, pipeline.running)

StartPipeline(c) ==
  /\ At(c, "start")
  /\ \/ ~pipeline.running /\ Executed(c, [pipeline EXCEPT !.running = TRUE], filled, "ok")
     \/ Refused(c, pipeline.running)

ListTables(c) ==
  /\ At(c, "tables")
  /\ \/ /\ node = "up"
        /\ call' = [call EXCEPT ![c].list = tables, ![c].at = "truncate"]
        /\ UNCHANGED <<node, pipeline, filled, tables, faults>>
     \/ Refused(c, FALSE)

\* All in one request: none at all is an empty query, which may be refused, and so is a
\* table that is gone.
Truncate(c) ==
  /\ At(c, "truncate")
  /\ \/ call[c].list \subseteq tables /\ Executed(c, pipeline, filled \ call[c].list, "ok")
     \/ /\ node = "up" /\ ~(call[c].list \subseteq tables)
        /\ \E done \in SUBSET call[c].list : filled' = filled \ done
        /\ Raise(c, FALSE)
        /\ UNCHANGED <<node, pipeline, tables, faults>>
     \/ Refused(c, call[c].list = {})

StopService(c) ==
  /\ At(c, "docker") /\ call[c].op = "stop_service"
  /\ node' = "down"
  /\ Goto(c, "ok")
  /\ UNCHANGED <<pipeline, filled, tables, faults>>

\* docker start, and the container is up.
StartService(c) ==
  /\ At(c, "docker") /\ call[c].op = "start_service"
  /\ node' = IF node = "up" THEN "up" ELSE "starting"
  /\ Goto(c, "ready")
  /\ UNCHANGED <<pipeline, filled, tables, faults>>

\* wait_nothrow is for ping to raise no more; after half a minute it raises itself.
WaitReady(c) ==
  /\ At(c, "ready") /\ call[c].op = "start_service"
  /\ \/ node = "up" /\ Goto(c, "ok") /\ UNCHANGED faults
     \/ Fault /\ Raise(c, TRUE)
  /\ UNCHANGED <<node, pipeline, filled, tables>>

Ping(c) ==
  /\ At(c, "ready") /\ call[c].op = "ping"
  /\ IF node = "up" THEN Goto(c, "ok") ELSE Raise(c, TRUE)
  /\ UNCHANGED <<node, pipeline, filled, tables, faults>>

reset_pipeline(c) == Begin(c, "reset_pipeline", "stop")
delete_pipeline_partitions(c) == Begin(c, "delete_partitions", "list")
truncate_all(c) == Begin(c, "truncate_all", "tables")
start_service(c) == Begin(c, "start_service", "docker")
stop_service(c) == Begin(c, "stop_service", "docker")
ping(c) == Begin(c, "ping", "ready")

Next ==
  \/ Online
  \/ \E k \in Partitions : Load(k)
  \/ \E t \in Tables : Insert(t) \/ DropTable(t)
  \/ \E c \in Callers :
       \/ reset_pipeline(c) \/ delete_pipeline_partitions(c) \/ truncate_all(c)
       \/ start_service(c) \/ stop_service(c) \/ ping(c)
       \/ StopPipeline(c) \/ SetOffsetsEarliest(c) \/ GetPartitions(c) \/ DropPartitions(c)
       \/ StartPipeline(c) \/ ListTables(c) \/ Truncate(c)
       \/ StopService(c) \/ StartService(c) \/ WaitReady(c) \/ Ping(c)

Spec == Init /\ [][Next]_vars

-----------------------------------------------------------------------------
\* Every variable has the type its declaration says.
TypeOK ==
  /\ node \in {"down", "starting", "up"}
  /\ pipeline \in [running : BOOLEAN, earliest : BOOLEAN, cursors : SUBSET Partitions]
  /\ filled \subseteq tables /\ tables \subseteq Tables
  /\ call \in [Callers -> Calls]
  /\ faults \in 0..MaxFaults

\* A reset that returns has made the pipeline read everything again from the earliest
\* offset, and every table is empty after truncate_all, whatever other calls did in
\* between: what has a position or rows now got them after the call began.
OkMeansReset ==
  \A c \in Callers : At(c, "ok") =>
    /\ call[c].op = "reset_pipeline" =>
         pipeline.earliest /\ pipeline.cursors \subseteq call[c].since
    /\ call[c].op = "truncate_all" => filled \subseteq call[c].since

\* A reset fails only when it was disturbed: its connection broke, the server was away,
\* or another call was under way.  A pipeline that an earlier reset has left stopped, or
\* without positions, does not fail the next one.
ResetFailsForCause ==
  \A c \in Callers : call[c].op = "reset_pipeline" /\ At(c, "raised") => call[c].excused

-----------------------------------------------------------------------------
(* Why it holds.                                                           *)

\* The statements of a call.
LabelsOf(c) ==
  /\ call[c].at \in {"stop", "offsets", "start"} => call[c].op = "reset_pipeline"
  /\ call[c].at \in {"list", "drop"} => call[c].op \in {"reset_pipeline", "delete_partitions"}
  /\ call[c].at \in {"tables", "truncate"} => call[c].op = "truncate_all"

\* What a call has done so far, nobody undoes.
Progress(c) ==
  /\ call[c].op = "reset_pipeline" =>
       /\ call[c].at \in {"list", "drop", "start", "ok"} => pipeline.earliest
       /\ At(c, "drop") => pipeline.cursors \subseteq call[c].list \cup call[c].since
       /\ call[c].at \in {"start", "ok"} => pipeline.cursors \subseteq call[c].since
  /\ call[c].op = "truncate_all" =>
       /\ At(c, "truncate") => filled \subseteq call[c].list \cup call[c].since
       /\ At(c, "ok") => filled \subseteq call[c].since

\* An undisturbed reset finds the pipeline as it left it.
Undisturbed(c) ==
  (call[c].op = "reset_pipeline" /\ ~call[c].excused) =>
    /\ ~At(c, "raised")
    /\ call[c].at \in {"offsets", "list", "drop", "start"} => ~pipeline.running
    /\ At(c, "drop") => call[c].list \subseteq pipeline.cursors

\* Of two calls under way, each is disturbed.
Apart(c, d) == Returned(c) \/ Returned(d) \/ call[c].excused

Inv ==
  /\ TypeOK
  /\ \A c \in Callers : LabelsOf(c) /\ Progress(c) /\ Undisturbed(c)
  /\ \A c, d \in Callers : c = d \/ Apart(c, d)
==============================================================================
