------------------------------ MODULE KafkaRpyc ------------------------------
(***************************************************************************)
(* Kafka on a docker host, as threads of a test use it: the plugin object  *)
(* starts one rpyc server beside the broker (plugins/kafka.py,             *)
(* utils/rpyc_kafka_server.py) and hands out clients that talk to it       *)
(* (utils/kafka_client.py).  verify_functionality creates a topic of a     *)
(* fixed name, produces to it, consumes from it and deletes it.            *)
(*                                                                         *)
(* The broker deletes topics in its own time.  Lost answers, slow sends    *)
(* and a server that dies come from a budget, MaxFaults.                   *)
(***************************************************************************)
EXTENDS Naturals

CONSTANTS Threads, Nobody, MaxFaults

VARIABLES
  lock,     \* who holds _init_lock
  rpyc,     \* _rpyc is set
  started,  \* history: server processes started
  server,   \* the first of them: "none", "starting", "listening" or "dead"
  broker,   \* the container runs
  topic,    \* the automation topic: "none", "there" or "deleting"
  log,      \* batches of messages in it
  pc, op,
  excused,  \* history: something happened that may make the call fail
  faults

host == <<broker, topic, log>>
vars == <<lock, rpyc, started, server, host, pc, op, excused, faults>>

Init ==
  /\ lock = Nobody
  /\ rpyc = FALSE
  /\ started = 0
  /\ server = "none"
  /\ broker \in BOOLEAN
  /\ topic = "none"
  /\ log = 0
  /\ pc = [t \in Threads |-> "ok"]
  /\ op = [t \in Threads |-> "ping"]
  /\ excused = {}
  /\ faults = MaxFaults

Returned(t) == pc[t] \in {"ok", "raised"}
At(t, label) == pc[t] = label
Goto(t, label) == pc' = [pc EXCEPT ![t] = label]
Verifies(t) == op[t] = "verify_functionality" /\ ~Returned(t)
Fault(t) == faults > 0 /\ faults' = faults - 1 /\ excused' = excused \cup {t}

-----------------------------------------------------------------------------
(* The server process, the broker and those who stop it.                   *)

ServerListens ==
  /\ server = "starting"
  /\ server' = "listening"
  /\ UNCHANGED <<lock, rpyc, started, host, pc, op, excused, faults>>

ServerDies ==
  /\ server \in {"starting", "listening"} /\ faults > 0
  /\ server' = "dead"
  /\ faults' = faults - 1
  /\ UNCHANGED <<lock, rpyc, started, host, pc, op, excused>>

TopicDeleted ==
  /\ broker /\ topic = "deleting"
  /\ topic' = "none"
  /\ log' = 0
  /\ UNCHANGED <<lock, rpyc, started, server, broker, pc, op, excused, faults>>

\* stop, start and restart of the container, and reset_state, which removes the storage:
\* of a broker that runs, before it notices or not.  The calls under way are disturbed.
Maintain ==
  /\ \/ broker' = ~broker /\ UNCHANGED <<topic, log>>
     \/ topic # "none" /\ topic' = "none" /\ log' = 0 /\ UNCHANGED broker
  /\ excused' = excused \cup {t \in Threads : ~Returned(t)}
  /\ UNCHANGED <<lock, rpyc, started, server, pc, op, faults>>

-----------------------------------------------------------------------------
(* create_client.                                                          *)

Call(t, method) ==
  /\ Returned(t)
  /\ Goto(t, "start")
  /\ op' = [op EXCEPT ![t] = method]
  /\ excused' = IF method = "verify_functionality" /\ \E u \in Threads : Verifies(u)
                THEN excused \cup {t} \cup {u \in Threads : Verifies(u)}
                ELSE excused \ {t}
  /\ UNCHANGED <<lock, rpyc, started, server, host, faults>>

\* Mutant of StartServer: the lock is not taken.
StartServerUnlocked(t) ==
  /\ At(t, "start")
  /\ Goto(t, IF rpyc THEN "connect" ELSE "snippet")
  /\ UNCHANGED <<lock, rpyc, started, server, host, op, excused, faults>>

\* Under the lock: there is a server, or this thread starts it.
StartServer(t) ==
  /\ At(t, "start") /\ lock = Nobody
  /\ IF rpyc THEN Goto(t, "connect") /\ UNCHANGED lock
             ELSE Goto(t, "snippet") /\ lock' = t
  /\ UNCHANGED <<rpyc, started, server, host, op, excused, faults>>

\* run_background_snippet.  A second server would find the port taken.
RunSnippet(t) ==
  /\ At(t, "snippet")
  /\ lock' = Nobody
  /\ \/ /\ rpyc' = TRUE
        /\ started' = started + 1
        /\ server' = IF server = "none" THEN "starting" ELSE server
        /\ Goto(t, "await")
        /\ UNCHANGED <<excused, faults>>
     \/ Fault(t) /\ Goto(t, "raised") /\ UNCHANGED <<rpyc, started, server>>
  /\ UNCHANGED <<host, op>>

\* The thread that has started the server sees it run, or raises.
AwaitServer(t) ==
  /\ At(t, "await")
  /\ Goto(t, IF server = "dead" THEN "raised" ELSE "connect")
  /\ UNCHANGED <<lock, rpyc, started, server, host, op, excused, faults>>

\* Through a tunnel, again and again until the server answers.  Nobody starts another one.
CreateConnection(t) ==
  /\ At(t, "connect")
  /\ \/ server = "listening" /\ Goto(t, "topics") /\ UNCHANGED <<excused, faults>>
     \/ server = "dead" /\ Goto(t, "raised") /\ UNCHANGED <<excused, faults>>
     \/ Fault(t) /\ Goto(t, "raised")
  /\ UNCHANGED <<lock, rpyc, started, server, host, op>>

-----------------------------------------------------------------------------
(* What the client asks of the broker.                                     *)

\* A request is answered when server and broker are there, or the call raises.
Request(t, next) ==
  /\ \/ server = "listening" /\ broker /\ Goto(t, next) /\ UNCHANGED <<excused, faults>>
     \/ /\ server # "listening" \/ ~broker
        /\ Goto(t, "raised")
        /\ excused' = excused \cup {t}
        /\ UNCHANGED faults
     \/ Fault(t) /\ Goto(t, "raised")
  /\ UNCHANGED <<lock, rpyc, started, server, op>>

Answered(t) == pc'[t] # "raised"

\* The whole of ping, and the beginning of verify_functionality.
GetTopics(t) ==
  /\ At(t, "topics")
  /\ Request(t, IF op[t] = "ping" THEN "ok" ELSE "delete")
  /\ UNCHANGED host

\* Mutant of DeleteTopic: what an earlier call has left is not deleted.
DeleteNoTopic(t) ==
  /\ At(t, "delete")
  /\ Request(t, "absent")
  /\ UNCHANGED host

\* That there is none to delete is no error, nor is any other answer of the broker.
DeleteTopic(t) ==
  /\ At(t, "delete")
  /\ \/ /\ Request(t, "absent")
        /\ topic' = IF Answered(t) /\ topic = "there" THEN "deleting" ELSE topic
     \/ /\ server = "listening"
        /\ Fault(t)
        /\ Goto(t, "absent")
        /\ UNCHANGED <<topic, lock, rpyc, started, server, op>>
  /\ UNCHANGED <<broker, log>>

\* create_topic asserts that there is none; one that is being deleted is still listed.
AssertAbsent(t) ==
  /\ At(t, "absent")
  /\ \/ topic = "none" /\ Request(t, "create")
     \/ /\ topic # "none"
        /\ Goto(t, "raised")
        /\ excused' = excused \cup {u \in {t} : topic = "deleting"}
        /\ UNCHANGED <<lock, rpyc, started, server, op, faults>>
  /\ UNCHANGED host

\* Tried again until it succeeds: once the topic exists it never does, even if it was
\* this call that has created it and its answer was lost.
CreateTopic(t) ==
  /\ At(t, "create")
  /\ Request(t, IF topic = "none" THEN "present" ELSE "raised")
  /\ \/ topic' = IF Answered(t) THEN "there" ELSE topic
     \/ broker /\ topic = "none" /\ topic' = "there"
  /\ UNCHANGED <<broker, log>>

AssertPresent(t) ==
  /\ At(t, "present")
  /\ Request(t, IF topic = "there" THEN "produce" ELSE "raised")
  /\ UNCHANGED host

\* Ten messages and a second's sleep.
Produce(t) ==
  /\ At(t, "produce")
  /\ Request(t, "consume")
  /\ log' = IF Answered(t) /\ topic = "there" THEN log + 1 ELSE log
  /\ UNCHANGED <<broker, topic>>

\* From the earliest offset; as many as were produced, or it raises and leaves the topic.
Consume(t) ==
  /\ At(t, "consume")
  /\ Request(t, IF log = 1 THEN "cleanup" ELSE "raised")
  /\ UNCHANGED host

CleanUp(t) ==
  /\ At(t, "cleanup")
  /\ Request(t, IF topic = "there" THEN "ok" ELSE "raised")
  /\ topic' = IF Answered(t) THEN "deleting" ELSE topic
  /\ UNCHANGED <<broker, log>>

ping(t) == Call(t, "ping")
verify_functionality(t) == Call(t, "verify_functionality")

Next ==
  \/ ServerListens \/ ServerDies \/ TopicDeleted \/ Maintain
  \/ \E t \in Threads :
       \/ ping(t) \/ verify_functionality(t)
       \/ StartServer(t) \/ RunSnippet(t) \/ AwaitServer(t) \/ CreateConnection(t)
       \/ GetTopics(t) \/ DeleteTopic(t) \/ AssertAbsent(t) \/ CreateTopic(t)
       \/ AssertPresent(t) \/ Produce(t) \/ Consume(t) \/ CleanUp(t)

Spec == Init /\ [][Next]_vars

-----------------------------------------------------------------------------
\* Every variable has the type its declaration says.
TypeOK ==
  /\ lock \in Threads \cup {Nobody}
  /\ rpyc \in BOOLEAN
  /\ started \in Nat
  /\ server \in {"none", "starting", "listening", "dead"}
  /\ broker \in BOOLEAN
  /\ topic \in {"none", "there", "deleting"}
  /\ log \in Nat
  /\ pc \in [Threads -> {"ok", "raised", "start", "snippet", "await", "connect", "topics", "delete",
                         "absent", "create", "present", "produce", "consume", "cleanup"}]
  /\ op \in [Threads -> {"ping", "verify_functionality"}]
  /\ excused \subseteq Threads
  /\ faults \in 0..MaxFaults

\* However many threads ask for their first client at once, one server is started on the
\* host, for only one can have the port.
OneServer == started <= 1

\* A ping or a verify_functionality fails only with a cause: a broken connection, a
\* broker that was away, the server that died, another verify_functionality at the same
\* time, or a topic that the broker was still deleting.  The topic that a call left
\* behind when it failed does not fail the next one.
CallsFailForCause == \A t \in Threads : At(t, "raised") => t \in excused \/ server = "dead"

-----------------------------------------------------------------------------
(* Why it holds.                                                           *)

\* The thread that holds the lock is the only one that starts a server, and the first.
StartsOnce ==
  /\ started = IF rpyc THEN 1 ELSE 0
  /\ \A t \in Threads : At(t, "snippet") <=> lock = t
  /\ lock # Nobody => ~rpyc

\* Two checks at the same time are both excused.
ChecksApart ==
  \A t, u \in Threads : Verifies(t) /\ Verifies(u) /\ t # u => t \in excused /\ u \in excused

\* So one that is not finds the topic at each request as it has left it.
FindsOwn(t) ==
  /\ pc[t] \in {"delete", "absent", "create", "present", "produce", "consume", "cleanup"} =>
       op[t] = "verify_functionality"
  /\ t \notin excused =>
       /\ At(t, "absent") => topic # "there"
       /\ At(t, "create") => topic = "none"
       /\ pc[t] \in {"present", "produce"} => topic = "there" /\ log = 0
       /\ At(t, "consume") => topic = "there" /\ log = 1
       /\ At(t, "cleanup") => topic = "there"

Inv ==
  /\ TypeOK /\ StartsOnce /\ ChecksApart /\ (topic = "none" => log = 0)
  /\ \A t \in Threads : FindsOwn(t)
  /\ CallsFailForCause
==============================================================================
