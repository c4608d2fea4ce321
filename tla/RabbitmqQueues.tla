---------------------------- MODULE RabbitmqQueues ----------------------------
(***************************************************************************)
(* The queues of Rabbitmq on a host and the calls of plugins/rabbitmq.py:  *)
(* a check that declares a queue of a fixed name, sends one message        *)
(* through it and deletes it, on a connection of its own; the reset, which *)
(* lists the queues and deletes one after the other over HTTP; and the     *)
(* look at one queue, on a connection that the plugin object keeps.        *)
(*                                                                         *)
(* The broker closes the channel that asks for a queue it does not have.   *)
(* Requests that fail before or after they are executed, restarts of the   *)
(* broker, and tests that leave a message in the queue of the check come   *)
(* from a budget, MaxFaults.                                               *)
(***************************************************************************)
EXTENDS Naturals, Sequences, FiniteSets

CONSTANTS Callers, MaxFaults

Queues == {"test_queue", "other"}

VARIABLES
  queues,    \* those there are
  messages,  \* in test_queue, in their order: each of a "check" or of a "test"
  link,      \* the connection the plugin object keeps: "none", "open", "lost": gone, with
             \* the plugin not aware of it, or "closed"
  missed,    \* history: it was asked for a queue that was not there
  call,      \* caller -> [op, at, todo, touched, excused]
  faults

vars == <<queues, messages, link, missed, call, faults>>

Calls == [op : {"none", "verify_functionality", "reset_state", "get_queue"},
          at : {"ok", "raised", "connect", "declare", "publish", "get", "delete", "list",
                "purge", "cached", "passive"},
          todo : SUBSET Queues,      \* to delete, or to look at
          touched : SUBSET Queues,   \* history: declared, read or deleted by others meanwhile
          excused : BOOLEAN]         \* history: a request of it failed, the broker restarted, or
                                     \* it got the message of a test

Idle == [op |-> "none", at |-> "ok", todo |-> {}, touched |-> {}, excused |-> FALSE]

Init ==
  /\ queues \in {{}, {"other"}}
  /\ messages = <<>>
  /\ link = "none"
  /\ missed = FALSE
  /\ call = [c \in Callers |-> Idle]
  /\ faults = MaxFaults

At(c, label) == call[c].at = label
Returned(c) == At(c, "ok") \/ At(c, "raised")
Goto(c, label) == call' = [call EXCEPT ![c].at = label]
Raise(c) == call' = [call EXCEPT ![c].at = "raised"]
Fault == faults > 0 /\ faults' = faults - 1

\* The callers learn nothing of it, but have queue q changed under them.
Touch(q) ==
  [d \in Callers |-> IF call[d].op = "none" THEN call[d]
                     ELSE [call[d] EXCEPT !.touched = @ \cup {q}]]

\* Caller c has the broker change its queues to those in there, with the messages ms in
\* test_queue: the answer may be lost.
Executed(c, q, there, ms, next) ==
  /\ queues' = there
  /\ messages' = ms
  /\ LET now == IF there = queues /\ Len(ms) >= Len(messages) THEN call ELSE Touch(q)
     IN  \/ call' = [now EXCEPT ![c] = next] /\ UNCHANGED faults
         \/ /\ call' = [now EXCEPT ![c] = [call[c] EXCEPT !.at = "raised", !.excused = TRUE]]
            /\ Fault

Stepped(c, label) == [call[c] EXCEPT !.at = label]

-----------------------------------------------------------------------------
(* The broker, and the tests that use it.                                  *)

Persistent == [i \in 1..Cardinality({j \in 1..Len(messages) : messages[j] = "test"}) |-> "test"]

\* test_queue is durable, the messages of checks are not.  The connection of a check that
\* is under way breaks with it, and its next request fails.
BrokerRestarts ==
  /\ Fault
  /\ messages' = Persistent
  /\ queues' \in {queues, queues \ {"other"}}
  /\ link' = IF link = "open" THEN "lost" ELSE link
  /\ call' = [c \in Callers |->
       IF Returned(c) THEN Touch("other")[c]
       ELSE [Touch("other")[c] EXCEPT !.excused = TRUE,
               !.at = IF @ \in {"declare", "publish", "get", "delete"} THEN "raised" ELSE @]]
  /\ UNCHANGED missed

DeclareOther ==
  /\ "other" \notin queues
  /\ queues' = queues \cup {"other"}
  /\ call' = Touch("other")
  /\ UNCHANGED <<messages, link, missed, faults>>

\* test_rabbit_ha fails before its cleanup, with a persistent message in the queue.
TestLeavesMessage ==
  /\ Fault
  /\ queues' = queues \cup {"test_queue"}
  /\ messages' = Append(messages, "test")
  /\ call' = Touch("test_queue")
  /\ UNCHANGED <<link, missed>>

\* A request fails that has not reached the broker.
RequestFails(c) ==
  /\ ~Returned(c)
  /\ Fault
  /\ call' = [call EXCEPT ![c].at = "raised", ![c].excused = TRUE]
  /\ link' = IF At(c, "passive") THEN "closed" ELSE link
  /\ UNCHANGED <<queues, messages, missed>>

-----------------------------------------------------------------------------
(* verify_functionality.                                                   *)

create_amqp_connection(c) ==
  /\ At(c, "connect")
  /\ Goto(c, "declare")
  /\ UNCHANGED <<queues, messages, link, missed, faults>>

\* Mutant of queue_declare: a queue is taken to be there.
DeclareNothing(c) ==
  /\ At(c, "declare")
  /\ Goto(c, "publish")
  /\ UNCHANGED <<queues, messages, link, missed, faults>>

queue_declare(c) ==
  /\ At(c, "declare")
  /\ Executed(c, "test_queue", queues \cup {"test_queue"}, messages, Stepped(c, "publish"))
  /\ UNCHANGED <<link, missed>>

\* The broker drops what it has no queue for, and says nothing.
produce_msg(c) ==
  /\ At(c, "publish")
  /\ Executed(c, "test_queue", queues, IF "test_queue" \in queues THEN Append(messages, "check") ELSE messages,
              Stepped(c, "get"))
  /\ UNCHANGED <<link, missed>>

\* The oldest message is good if it is of a check, for all checks send the same one.
consume_message(c) ==
  /\ At(c, "get")
  /\ IF messages = <<>>
     THEN Raise(c) /\ UNCHANGED <<queues, messages, faults>>
     ELSE Executed(c, "test_queue", queues, Tail(messages),
            IF Head(messages) = "check" THEN Stepped(c, "delete")
            ELSE [Stepped(c, "raised") EXCEPT !.excused = TRUE])
  /\ UNCHANGED <<link, missed>>

\* The broker does not mind when there is none.
queue_delete(c) ==
  /\ At(c, "delete")
  /\ Executed(c, "test_queue", queues \ {"test_queue"}, <<>>, Stepped(c, "ok"))
  /\ UNCHANGED <<link, missed>>

-----------------------------------------------------------------------------
(* reset_state.                                                            *)

get_queue_list(c) ==
  /\ At(c, "list")
  /\ call' = [call EXCEPT ![c].todo = queues, ![c].at = IF queues = {} THEN "ok" ELSE "purge"]
  /\ UNCHANGED <<queues, messages, link, missed, faults>>

Purged(c, q) ==
  [call[c] EXCEPT !.todo = @ \ {q}, !.at = IF call[c].todo = {q} THEN "ok" ELSE "purge"]

\* Mutant of delete_queue: the last one stays.
DeleteQueueButLast(c) ==
  /\ At(c, "purge")
  /\ \E q \in call[c].todo :
       IF q \in queues
       THEN Executed(c, q, IF call[c].todo = {q} THEN queues ELSE queues \ {q}, messages, Purged(c, q))
       ELSE Raise(c) /\ UNCHANGED <<queues, messages, faults>>
  /\ UNCHANGED <<link, missed>>

\* A queue that somebody else has deleted ends the whole reset.
delete_queue(c) ==
  /\ At(c, "purge")
  /\ \E q \in call[c].todo :
       IF q \in queues
       THEN Executed(c, q, queues \ {q}, IF q = "test_queue" THEN <<>> ELSE messages, Purged(c, q))
       ELSE Raise(c) /\ UNCHANGED <<queues, messages, faults>>
  /\ UNCHANGED <<link, missed>>

-----------------------------------------------------------------------------
(* get_queue.                                                              *)

\* What the plugin object keeps is used as long as it believes it open, and is never
\* replaced.
get_amqp_connection(c) ==
  /\ At(c, "cached")
  /\ link' = IF link = "none" THEN "open" ELSE link
  /\ IF link = "closed" THEN Raise(c) ELSE Goto(c, "passive")
  /\ UNCHANGED <<queues, messages, missed, faults>>

PassiveDeclare(c) ==
  /\ At(c, "passive")
  /\ IF link = "open" /\ call[c].todo \subseteq queues
     THEN Goto(c, "ok") /\ UNCHANGED <<link, missed>>
     ELSE /\ Raise(c)
          /\ link' = "closed"
          /\ missed' = (missed \/ link = "open")
  /\ UNCHANGED <<queues, messages, faults>>

-----------------------------------------------------------------------------
(* The calls.                                                              *)

\* What others have returned is forgotten: the properties are about a call until the next
\* one begins.
Begin(c, op, label, todo) ==
  /\ Returned(c)
  /\ call' = [d \in Callers |->
       IF d = c THEN [Idle EXCEPT !.op = op, !.at = label, !.todo = todo]
       ELSE IF Returned(d) THEN Idle ELSE call[d]]
  /\ UNCHANGED <<queues, messages, link, missed, faults>>

verify_functionality(c) == Begin(c, "verify_functionality", "connect", {})
reset_state(c) == Begin(c, "reset_state", "list", {})
\* The connection that is kept is for one thread at a time.
get_queue(c) ==
  /\ \A d \in Callers : call[d].op = "get_queue" => Returned(d)
  /\ \E q \in Queues : Begin(c, "get_queue", "cached", {q})

Next ==
  \/ BrokerRestarts \/ DeclareOther \/ TestLeavesMessage
  \/ \E c \in Callers :
       \/ verify_functionality(c) \/ reset_state(c) \/ get_queue(c)
       \/ create_amqp_connection(c) \/ queue_declare(c) \/ produce_msg(c) \/ consume_message(c)
       \/ queue_delete(c) \/ get_queue_list(c) \/ delete_queue(c)
       \/ get_amqp_connection(c) \/ PassiveDeclare(c) \/ RequestFails(c)

Spec == Init /\ [][Next]_vars

-----------------------------------------------------------------------------
\* Every variable has the type its declaration says.
TypeOK ==
  /\ queues \subseteq Queues
  /\ messages \in Seq({"check", "test"})
  /\ "test_queue" \notin queues => messages = <<>>
  /\ link \in {"none", "open", "lost", "closed"}
  /\ missed \in BOOLEAN
  /\ call \in [Callers -> Calls]
  /\ faults \in 0..MaxFaults

\* A check leaves no queue behind and a reset leaves none of those there were, but what
\* others have declared meanwhile.  Neither fails because of what an earlier check left
\* behind: only by a request that failed, by others that changed the queues, or by the
\* message that a test has left in the queue of the check.
ChecksAndResetsHold ==
  \A c \in Callers :
    /\ At(c, "ok") /\ call[c].op = "verify_functionality" =>
         queues \subseteq {"other"} \cup call[c].touched
    /\ At(c, "ok") /\ call[c].op = "reset_state" => queues \subseteq call[c].touched
    /\ At(c, "raised") /\ ~call[c].excused =>
         /\ call[c].op = "verify_functionality" => "test_queue" \in call[c].touched
         /\ call[c].op = "reset_state" => call[c].todo \cap call[c].touched # {}

\* As long as no request failed and the broker kept running, the plugin object finds
\* every queue there is until it has been asked for one that is missing, and none from
\* then on: its connection is closed, and kept.
FoundUnlessMissed ==
  \A c \in Callers : call[c].op = "get_queue" =>
    /\ At(c, "raised") => missed \/ faults < MaxFaults
    /\ At(c, "ok") => ~missed

-----------------------------------------------------------------------------
(* Why it holds.                                                           *)

\* The labels each call goes through.
LabelsOf(c) ==
  /\ call[c].at \in {"connect", "declare", "publish", "get", "delete"} => call[c].op = "verify_functionality"
  /\ call[c].at \in {"list", "purge"} => call[c].op = "reset_state"
  /\ call[c].at \in {"cached", "passive"} => call[c].op = "get_queue"

\* What a call finds at its next request, unless others changed it.
Finds(c) ==
  /\ call[c].at \in {"publish", "get"} => "test_queue" \in queues \cup call[c].touched
  /\ At(c, "get") => messages # <<>> \/ "test_queue" \in call[c].touched
  /\ At(c, "purge") =>
       /\ queues \subseteq call[c].todo \cup call[c].touched
       /\ call[c].todo \subseteq queues \cup call[c].touched

\* Why the connection that is kept is not open, and whose it is.
LinkIsKept ==
  /\ link = "closed" => missed \/ faults < MaxFaults
  /\ link = "lost" => faults < MaxFaults
  /\ missed => link = "closed"
  /\ \A c \in Callers : At(c, "passive") => link # "none"
  /\ \A c, d \in Callers : call[c].op = "get_queue" /\ call[d].op = "get_queue" => c = d

Inv ==
  /\ TypeOK
  /\ \A c \in Callers : LabelsOf(c) /\ Finds(c)
  /\ LinkIsKept /\ ChecksAndResetsHold /\ FoundUnlessMissed
==============================================================================
