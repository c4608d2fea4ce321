----------------------------- MODULE KafkaTopics -----------------------------
(***************************************************************************)
(* Clearing topics, utils/kafka.py: the retention of a topic is read, set  *)
(* to a second until the broker has dropped the messages, and set back.    *)
(* The retention to go back to is kept in the call only.                   *)
(*                                                                         *)
(* The first wait of a consumer that belongs to no group has partitions to *)
(* compare, any other one has none and ends at once.  A closed consumer    *)
(* has none either, or raises.  Lost requests come from a budget,          *)
(* MaxFaults; producers are silent, as clear_topic asks for, until it      *)
(* has returned.                                                           *)
(***************************************************************************)
EXTENDS Naturals

CONSTANTS Topics, None, MaxFaults

VARIABLES
  retention,  \* topic -> "own" or "short"
  filled,     \* topics with messages
  open,       \* the consumer is not closed
  grouped,    \* it belongs to a group
  op, at,
  todo,       \* topics the call has still to clear
  topic,      \* the one it is clearing
  kept,       \* the retention it has read
  waited,     \* history: topics the call has waited for with partitions to compare
  failed,     \* history: topics a call has failed on
  faults

vars == <<retention, filled, open, grouped, op, at, todo, topic, kept, waited, failed, faults>>

Init ==
  /\ retention = [t \in Topics |-> "own"]
  /\ filled \in SUBSET Topics
  /\ open = TRUE
  /\ grouped \in BOOLEAN
  /\ op = "none"
  /\ at = "ok"
  /\ todo = {}
  /\ topic = None
  /\ kept = "own"
  /\ waited = {}
  /\ failed = {}
  /\ faults = MaxFaults

Returned == at \in {"ok", "raised"}
Goto(label) == at' = label /\ UNCHANGED <<failed, topic>>
Raise == at' = "raised" /\ failed' = failed \cup {topic} /\ topic' = None

\* A request to the broker, lost before it is executed or after.
Request(retention2, next) ==
  \/ retention' = retention2 /\ Goto(next) /\ UNCHANGED faults
  \/ /\ faults > 0
     /\ faults' = faults - 1
     /\ retention' \in {retention, retention2}
     /\ Raise

-----------------------------------------------------------------------------
\* The broker, and the producers of the tests.
Expire(t) ==
  /\ retention[t] = "short" /\ t \in filled
  /\ filled' = filled \ {t}
  /\ UNCHANGED <<retention, open, grouped, op, at, todo, topic, kept, waited, failed, faults>>

Produce(t) ==
  /\ Returned /\ t \notin filled
  /\ filled' = filled \cup {t}
  /\ waited' = waited \ {t}
  /\ UNCHANGED <<retention, open, grouped, op, at, todo, topic, kept, failed, faults>>

\* A test makes itself another consumer.
NewConsumer ==
  /\ Returned /\ ~open
  /\ open' = TRUE
  /\ grouped' \in BOOLEAN
  /\ UNCHANGED <<retention, filled, op, at, todo, topic, kept, waited, failed, faults>>

Call(name, ts) ==
  /\ Returned
  /\ op' = name
  /\ at' = "next"
  /\ todo' = ts
  /\ waited' = {}
  /\ UNCHANGED <<retention, filled, open, grouped, topic, kept, failed, faults>>

clear_topic(t) == Call("clear_topic", {t})
clear_all_topics == Call("clear_all_topics", Topics)

\* The loop of clear_all_topics, with one consumer for all topics.
NextTopic ==
  /\ at = "next"
  /\ IF todo = {} THEN at' = "ok" /\ UNCHANGED <<todo, topic>>
     ELSE \E t \in todo : at' = "get" /\ topic' = t /\ todo' = todo \ {t}
  /\ UNCHANGED <<retention, filled, open, grouped, op, kept, waited, failed, faults>>

GetTopicConfigValue ==
  /\ at = "get"
  /\ Request(retention, "shorten")
  /\ kept' = IF at' = "shorten" THEN retention[topic] ELSE kept
  /\ UNCHANGED <<filled, open, grouped, op, todo, waited>>

Shorten ==
  /\ at = "shorten"
  /\ Request([retention EXCEPT ![topic] = "short"], "subscribe")
  /\ UNCHANGED <<filled, open, grouped, op, todo, kept, waited>>

\* subscribe, topics and the first comparison.
Subscribe ==
  /\ at = "subscribe"
  /\ \/ Goto(IF open /\ ~grouped THEN "wait" ELSE "restore")
     \/ ~open /\ Raise
  /\ UNCHANGED <<retention, filled, open, grouped, op, todo, kept, waited, faults>>

\* wait_for_predicate: no message is left, or the time is over.
AwaitEmpty ==
  /\ at = "wait"
  /\ \/ /\ topic \notin filled
        /\ waited' = waited \cup {topic}
        /\ Goto("restore")
        /\ UNCHANGED faults
     \/ faults > 0 /\ faults' = faults - 1 /\ Raise /\ UNCHANGED waited
  /\ UNCHANGED <<retention, filled, open, grouped, op, todo, kept>>

\* Mutant of Restore: the retention stays short.
RestoreNothing ==
  /\ at = "restore"
  /\ Request(retention, "close")
  /\ UNCHANGED <<filled, open, grouped, op, todo, kept, waited>>

Restore ==
  /\ at = "restore"
  /\ Request([retention EXCEPT ![topic] = kept], "close")
  /\ UNCHANGED <<filled, open, grouped, op, todo, kept, waited>>

\* The consumer of the caller is closed.
CloseConsumer ==
  /\ at = "close"
  /\ open' = FALSE
  /\ at' = "next"
  /\ topic' = None
  /\ UNCHANGED <<retention, filled, grouped, op, todo, kept, waited, failed, faults>>

Next ==
  \/ \E t \in Topics : Expire(t) \/ Produce(t) \/ clear_topic(t)
  \/ NewConsumer \/ clear_all_topics \/ NextTopic \/ GetTopicConfigValue \/ Shorten
  \/ Subscribe \/ AwaitEmpty \/ Restore \/ CloseConsumer

Spec == Init /\ [][Next]_vars

-----------------------------------------------------------------------------
\* Every variable has the type its declaration says.
TypeOK ==
  /\ retention \in [Topics -> {"own", "short"}]
  /\ filled \subseteq Topics
  /\ open \in BOOLEAN /\ grouped \in BOOLEAN
  /\ op \in {"none", "clear_topic", "clear_all_topics"}
  /\ at \in {"ok", "raised", "next", "get", "shorten", "subscribe", "wait", "restore", "close"}
  /\ todo \subseteq Topics
  /\ topic \in Topics \cup {None}
  /\ kept \in {"own", "short"}
  /\ waited \subseteq Topics /\ failed \subseteq Topics
  /\ faults \in 0..MaxFaults

\* A topic keeps its retention through any number of calls: it is short only while a call
\* clears it, or for good once a call has failed on it, for the next one takes the short
\* retention for the topic's own.  What a call has waited for is empty when it returns.
RetentionLostByFailure ==
  /\ \A t \in Topics : retention[t] = "short" => t = topic \/ t \in failed
  /\ at = "ok" => filled \cap waited = {}

-----------------------------------------------------------------------------
(* Why it holds.                                                           *)

\* The retention that a call goes back to is short only if an earlier one has failed.
KeptIsOwn ==
  /\ at \in {"get", "shorten", "subscribe", "wait", "restore", "close"} => topic \in Topics
  /\ at \in {"ok", "raised", "next"} => topic = None
  /\ at \in {"get", "close"} /\ retention[topic] = "short" => topic \in failed
  /\ at \in {"shorten", "subscribe", "wait", "restore"} /\ kept = "short" => topic \in failed

Inv == TypeOK /\ KeptIsOwn /\ RetentionLostByFailure /\ filled \cap waited = {}
==============================================================================
