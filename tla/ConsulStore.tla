----------------------------- MODULE ConsulStore -----------------------------
(***************************************************************************)
(* The keys of Consul on a docker host, as plugins/consul.py and           *)
(* utils/consul.py read and write them.  Every call is a sequence of       *)
(* requests, each atomic for the server, with those of other callers in    *)
(* between: an update deletes and then puts, a transaction is cut into     *)
(* chunks, and a setting is looked up in three layers one after the other. *)
(*                                                                         *)
(* Of what a key holds it matters only whether it is empty: an empty value *)
(* comes back as None, like that of a key that is not there.  A request    *)
(* may fail, with its answer lost or never sent; MaxFaults bounds how      *)
(* often.  Calls about a single key are made for the settings in Edited,   *)
(* which are also those that are ever empty.                               *)
(***************************************************************************)
EXTENDS Naturals, Sequences, FiniteSets

CONSTANTS Callers, Edited, ChunkSize, MaxFaults

Layers == <<"OVERRIDE", "APPLICATION", "DEFAULT">>
Settings == {"OVERRIDE", "APPLICATION", "DEFAULT"}   \* one setting of one service
Keys == Settings \cup {"test_key", "test_key_int"}   \* and those of verify_functionality

VARIABLES
  server,  \* "down", "electing" (no leader yet) or "up"
  store,   \* the keys that have a value
  empty,   \* those that are there with an empty one
  erased,  \* their files are removed and the server that has them runs on
  todo,    \* caller -> the requests its call has still to make, <<kind, key or keys>>
  call,    \* caller -> [op, result], and the history [touched, stays, excused]
  faults

vars == <<server, store, empty, erased, todo, call, faults>>

Calls == [op : {"none", "put_key", "update_key_value", "delete_key", "get_key", "get_key_layered",
                "transaction", "verify_functionality", "clear_and_start", "start", "stop", "ping"},
          keys : SUBSET Keys,         \* what it is to write, to delete or to read
          result : {"none", "ok", "raised"} \cup Settings,
          touched : SUBSET Keys,      \* history: written, deleted or cleared since, by others (no read)
          stays : SUBSET Keys,        \* history: with a value ever since it began (reads)
          excused : BOOLEAN]          \* history: a request failed

Reads == {"get_key", "get_key_layered"}
Idle == [op |-> "none", keys |-> {}, result |-> "none", touched |-> {}, stays |-> {},
         excused |-> FALSE]

Init ==
  /\ server \in {"down", "up"}
  /\ store \in SUBSET Settings
  /\ empty \in SUBSET ((Edited \cap Settings) \ store)
  /\ erased = FALSE
  /\ todo = [c \in Callers |-> <<>>]
  /\ call = [c \in Callers |-> Idle]
  /\ faults = MaxFaults

Doing(c, kind) == todo[c] # <<>> /\ Head(todo[c])[1] = kind
Key(c) == Head(todo[c])[2]

\* The keys with a value are now s, those without are e, and c has touched ks.
Store(c, s, e, ks, changed) ==
  /\ store' = s /\ empty' = e
  /\ call' = [d \in Callers |->
       [changed[d] EXCEPT !.stays = @ \cap s,
                          !.touched = IF d = c \/ changed[d].op \in Reads THEN @
                                      ELSE @ \cup (ks \cap changed[d].keys)]]

\* The call goes on with the requests rest, or has none left and returns.
Goes(c, rest) ==
  /\ todo' = [todo EXCEPT ![c] = rest]
  /\ UNCHANGED <<server, erased, faults>>
Answered(c, rest) ==
  [call EXCEPT ![c].result = IF rest = <<>> THEN "ok" ELSE @]

Raises(c, why) ==
  /\ todo' = [todo EXCEPT ![c] = <<>>]
  /\ call' = [call EXCEPT ![c].result = "raised", ![c].excused = why]
  /\ UNCHANGED <<server, store, empty, erased>>
Fault == faults > 0 /\ faults' = faults - 1

\* A request the server does not answer: no server, no leader, no connection.
RequestFails(c) ==
  /\ todo[c] # <<>> /\ Head(todo[c])[1] \notin {"rm", "docker_stop", "docker_start", "wait"}
  /\ IF server = "up" THEN Fault ELSE UNCHANGED faults
  /\ Raises(c, TRUE)

-----------------------------------------------------------------------------
(* The requests.                                                           *)

Write(c, kind, s, e, ks) ==
  /\ Doing(c, kind) /\ server = "up"
  /\ \/ Store(c, s, e, ks, Answered(c, Tail(todo[c]))) /\ Goes(c, Tail(todo[c]))
     \/ /\ Store(c, s, e, ks, [call EXCEPT ![c].result = "raised", ![c].excused = TRUE])
        /\ todo' = [todo EXCEPT ![c] = <<>>]
        /\ Fault
        /\ UNCHANGED <<server, erased>>

\* The caller may give some of the keys an empty value, a transaction as None.
Set(c, kind, ks) ==
  /\ Doing(c, kind)
  /\ \E void \in SUBSET (ks \cap Edited) :
       Write(c, kind, (store \cup ks) \ void, (empty \ ks) \cup void, ks)

Put(c) == Set(c, "put", {Key(c)})
Delete(c) == Write(c, "delete", store \ {Key(c)}, empty \ {Key(c)}, {Key(c)})

\* One chunk of a transaction; the server applies all of it or nothing.
PutChunk(c) == Set(c, "txn", Key(c))

\* A key that is not there has not even an empty value: TypeError.
Get(c) ==
  /\ Doing(c, "get") /\ server = "up"
  /\ IF Key(c) \in store \cup empty
     THEN /\ call' = Answered(c, Tail(todo[c])) /\ Goes(c, Tail(todo[c]))
          /\ UNCHANGED <<store, empty>>
     ELSE Raises(c, FALSE) /\ UNCHANGED faults

\* A layer that has an empty value is passed over like one that is not there.
ReadLayer(c) ==
  /\ Doing(c, "read") /\ server = "up"
  /\ LET rest == IF Key(c) \in store THEN <<>> ELSE Tail(todo[c])
     IN  /\ call' = IF Key(c) \in store THEN [call EXCEPT ![c].result = Key(c)]
                    ELSE Answered(c, rest)
         /\ Goes(c, rest)
  /\ UNCHANGED <<store, empty>>

\* next(iter(get_services())), which lists consul itself, and its health.
GetServices(c) ==
  /\ Doing(c, "services") /\ server = "up"
  /\ call' = Answered(c, Tail(todo[c])) /\ Goes(c, Tail(todo[c]))
  /\ UNCHANGED <<store, empty>>

\* status.leader()
ping(c) ==
  /\ Doing(c, "leader") /\ server = "up"
  /\ call' = Answered(c, Tail(todo[c])) /\ Goes(c, Tail(todo[c]))
  /\ UNCHANGED <<store, empty>>

\* rm -rf: a server that runs keeps what it has until it is started anew.
delete_storage_compose(c) ==
  /\ Doing(c, "rm")
  /\ erased' = (server # "down")
  /\ LET s == IF server = "down" THEN {} ELSE store
         e == IF server = "down" THEN {} ELSE empty
         goes == Answered(c, Tail(todo[c]))
     IN  Store(c, s, e, IF server = "down" THEN Keys ELSE {},
               [goes EXCEPT ![c].excused = server # "down"])
  /\ todo' = [todo EXCEPT ![c] = Tail(@)]
  /\ UNCHANGED <<server, faults>>

\* The process ends, and with it what it kept of erased files.
Restarted(c, s) ==
  /\ server' = s
  /\ erased' = FALSE
  /\ Store(c, IF erased THEN {} ELSE store, IF erased THEN {} ELSE empty,
           IF erased THEN Keys ELSE {}, Answered(c, Tail(todo[c])))
  /\ todo' = [todo EXCEPT ![c] = Tail(@)]
  /\ UNCHANGED faults

DockerStop(c) == Doing(c, "docker_stop") /\ Restarted(c, "down")
DockerRestart(c) == Doing(c, "docker_restart") /\ Restarted(c, "electing")

\* docker start of a container that runs does nothing.
DockerStart(c) ==
  /\ Doing(c, "docker_start")
  /\ server' = IF server = "down" THEN "electing" ELSE server
  /\ call' = Answered(c, Tail(todo[c]))
  /\ todo' = [todo EXCEPT ![c] = Tail(@)]
  /\ UNCHANGED <<store, empty, erased, faults>>

\* wait_nothrow(ping, timeout=30) raises when it times out.
AwaitLeader(c) ==
  /\ Doing(c, "wait")
  /\ \/ server = "up" /\ call' = Answered(c, <<>>) /\ Goes(c, <<>>) /\ UNCHANGED <<store, empty>>
     \/ server # "up" /\ Fault /\ Raises(c, TRUE)

ElectLeader ==
  /\ server = "electing"
  /\ server' = "up"
  /\ UNCHANGED <<store, empty, erased, todo, call, faults>>

-----------------------------------------------------------------------------
(* The calls.                                                              *)

\* What others have returned is forgotten now: the properties are about a call until the
\* next one begins.
Call(c, op, ks, requests) ==
  /\ todo[c] = <<>>
  /\ todo' = [todo EXCEPT ![c] = requests]
  /\ call' = [d \in Callers |->
       IF d = c THEN [op |-> op, keys |-> ks, result |-> "none", touched |-> {},
                      stays |-> IF op \in Reads THEN store \cap ks ELSE {}, excused |-> FALSE]
       ELSE IF todo[d] = <<>> THEN Idle ELSE call[d]]
  /\ UNCHANGED <<server, store, empty, erased, faults>>

put_key(c, k) == Call(c, "put_key", {k}, <<<<"put", k>>>>)

update_key_value(c, k) ==
  Call(c, "update_key_value", {k}, <<<<"delete", k>>, <<"put", k>>>>)

delete_key(c, k) == Call(c, "delete_key", {k}, <<<<"delete", k>>>>)
get_key(c, k) == Call(c, "get_key", {k}, <<<<"get", k>>>>)

\* Mutant of get_key_layered: the application's layer is read before the override.
ApplicationFirst(c) ==
  Call(c, "get_key_layered", Settings,
       <<<<"read", "APPLICATION">>, <<"read", "OVERRIDE">>, <<"read", "DEFAULT">>>>)

get_key_layered(c) ==
  Call(c, "get_key_layered", Settings, [i \in 1..3 |-> <<"read", Layers[i]>>])

\* Mutant of divide_chunks: it counts whole chunks only.
WholeChunks(payload, size) ==
  [i \in 1..(Len(payload) \div size) |->
     {payload[j] : j \in (size * (i - 1) + 1)..(size * i)}]

divide_chunks(payload, size) ==
  [i \in 1..((Len(payload) + size - 1) \div size) |->
     {payload[j] : j \in {n \in 1..Len(payload) : size * (i - 1) < n /\ n <= size * i}}]

transaction(c) ==
  LET chunks == divide_chunks(Layers, ChunkSize)
  IN  Call(c, "transaction", Settings, [i \in 1..Len(chunks) |-> <<"txn", chunks[i]>>])

verify_functionality(c) ==
  Call(c, "verify_functionality", {"test_key", "test_key_int"},
       <<<<"put", "test_key">>, <<"get", "test_key">>, <<"delete", "test_key">>,
         <<"services", "consul">>, <<"put", "test_key_int">>, <<"get", "test_key_int">>>>)

clear_and_start(c) ==
  Call(c, "clear_and_start", Keys, <<<<"rm", "files">>, <<"docker_start", "consul">>, <<"wait", "leader">>>>)
start(c) == Call(c, "start", {}, <<<<"docker_restart", "consul">>, <<"wait", "leader">>>>)
stop(c) == Call(c, "stop", {}, <<<<"docker_stop", "consul">>>>)
Leader(c) == Call(c, "ping", {}, <<<<"leader", "consul">>>>)

Next ==
  \/ ElectLeader
  \/ \E c \in Callers :
       \/ \E k \in Edited :
            put_key(c, k) \/ update_key_value(c, k) \/ delete_key(c, k) \/ get_key(c, k)
       \/ get_key_layered(c) \/ transaction(c) \/ verify_functionality(c)
       \/ clear_and_start(c) \/ start(c) \/ stop(c) \/ Leader(c)
       \/ Put(c) \/ Delete(c) \/ PutChunk(c) \/ Get(c) \/ ReadLayer(c) \/ GetServices(c) \/ ping(c)
       \/ delete_storage_compose(c) \/ DockerStop(c) \/ DockerStart(c) \/ DockerRestart(c)
       \/ AwaitLeader(c) \/ RequestFails(c)

Spec == Init /\ [][Next]_vars

-----------------------------------------------------------------------------
\* Every variable has the type its declaration says.
TypeOK ==
  /\ server \in {"down", "electing", "up"}
  /\ store \subseteq Keys
  /\ empty \subseteq (Edited \cap Settings) \ store
  /\ erased \in BOOLEAN /\ (erased => server # "down")
  /\ \A c \in Callers : \A i \in 1..Len(todo[c]) : Len(todo[c][i]) = 2
  /\ call \in [Callers -> Calls]
  /\ faults \in 0..MaxFaults

Ok(c, op) == call[c].op = op /\ todo[c] = <<>> /\ call[c].result # "raised"

\* A layered read sees no moment of the store: layers may change between its three
\* requests.  It never misses or passes over a layer that had a value all the time, so it
\* finds nothing, or a lower layer, only if the layers above were missing or empty at some
\* moment, as they are missing in the middle of update_key_value.
LayeredReadFindsWhatStays ==
  \A c \in Callers : Ok(c, "get_key_layered") =>
    LET Rank(l) == CHOOSE i \in 1..3 : Layers[i] = l
    IN  \A l \in call[c].stays \cap Settings :
          call[c].result \in Settings /\ Rank(call[c].result) <= Rank(l)

\* What a call that returned was to write is there, every chunk of it, what it was to
\* delete is not, unless another call touched it since; and reads and checks that raise do
\* so because a request failed or a key was missing, or empty, at some moment.
CallsHold ==
  \A c \in Callers :
    LET own == call[c].keys \ call[c].touched
    IN  /\ \A op \in {"put_key", "update_key_value", "transaction"} :
               Ok(c, op) => own \subseteq store \cup empty
        /\ Ok(c, "delete_key") => own \cap (store \cup empty) = {}
        /\ call[c].result = "raised" /\ ~call[c].excused =>
             \/ call[c].op = "get_key" /\ ~(call[c].keys \subseteq call[c].stays)
             \/ call[c].op = "verify_functionality" /\ call[c].touched # {}

\* clear_and_start leaves nothing but what was written since, if the server was down when
\* its files were removed.
ClearedWhenDown ==
  \A c \in Callers : Ok(c, "clear_and_start") /\ ~call[c].excused =>
    store \cup empty \subseteq call[c].touched

-----------------------------------------------------------------------------
(* Why it holds.                                                           *)

Chunks == divide_chunks(Layers, ChunkSize)

Plan(op, ks, requests) == [op |-> op, keys |-> ks, requests |-> requests]

\* The calls, with what each is about and the requests it makes.
KeyPlans ==
  UNION {{Plan("put_key", {k}, <<<<"put", k>>>>),
          Plan("update_key_value", {k}, <<<<"delete", k>>, <<"put", k>>>>),
          Plan("delete_key", {k}, <<<<"delete", k>>>>),
          Plan("get_key", {k}, <<<<"get", k>>>>)} : k \in Edited}

Plans ==
  KeyPlans \cup
  {Plan("get_key_layered", Settings, [i \in 1..3 |-> <<"read", Layers[i]>>]),
   Plan("transaction", Settings, [i \in 1..Len(Chunks) |-> <<"txn", Chunks[i]>>]),
   Plan("verify_functionality", {"test_key", "test_key_int"},
        <<<<"put", "test_key">>, <<"get", "test_key">>, <<"delete", "test_key">>,
          <<"services", "consul">>, <<"put", "test_key_int">>, <<"get", "test_key_int">>>>),
   Plan("clear_and_start", Keys,
        <<<<"rm", "files">>, <<"docker_start", "consul">>, <<"wait", "leader">>>>),
   Plan("start", {}, <<<<"docker_restart", "consul">>, <<"wait", "leader">>>>),
   Plan("stop", {}, <<<<"docker_stop", "consul">>>>),
   Plan("ping", {}, <<<<"leader", "consul">>>>)}

\* What is left of a call is the end of its requests.
Pending(c) ==
  \/ call[c].op = "none" /\ todo[c] = <<>>
  \/ \E p \in Plans :
       /\ call[c].op = p.op /\ call[c].keys = p.keys
       /\ \E n \in 0..Len(p.requests) :
            todo[c] = SubSeq(p.requests, n + 1, Len(p.requests))

\* A call that has requests left has no result yet.
Unfinished(c) == todo[c] # <<>> => call[c].result = "none"

\* What a call has done by then, others undo only by touching the key.
Written(c) ==
  LET left == Len(todo[c])
      own == call[c].keys \ call[c].touched
  IN  call[c].result # "raised" =>
        /\ (call[c].op \in {"put_key", "update_key_value"} /\ left = 0) =>
             own \subseteq store \cup empty
        /\ (call[c].op = "delete_key" /\ left = 0) => own \cap (store \cup empty) = {}
        /\ call[c].op = "transaction" =>
             \A i \in 1..(Len(Chunks) - left) : own \cap Chunks[i] \subseteq store \cup empty
        /\ call[c].op = "verify_functionality" =>
             /\ left = 5 => "test_key" \in store \cup call[c].touched
             /\ left = 1 => "test_key_int" \in store \cup call[c].touched
        /\ (call[c].op = "clear_and_start" /\ ~call[c].excused /\ left < 3) =>
             store \cup empty \subseteq call[c].touched

\* What stays is there, and no layer that a read has passed over stays.
Seen(c) ==
  LET left == Len(todo[c])
      Missing(n) == \A i \in 1..n : Layers[i] \notin call[c].stays
  IN  /\ call[c].stays \subseteq store
      /\ (call[c].op = "get_key_layered" /\ call[c].result # "raised") =>
           \/ Missing(3 - left)
           \/ \E i \in 1..3 : left = 0 /\ call[c].result = Layers[i] /\ Missing(i - 1)

Reasons(c) ==
  (call[c].result = "raised" /\ ~call[c].excused) =>
    \/ call[c].op = "get_key" /\ ~(call[c].keys \subseteq call[c].stays)
    \/ call[c].op = "verify_functionality" /\ call[c].touched # {}

Inv ==
  /\ TypeOK
  /\ todo = [c \in Callers |-> todo[c]]
  /\ \A c \in Callers : Pending(c) /\ Unfinished(c) /\ Written(c) /\ Seen(c) /\ Reasons(c)
==============================================================================
