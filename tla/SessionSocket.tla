--------------------------- MODULE SessionSocket ---------------------------
(***************************************************************************)
(* How a stored event reaches those who follow a session: the event bus    *)
(* (in memory, or Redis between instances), the WebSocket coroutine of     *)
(* every connection with its replay and heartbeat, and the app's client,   *)
(* which reconnects from the greatest number it has seen.                  *)
(*                                                                         *)
(* A publisher is a request that stores an event and then publishes it,    *)
(* calling the handlers one after another: the sockets of the session and, *)
(* last, the live report builder.  An exception in a handler is one of the *)
(* publisher.  Sockets always subscribe to the bus in memory; builders to  *)
(* the bus that is configured, so that with Redis nothing is forwarded to  *)
(* sockets.  With the bus in memory there is only one instance, Home.      *)
(* Numbering is EventStore's: here it is gapless.                          *)
(***************************************************************************)
EXTENDS Naturals, Sequences, FiniteSets

CONSTANTS
  MaxEvents,     \* events stored, each published by a request
  MaxConns,      \* connections the app opens, one after another
  RedisConns,    \* the same with the Redis bus, which sockets do not listen to
  Insts,         \* instances of the backend
  Home,          \* the one the sockets are connected to
  ReplayLimit    \* how many events a replay sends at most (500)

ASSUME HomeAssumption == Home \in Insts

ASSUME BoundAssumption == MaxEvents \in Nat /\ MaxConns \in Nat /\ RedisConns \in Nat /\ ReplayLimit \in Nat

VARIABLES
  kind,          \* EVENTBUS
  stored,        \* how many events are stored, numbered from 1
  pub,           \* [Numbers -> the publisher of the event]
  subs,          \* connections with a handler on the bus in memory
  managed,       \* connections of the ConnectionManager
  conn,          \* [Conns -> the coroutine of a connection]
  last,          \* the greatest number the app has seen
  shown,         \* <<c, e>>: the app got event e on its open connection c
  listener,      \* [Insts -> the Redis listener]
  inbox,         \* [Insts -> messages Redis holds for it]
  built          \* [Insts -> [event -> how often the builder was called]]

redisVars  == <<listener, inbox>>
connVars   == <<subs, managed, conn>>
socketVars == <<kind, stored, pub, connVars, last, shown, redisVars, built>>

Numbers == 1 .. MaxEvents
Conns   == 1 .. MaxConns

PubLabels  == {"idle", "publish", "join", "redis", "local", "deliver", "build", "done",
               "failed"}
ConnLabels == {"idle", "auth", "subscribe", "first", "replay", "send", "live",
               "leave", "done"}
Nets       == {"none", "open", "closed", "gone"}      \* gone: no frame, no packet

Publisher == [pc : PubLabels, inst : Insts, left : SUBSET Conns]

Connection ==
  [pc : ConnLabels, net : Nets, since : Nat, items : SUBSET Numbers, ended : BOOLEAN,
   beat : {"off", "wait", "asked", "answered"}]

SocketInit ==
  /\ kind \in {"memory", "redis"}
  /\ stored = 0
  /\ pub = [p \in Numbers |-> [pc |-> "idle", inst |-> Home, left |-> {}]]
  /\ subs = {} /\ managed = {}
  /\ conn = [c \in Conns |->
               [pc |-> "idle", net |-> "none", since |-> 0, items |-> {}, ended |-> FALSE,
                beat |-> "off"]]
  /\ last = 0
  /\ shown = {}
  /\ listener = [i \in Insts |-> "off"]
  /\ inbox = [i \in Insts |-> <<>>]
  /\ built = [i \in Insts |-> [e \in Numbers |-> 0]]

Over(c) == [pc |-> "done", net |-> "closed", since |-> 0, items |-> {},
            ended |-> conn[c].ended, beat |-> "off"]

Max2(m, n) == IF m > n THEN m ELSE n

PubAt(p, label) == pub[p].pc = label
PubGoto(p, label) == pub' = [pub EXCEPT ![p].pc = label]
Failing(p) == [pub EXCEPT ![p].pc = "failed", ![p].left = {}]

ConnAt(c, label) == conn[c].pc = label
ConnGoto(c, label) == conn' = [conn EXCEPT ![c].pc = label]

-----------------------------------------------------------------------------
(* Publishing. *)

(* The event is committed; the bus of the instance is called next. *)
StoreEvent(p) ==
  /\ p = stored + 1
  /\ stored' = p
  /\ \E i \in (IF kind = "memory" THEN {Home} ELSE Insts) :
       pub' = [pub EXCEPT ![p] = [@ EXCEPT !.pc = "publish", !.inst = i]]
  /\ UNCHANGED <<kind, connVars, last, shown, redisVars, built>>

(* InMemoryEventBus.publish copies the handlers under its lock. *)
Copy(p) ==
  /\ kind = "memory" /\ PubAt(p, "publish")
  /\ pub' = [pub EXCEPT ![p].pc = IF subs = {} THEN "build" ELSE "deliver", ![p].left = subs]
  /\ UNCHANGED <<kind, stored, connVars, last, shown, redisVars, built>>

(* forward: what becomes of a message sent to a connection.  Starlette     *)
(* raises on a socket this side has closed, and on one it finds broken;    *)
(* to a peer that is silently gone it may still write.                     *)
Outcomes(c) ==
  IF conn[c].pc \in {"leave", "done"} /\ ~conn[c].ended THEN {"skipped"}
  ELSE IF conn[c].ended THEN {"raised"}
  ELSE IF conn[c].net = "open" THEN {"got"}
  ELSE {"skipped", "raised"}

(* The handlers are awaited in turn, the global one last.                  *)
Deliver(p) ==
  /\ PubAt(p, "deliver")
  /\ \E c \in pub[p].left : \E outcome \in Outcomes(c) :
       /\ pub' = IF outcome = "raised" THEN Failing(p)
                 ELSE [pub EXCEPT ![p].left = @ \ {c},
                                  ![p].pc = IF pub[p].left = {c} THEN "build" ELSE @]
       /\ shown' = IF outcome = "got" THEN shown \cup {<<c, p>>} ELSE shown
       /\ last' = IF outcome = "got" THEN Max2(last, p) ELSE last
  /\ UNCHANGED <<kind, stored, connVars, redisVars, built>>

(* _ensure_redis: the first publisher of an instance subscribes to the     *)
(* channels and starts the listener; the next ones do not wait for it.     *)
EnsureRedis(p) ==
  /\ kind = "redis" /\ PubAt(p, "publish")
  /\ IF listener[pub[p].inst] = "off"
     THEN PubGoto(p, "join") /\ listener' = [listener EXCEPT ![pub[p].inst] = "joining"]
     ELSE PubGoto(p, "redis") /\ UNCHANGED listener
  /\ UNCHANGED <<kind, stored, connVars, last, shown, inbox, built>>

Join(p) ==
  /\ PubAt(p, "join")
  /\ listener' = [listener EXCEPT ![pub[p].inst] = "on"]
  /\ PubGoto(p, "redis")
  /\ UNCHANGED <<kind, stored, connVars, last, shown, inbox, built>>

RedisPublishOnly(p) ==            \* mutation: no _dispatch_local after the PUBLISH
  /\ PubAt(p, "redis")
  /\ inbox' = [i \in Insts |->
                 IF listener[i] = "on" THEN Append(inbox[i], p) ELSE inbox[i]]
  /\ PubGoto(p, "done")
  /\ UNCHANGED <<kind, stored, connVars, last, shown, listener, built>>

RedisPublish(p) ==
  /\ PubAt(p, "redis")
  /\ inbox' = [i \in Insts |->
                 IF listener[i] = "on" THEN Append(inbox[i], p) ELSE inbox[i]]
  /\ PubGoto(p, "build")
  /\ UNCHANGED <<kind, stored, connVars, last, shown, listener, built>>

(* The live report builder of the instance; what it raises ends the        *)
(* publisher, and as a Redis message ends the listener, for good.          *)
Build(p) ==
  /\ PubAt(p, "build")
  /\ built' = [built EXCEPT ![pub[p].inst][p] = @ + 1]
  /\ PubGoto(p, "done") \/ pub' = Failing(p)
  /\ UNCHANGED <<kind, stored, connVars, last, shown, redisVars>>

Listen(i) ==
  /\ listener[i] = "on" /\ inbox[i] # <<>>
  /\ built' = [built EXCEPT ![i][Head(inbox[i])] = @ + 1]
  /\ inbox' = [inbox EXCEPT ![i] = Tail(@)]
  /\ listener' = listener \/ listener' = [listener EXCEPT ![i] = "dead"]
  /\ UNCHANGED <<kind, stored, pub, connVars, last, shown>>

-----------------------------------------------------------------------------
(* The app opens a connection when it has lost the one before.             *)
Open(c) ==
  /\ ConnAt(c, "idle") /\ (kind = "redis" => c <= RedisConns)
  /\ \A d \in 1 .. c - 1 : ~ConnAt(d, "idle") /\ conn[d].net # "open"
  /\ conn' = [conn EXCEPT ![c].pc = "auth", ![c].net = "open", ![c].since = last]
  /\ UNCHANGED <<kind, stored, pub, subs, managed, last, shown, redisVars, built>>

(* The app closes the socket or sends what the server cannot read, which   *)
(* ends the coroutine alike; or it vanishes.                               *)
Drop(c) ==
  /\ conn[c].net = "open"
  /\ \E net \in {"closed", "gone"} : conn' = [conn EXCEPT ![c].net = net]
  /\ shown' = {s \in shown : s[1] # c}
  /\ UNCHANGED <<kind, stored, pub, subs, managed, last, redisVars, built>>

(* A token or a session that is not the technician's: close 4401. *)
Reject(c) ==
  /\ ConnAt(c, "auth")
  /\ conn' = [conn EXCEPT ![c] = Over(c)]
  /\ UNCHANGED <<kind, stored, pub, subs, managed, last, shown, redisVars, built>>

(* accept, and join the manager. *)
Connect(c) ==
  /\ ConnAt(c, "auth")
  /\ managed' = managed \cup {c}
  /\ ConnGoto(c, "subscribe")
  /\ UNCHANGED <<kind, stored, pub, subs, last, shown, redisVars, built>>

SubscribeLate(c) ==                \* mutation: the handler is registered after the replay
  /\ ConnAt(c, "subscribe")
  /\ ConnGoto(c, "first")
  /\ UNCHANGED <<kind, stored, pub, subs, managed, last, shown, redisVars, built>>

Subscribe(c) ==
  /\ ConnAt(c, "subscribe")
  /\ subs' = subs \cup {c}
  /\ ConnGoto(c, "first")
  /\ UNCHANGED <<kind, stored, pub, managed, last, shown, redisVars, built>>

(* The first message: subscribe; or another one, or none in ten seconds,   *)
(* which the server answers by closing; or the end of the connection.      *)
First(c) ==
  /\ ConnAt(c, "first")
  /\ \/ conn[c].net = "open" /\ ConnGoto(c, "replay")
     \/ conn' = [conn EXCEPT ![c].pc = "leave", ![c].ended = TRUE]
     \/ conn[c].net = "closed" /\ ConnGoto(c, "leave")
  /\ UNCHANGED <<kind, stored, pub, subs, managed, last, shown, redisVars, built>>

ReplayPrefix(c) ==                 \* mutation: the events of the step before the number too
  /\ ConnAt(c, "replay")
  /\ conn' = [conn EXCEPT ![c].pc = "send", ![c].items = conn[c].since .. stored]
  /\ UNCHANGED <<kind, stored, pub, subs, managed, last, shown, redisVars, built>>

(* list_since, up to the limit. *)
Replay(c) ==
  /\ ConnAt(c, "replay")
  /\ conn' = [conn EXCEPT ![c].pc = "send",
                ![c].items = {e \in 1 .. stored : /\ e > conn[c].since
                                                  /\ e <= conn[c].since + ReplayLimit}]
  /\ UNCHANGED <<kind, stored, pub, subs, managed, last, shown, redisVars, built>>

(* A batch carries no number of its own, a single event does.  Then the    *)
(* heartbeat starts.  A send to a lost peer may raise, which ends it all.  *)
Send(c) ==
  /\ ConnAt(c, "send")
  /\ \/ /\ conn[c].items = {} \/ conn[c].net # "closed"
        /\ conn' = [conn EXCEPT ![c].pc = "live", ![c].items = {}, ![c].beat = "wait"]
        /\ IF conn[c].net = "open"
           THEN /\ shown' = shown \cup {<<c, e>> : e \in conn[c].items}
                /\ last' = IF Cardinality(conn[c].items) = 1
                           THEN Max2(last, CHOOSE e \in conn[c].items : TRUE) ELSE last
           ELSE UNCHANGED <<shown, last>>
     \/ /\ conn[c].items # {} /\ conn[c].net # "open"
        /\ conn' = [conn EXCEPT ![c].pc = "leave", ![c].items = {}]
        /\ UNCHANGED <<shown, last>>
  /\ UNCHANGED <<kind, stored, pub, subs, managed, redisVars, built>>

(* receive_text raises: the app closed, or the server's close went through. *)
Disconnected(c) ==
  /\ ConnAt(c, "live")
  /\ conn[c].net = "closed" \/ conn[c].ended
  /\ ConnGoto(c, "leave")
  /\ UNCHANGED <<kind, stored, pub, subs, managed, last, shown, redisVars, built>>

(* Ping every 30 s; the check 60 s later closes if no pong came since, as  *)
(* last_pong is then older than the timeout.                               *)
Ping(c) ==
  /\ ConnAt(c, "live") /\ conn[c].beat = "wait" /\ ~conn[c].ended
  /\ \/ conn' = [conn EXCEPT ![c].beat = "asked"]
     \/ conn[c].net = "gone" /\ conn' = [conn EXCEPT ![c].beat = "off", ![c].net = "closed"]
  /\ UNCHANGED <<kind, stored, pub, subs, managed, last, shown, redisVars, built>>

Pong(c) ==
  /\ ConnAt(c, "live") /\ conn[c].beat = "asked" /\ conn[c].net = "open"
  /\ conn' = [conn EXCEPT ![c].beat = "answered"]
  /\ UNCHANGED <<kind, stored, pub, subs, managed, last, shown, redisVars, built>>

CheckOnly(c) ==                    \* mutation: a missing pong has no consequence
  /\ ConnAt(c, "live") /\ conn[c].beat \in {"asked", "answered"}
  /\ conn' = [conn EXCEPT ![c].beat = "wait"]
  /\ UNCHANGED <<kind, stored, pub, subs, managed, last, shown, redisVars, built>>

CheckPong(c) ==
  /\ ConnAt(c, "live") /\ conn[c].beat \in {"asked", "answered"}
  /\ conn' = IF conn[c].beat = "answered" THEN [conn EXCEPT ![c].beat = "wait"]
             ELSE [conn EXCEPT ![c].beat = "off", ![c].ended = TRUE]
  /\ UNCHANGED <<kind, stored, pub, subs, managed, last, shown, redisVars, built>>

(* finally: the heartbeat is cancelled, the handler and the socket go. *)
Leave(c) ==
  /\ ConnAt(c, "leave")
  /\ subs' = subs \ {c}
  /\ managed' = managed \ {c}
  /\ conn' = [conn EXCEPT ![c] = Over(c)]
  /\ shown' = {s \in shown : s[1] # c}
  /\ UNCHANGED <<kind, stored, pub, last, redisVars, built>>

-----------------------------------------------------------------------------
Running(p) == pub[p].pc \notin {"idle", "done", "failed"}

(* The request of a publisher ends at an await. *)
CrashPublisher(p) ==
  /\ Running(p)
  /\ pub' = Failing(p)
  /\ UNCHANGED <<kind, stored, connVars, last, shown, redisVars, built>>

PublishOn(p) ==
  \/ Copy(p) \/ Deliver(p) \/ Build(p)
  \/ EnsureRedis(p) \/ Join(p) \/ RedisPublish(p)

Serve(c) ==
  \/ Reject(c) \/ Connect(c) \/ Subscribe(c) \/ First(c) \/ Replay(c) \/ Send(c)
  \/ Disconnected(c) \/ Leave(c)

Beat(c) == Ping(c) \/ CheckPong(c)

SocketNext ==
  \/ \E p \in Numbers : StoreEvent(p) \/ PublishOn(p) \/ CrashPublisher(p)
  \/ \E i \in Insts : Listen(i)
  \/ \E c \in Conns : Open(c) \/ Drop(c) \/ Pong(c) \/ Serve(c) \/ Beat(c)

SocketSpec == SocketInit /\ [][SocketNext]_socketVars

(* The event loop resumes the coroutines of connections, timers fire, and  *)
(* TCP or the server's close handshake tells of a peer that is not there.  *)
(* Of publishers nothing is assumed.                                       *)
SocketFairness == \A c \in Conns : WF_socketVars(Serve(c)) /\ WF_socketVars(Beat(c))

SocketFairSpec == SocketSpec /\ SocketFairness

-----------------------------------------------------------------------------
SocketTypeOK ==
  /\ kind \in {"memory", "redis"}
  /\ stored \in 0 .. MaxEvents
  /\ pub \in [Numbers -> Publisher]
  /\ subs \subseteq managed /\ managed \subseteq Conns
  /\ conn \in [Conns -> Connection]
  /\ last \in 0 .. stored
  /\ shown \subseteq Conns \X (1 .. stored)
  /\ listener \in [Insts -> {"off", "joining", "on", "dead"}]
  /\ inbox \in [Insts -> Seq(Numbers)]
  /\ built \in [Insts -> [Numbers -> Nat]]

(* An established connection has shown every event stored since the number *)
(* it resumed from, but those whose publisher has not come to it yet or    *)
(* has failed, and those beyond the limit of the replay: subscribing       *)
(* before the replay leaves no gap.  That is the bus in memory: with Redis *)
(* a connection gets its replay and nothing live.                          *)
NothingMissed ==
  \A c \in Conns :
    (kind = "memory" /\ ConnAt(c, "live") /\ conn[c].net = "open" /\ ~conn[c].ended) =>
      \A e \in conn[c].since + 1 .. stored :
        \/ <<c, e>> \in shown
        \/ e > conn[c].since + ReplayLimit
        \/ pub[e].pc \in {"publish", "failed"}
        \/ pub[e].pc = "deliver" /\ c \in pub[e].left

(* A published message reaches the builder of its instance; the other      *)
(* instances get it once at most, its own once more by Redis.              *)
BuilderHears ==
  \A p \in Numbers :
    /\ PubAt(p, "done") => built[pub[p].inst][p] >= 1
    /\ ~PubAt(p, "idle") =>
         \A i \in Insts :
           built[i][p] <= IF i # pub[p].inst \/ kind = "memory" THEN 1 ELSE 2

(* A connection the app has left leaves the bus and the manager, also when *)
(* it vanished without a word: timeouts, heartbeat and the finally block.  *)
Released ==
  \A c \in Conns :
    (conn[c].net \in {"closed", "gone"}) ~> (c \notin subs /\ c \notin managed)
=============================================================================
