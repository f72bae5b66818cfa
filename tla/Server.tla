------------------------------- MODULE Server -------------------------------
(***************************************************************************)
(* One server process from bootstrap to process.exit: index.ts,            *)
(* presentation/http/server.ts and mongodb.client.ts.  Signals arrive at   *)
(* any await of the start, and a second one while the first is served;     *)
(* each runs server.stop from its beginning.                               *)
(*                                                                         *)
(* External: Fastify's close stops listening and waits until every open    *)
(* connection has ended, those of WebSocket clients included; ioredis      *)
(* refuses to quit a connection that has been closed.                      *)
(***************************************************************************)
EXTENDS Naturals

CONSTANTS
  Clients,       \* HTTP requests
  WsClients,     \* WebSocket clients
  Signals,       \* SIGTERM and SIGINT
  MaxUpsets      \* bound on failing connections

ASSUME ServerAssumption == MaxUpsets \in Nat

VARIABLES
  boot,       \* where bootstrap is
  stopping,   \* where the stop of each signal is
  connected,  \* the database client is connected
  redis,      \* the cache worker's Redis client
  closing,    \* app.close has been called
  open,       \* HTTP requests under way
  answered,   \* HTTP requests that have ended
  joined,     \* WebSocket clients connected
  upsets,
  code        \* 2 while the process runs, then its exit code

serverVars == <<boot, stopping, connected, redis, closing, open, answered, joined, upsets, code>>

Boots == {"connect", "plugins", "routes", "workers", "listen", "sockets", "serving"}
Stops == {"none", "workers", "redis", "close", "closed", "disconnected"}

ServerTypeOK ==
  /\ boot \in Boots
  /\ stopping \in [Signals -> Stops]
  /\ connected \in BOOLEAN /\ closing \in BOOLEAN
  /\ redis \in {"none", "open", "closed"}
  /\ open \subseteq Clients /\ answered \subseteq Clients /\ joined \subseteq WsClients
  /\ upsets \in 0 .. MaxUpsets
  /\ code \in 0 .. 2

ServerInit ==
  /\ boot = "connect"
  /\ stopping = [s \in Signals |-> "none"]
  /\ connected = FALSE /\ closing = FALSE
  /\ redis = "none"
  /\ open = {} /\ answered = {} /\ joined = {}
  /\ upsets = 0
  /\ code = 2

-----------------------------------------------------------------------------
Running == code = 2
Upset == upsets < MaxUpsets /\ upsets' = upsets + 1

(* bootstrap().catch, and the handler of unhandled rejections.             *)
ExitOnError ==
  /\ code' = 1
  /\ UNCHANGED <<boot, stopping, connected, redis, closing, open, answered, joined>>

Disconnected == \E s \in Signals : stopping[s] = "disconnected"

(* dbClient.connect, with its indexes; it throws when the database cannot  *)
(* be reached, or when a stop has dropped the client meanwhile.            *)
Connect ==
  /\ Running /\ boot = "connect"
  /\ \/ /\ ~Disconnected
        /\ boot' = "plugins"
        /\ connected' = TRUE
        /\ UNCHANGED <<stopping, redis, closing, open, answered, joined, upsets, code>>
     \/ Disconnected /\ ExitOnError /\ UNCHANGED upsets
     \/ Upset /\ ExitOnError

(* register is refused once the application is closing.                    *)
RegisterPlugins ==
  /\ Running /\ boot = "plugins"
  /\ IF closing
     THEN ExitOnError /\ UNCHANGED upsets
     ELSE /\ boot' = "routes"
          /\ UNCHANGED <<stopping, connected, redis, closing, open, answered, joined, upsets, code>>

(* getDb throws when a stop has disconnected the client.                   *)
RegisterRoutes ==
  /\ Running /\ boot = "routes"
  /\ IF ~connected \/ closing
     THEN ExitOnError /\ UNCHANGED upsets
     ELSE /\ boot' = "workers"
          /\ UNCHANGED <<stopping, connected, redis, closing, open, answered, joined, upsets, code>>

(* initializeWorkers: without Kafka there are no workers and no Redis; the *)
(* failure of one worker does not stop the others.                         *)
StartWorkers ==
  /\ Running /\ boot = "workers"
  /\ \/ boot' = "listen" /\ UNCHANGED <<redis, code>>
     \/ connected /\ boot' = "listen" /\ redis' = "open" /\ UNCHANGED code
     \/ ~connected /\ code' = 1 /\ UNCHANGED <<boot, redis>>
  /\ UNCHANGED <<stopping, connected, closing, open, answered, joined, upsets>>

(* app.listen; it throws once the application is closing.                  *)
Listen ==
  /\ Running /\ boot = "listen"
  /\ IF closing
     THEN ExitOnError /\ UNCHANGED upsets
     ELSE /\ boot' = "sockets"
          /\ UNCHANGED <<stopping, connected, redis, closing, open, answered, joined, upsets, code>>

(* initializeWebSocketServer logs its errors.                              *)
OpenSockets ==
  /\ Running /\ boot = "sockets"
  /\ boot' = "serving"
  /\ UNCHANGED <<stopping, connected, redis, closing, open, answered, joined, upsets, code>>

(* A request is accepted while the server listens.                         *)
Accept(c) ==
  /\ Running /\ boot \in {"sockets", "serving"} /\ ~closing
  /\ c \notin open \cup answered
  /\ open' = open \cup {c}
  /\ UNCHANGED <<boot, stopping, connected, redis, closing, answered, joined, upsets, code>>

Respond(c) ==
  /\ Running /\ c \in open
  /\ open' = open \ {c}
  /\ answered' = answered \cup {c}
  /\ UNCHANGED <<boot, stopping, connected, redis, closing, joined, upsets, code>>

JoinSocket(w) ==
  /\ Running /\ boot = "serving" /\ ~closing
  /\ w \notin joined
  /\ joined' = joined \cup {w}
  /\ UNCHANGED <<boot, stopping, connected, redis, closing, open, answered, upsets, code>>

LeaveSocket(w) ==
  /\ Running /\ w \in joined
  /\ joined' = joined \ {w}
  /\ UNCHANGED <<boot, stopping, connected, redis, closing, open, answered, upsets, code>>

-----------------------------------------------------------------------------
StopAt(s, step) == stopping' = [stopping EXCEPT ![s] = step]

(* handleShutdown.                                                         *)
Receive(s) ==
  /\ Running /\ stopping[s] = "none"
  /\ StopAt(s, "workers")
  /\ UNCHANGED <<boot, connected, redis, closing, open, answered, joined, upsets, code>>

(* Each worker's stop, and its errors, which are logged.                   *)
StopWorkers(s) ==
  /\ Running /\ stopping[s] = "workers"
  /\ StopAt(s, "redis")
  /\ UNCHANGED <<boot, connected, redis, closing, open, answered, joined, upsets, code>>

(* redisClient.disconnect: a rejection leaves stop and ends the process.   *)
DisconnectRedis(s) ==
  /\ Running /\ stopping[s] = "redis"
  /\ \/ /\ redis # "closed"
        /\ redis' = IF redis = "open" THEN "closed" ELSE "none"
        /\ StopAt(s, "close")
        /\ UNCHANGED <<boot, connected, closing, open, answered, joined, upsets, code>>
     \/ redis = "closed" /\ ExitOnError /\ UNCHANGED upsets
     \/ redis = "open" /\ Upset /\ ExitOnError

(* app.close begins.                                                       *)
BeginClose(s) ==
  /\ Running /\ stopping[s] = "close"
  /\ StopAt(s, "closed")
  /\ closing' = TRUE
  /\ UNCHANGED <<boot, connected, redis, open, answered, joined, upsets, code>>

(* app.close has returned, and the database is disconnected.               *)
Disconnect(s) ==
  /\ Running /\ stopping[s] = "closed"
  /\ open = {} /\ joined = {}
  /\ StopAt(s, "disconnected")
  /\ connected' = FALSE
  /\ UNCHANGED <<boot, redis, closing, open, answered, joined, upsets, code>>

(* Variant: process.exit without waiting for stop.                         *)
ExitEarly(s) ==
  /\ Running /\ stopping[s] \in {"close", "closed", "disconnected"}
  /\ code' = 0
  /\ UNCHANGED <<boot, stopping, connected, redis, closing, open, answered, joined, upsets>>

(* Variant: no process.exit: the consumers keep the process alive.         *)
ExitNever(s) ==
  /\ Running /\ stopping[s] = "disconnected"
  /\ UNCHANGED serverVars

(* process.exit(0)                                                         *)
ExitAfterStop(s) ==
  /\ Running /\ stopping[s] = "disconnected"
  /\ code' = 0
  /\ UNCHANGED <<boot, stopping, connected, redis, closing, open, answered, joined, upsets>>

Start == \/ Connect \/ RegisterPlugins \/ RegisterRoutes \/ StartWorkers \/ Listen \/ OpenSockets

Stop(s) == \/ StopWorkers(s) \/ DisconnectRedis(s) \/ BeginClose(s) \/ Disconnect(s) \/ ExitAfterStop(s)

ServerNext ==
  \/ Start
  \/ \E c \in Clients : Accept(c) \/ Respond(c)
  \/ \E w \in WsClients : JoinSocket(w) \/ LeaveSocket(w)
  \/ \E s \in Signals : Receive(s) \/ Stop(s)

(* Every await of a start, a stop and a request returns or throws.         *)
ServerFairness ==
  /\ WF_serverVars(Start)
  /\ \A c \in Clients : WF_serverVars(Respond(c))
  /\ \A s \in Signals : WF_serverVars(Stop(s))

ServerSpec == ServerInit /\ [][ServerNext]_serverVars /\ ServerFairness

-----------------------------------------------------------------------------
(* No request is under way without a database, whenever a signal arrives:  *)
(* a stop that overtakes the start makes the start fail before it listens. *)
RequestsHaveADatabase == Running /\ open # {} => connected

(* A process that exits with 0 has answered every request it accepted.     *)
(* Only two signals or a Redis that fails cut requests off.                *)
CutRequestsHaveACause ==
  ~Running /\ open # {} =>
    /\ code = 1
    /\ upsets > 0 \/ \E s, t \in Signals : s # t /\ stopping[s] # "none" /\ stopping[t] # "none"

(* A signal ends the process, unless a WebSocket client stays connected:   *)
(* stop never closes the WebSocket server.                                 *)
ShutdownEnds == (\E s \in Signals : stopping[s] # "none") ~> ~Running \/ joined # {}
=============================================================================
