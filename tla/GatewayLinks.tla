---------------------------- MODULE GatewayLinks ----------------------------
(***************************************************************************)
(* The life of one gateway process and of its links to RabbitMQ and Redis: *)
(* start, initMq with its chain of reconnections, connectRedis, shutdown   *)
(* (gateway: main.ts, mq/index.ts, redis/index.ts).  The container is      *)
(* started again whenever the process ends.                                *)
(***************************************************************************)
EXTENDS Naturals, FiniteSets

CONSTANTS
    Conns,       \* connections to the broker, as many as may be open at a time
    NoConn,      \* null
    MaxTrouble   \* bound: failures of the broker, of Redis and of the process

LinksAssumption == IsFiniteSet(Conns) /\ NoConn \notin Conns /\ MaxTrouble \in Nat

VARIABLES
    proc,        \* starting, listening, stopping
    conn,        \* each connection, see ConnStates
    channel,     \* mqChannel, named by its connection
    current,     \* mqConnection
    timers,      \* pending setTimeout calls of initMq
    redisLink,   \* off, connecting, waiting (for its timer), ready
    trouble      \* failures so far

vars == <<proc, conn, channel, current, timers, redisLink, trouble>>

(***************************************************************************)
(* free: not used.  connecting: amqp.connect is awaited.  asserting: the   *)
(* channel is open, exchange and queues are being declared.  ready: its    *)
(* 'error' and 'close' handlers are attached.  failing: 'error' has come,  *)
(* 'close' has not.  orphan: open, but its initMq has given up.            *)
(***************************************************************************)
ConnStates == {"free", "connecting", "asserting", "ready", "failing", "orphan"}

\* Attempts and connections that will lead to another attempt when they fail.
Chain == {c \in Conns : conn[c] \in {"connecting", "asserting", "ready", "failing"}}

Init ==
    /\ proc = "starting"
    /\ conn = [c \in Conns |-> "free"]
    /\ channel = NoConn /\ current = NoConn
    /\ timers = 0 /\ redisLink = "off" /\ trouble = 0

Move(c, state) == conn' = [conn EXCEPT ![c] = state]
Fault == trouble < MaxTrouble /\ trouble' = trouble + 1

\* setTimeout(initMq), unless the gateway is shutting down.
Reschedule == timers' = IF proc = "stopping" THEN timers ELSE timers + 1

\* initMq until amqp.connect.
InitMq ==
    /\ \E c \in Conns : conn[c] = "free" /\ Move(c, "connecting")
    /\ UNCHANGED <<channel, current, redisLink, trouble>>

\* start: the first call of connectRedis has ended one way or the other, then initMq.
StartMq ==
    /\ proc = "starting" /\ redisLink \in {"ready", "waiting"}
    /\ Chain = {} /\ timers = 0
    /\ InitMq
    /\ UNCHANGED <<proc, timers>>

TimerFires ==
    /\ timers > 0 /\ proc # "stopping"
    /\ timers' = timers - 1
    /\ InitMq
    /\ UNCHANGED proc

\* amqp.connect and createChannel: mqChannel is there before the queues are declared.
Connected(c) ==
    /\ conn[c] = "connecting"
    /\ Move(c, "asserting")
    /\ channel' = c /\ current' = c
    /\ UNCHANGED <<proc, timers, redisLink, trouble>>

\* The queues are declared; start goes on to listen after its first initMq.
Asserted(c) ==
    /\ conn[c] = "asserting"
    /\ Move(c, "ready")
    /\ proc' = IF proc = "starting" THEN "listening" ELSE proc
    /\ UNCHANGED <<channel, current, timers, redisLink, trouble>>

\* Mutated: the handlers are attached before the queues are declared, so that the
\* connection that is left behind schedules an attempt of its own when it closes.
InitFails_HandlersFirst(c) ==
    /\ conn[c] \in {"connecting", "asserting"}
    /\ Fault
    /\ Move(c, IF conn[c] = "asserting" THEN "ready" ELSE "free")
    /\ channel' = NoConn
    /\ Reschedule
    /\ proc' = IF proc = "starting" THEN "listening" ELSE proc
    /\ UNCHANGED <<current, redisLink>>

\* catch: a connection whose channel or queue was refused stays open.
InitFails(c) ==
    /\ conn[c] \in {"connecting", "asserting"}
    /\ Fault
    /\ \E left \in {"free", "orphan"} :
          Move(c, left) /\ current' = IF left = "orphan" THEN c ELSE current
    /\ channel' = NoConn
    /\ Reschedule
    /\ proc' = IF proc = "starting" THEN "listening" ELSE proc
    /\ UNCHANGED redisLink

\* conn.on('error').
OnError(c) ==
    /\ conn[c] = "ready"
    /\ Fault
    /\ Move(c, "failing")
    /\ channel' = NoConn
    /\ UNCHANGED <<proc, current, timers, redisLink>>

\* Mutated: the close that follows an error is taken for one already dealt with.
OnClose_NotAfterError(c) ==
    /\ conn[c] \in {"ready", "failing"}
    /\ IF conn[c] = "ready" /\ proc # "stopping" THEN Fault ELSE UNCHANGED trouble
    /\ Move(c, "free")
    /\ channel' = NoConn
    /\ IF conn[c] = "ready" THEN Reschedule ELSE UNCHANGED timers
    /\ UNCHANGED <<proc, current, redisLink>>

\* conn.on('close'), after an error, at the broker's wish or at closeMq's.
OnClose(c) ==
    /\ conn[c] \in {"ready", "failing"}
    /\ IF conn[c] = "ready" /\ proc # "stopping" THEN Fault ELSE UNCHANGED trouble
    /\ Move(c, "free")
    /\ channel' = NoConn
    /\ Reschedule
    /\ UNCHANGED <<proc, current, redisLink>>

\* The broker closes a connection that nobody listens to.
OrphanEnds(c) ==
    /\ conn[c] = "orphan"
    /\ Move(c, "free")
    /\ UNCHANGED <<proc, channel, current, timers, redisLink, trouble>>

\* connectRedis, from start or from its timer; the client then reconnects by itself.
ConnectRedis ==
    /\ redisLink \in {"off", "waiting"} /\ proc # "stopping"
    /\ redisLink' = "connecting"
    /\ UNCHANGED <<proc, conn, channel, current, timers, trouble>>

RedisAnswers ==
    /\ redisLink = "connecting"
    /\ \/ redisLink' = "ready" /\ UNCHANGED trouble
       \/ redisLink' = (IF proc = "stopping" THEN "off" ELSE "waiting") /\ Fault
    /\ UNCHANGED <<proc, conn, channel, current, timers>>

\* SIGTERM or SIGINT: closeMq sets shuttingDown and clears the timer.
Shutdown ==
    /\ proc # "stopping"
    /\ Fault
    /\ proc' = "stopping" /\ timers' = 0
    /\ UNCHANGED <<conn, channel, current, redisLink>>

\* process.exit after the pool and Redis are closed, or a crash: everything is gone, and
\* the container starts again.
Restart ==
    /\ \/ proc = "stopping" /\ UNCHANGED trouble
       \/ proc # "stopping" /\ Fault
    /\ proc' = "starting"
    /\ conn' = [c \in Conns |-> "free"]
    /\ channel' = NoConn /\ current' = NoConn
    /\ timers' = 0 /\ redisLink' = "off"

Work ==
    \/ StartMq \/ TimerFires \/ ConnectRedis \/ RedisAnswers
    \/ \E c \in Conns : Connected(c) \/ Asserted(c) \/ OrphanEnds(c)
                        \/ (conn[c] = "failing" /\ OnClose(c))

Next ==
    \/ Work \/ Shutdown \/ Restart
    \/ \E c \in Conns : InitFails(c) \/ OnError(c) \/ OnClose(c)

\* Timers fire, and a call that is awaited returns.
LinksFairness == WF_vars(Work) /\ WF_vars(proc = "stopping" /\ Restart)

Spec == Init /\ [][Next]_vars /\ LinksFairness

-----------------------------------------------------------------------------
\* Every variable keeps its type.
TypeOK ==
    /\ proc \in {"starting", "listening", "stopping"}
    /\ conn \in [Conns -> ConnStates]
    /\ channel \in Conns \cup {NoConn} /\ current \in Conns \cup {NoConn}
    /\ timers \in Nat /\ trouble \in 0..MaxTrouble
    /\ redisLink \in {"off", "connecting", "waiting", "ready"}

\* The events of a lost connection and the catch of a failed attempt never start two
\* chains of reconnections: of timers, attempts and live connections there is one.
SingleChain == Cardinality(Chain) + timers <= 1

Published == channel # NoConn /\ conn[channel] = "ready"

\* Whatever fails, a gateway without a queue gets one again (failures are finitely many):
\* there is always a timer or an attempt under way that leads to it (initMq).
Reconnects == []<>Published
=============================================================================
