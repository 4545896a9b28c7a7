------------------------------ MODULE Connection ------------------------------
(***************************************************************************)
(* signalr::connection_impl: start(), stop(), reconnect() and the          *)
(* destructor of one connection object, run by any number of threads.      *)
(*                                                                         *)
(* A session is one accepted start(): it owns a cancellation source        *)
(* (m_disconnect_cts), a connect_request_tce and a transport, so all three *)
(* are named by the session's number; 0 stands for nullptr or "".  An      *)
(* operation is one call of stop() by the application (AppStops) or one    *)
(* transport error with the reconnect() it triggers (Errors); the stop()   *)
(* with which a failed reconnect() ends has the name of its reconnect.     *)
(*                                                                         *)
(* One action is one stretch of code between two points where another      *)
(* thread can interfere: the acquisition of m_stop_lock, a wait on         *)
(* m_start_completed_event, a task boundary, or two accesses to shared     *)
(* state outside the lock.  pplx tasks are lazy about cancellation: a      *)
(* continuation given a token is skipped when it comes to run.             *)
(***************************************************************************)
EXTENDS Integers, FiniteSets

CONSTANTS
    MaxStarts,    \* bound on the number of accepted start() calls
    AppStops,     \* the stop() calls the application may make
    Errors,       \* the errors transports may report, each with its reconnect()
    NoOp,         \* no operation: the value of stopLock when it is free
    Usage         \* what the application keeps to: see MayStart, MayStop

ASSUME ConstAssumption ==
    /\ MaxStarts \in Nat \ {0}
    /\ AppStops \cap Errors = {}
    /\ NoOp \notin AppStops \cup Errors

ASSUME UsageAssumption == Usage \in {"once", "awaited", "free"}

Sessions == 1 .. MaxStarts
Stops    == AppStops \cup Errors

VARIABLES
    connState,       \* m_connection_state
    stopLock,        \* m_stop_lock: the operation that holds it, or NoOp
    startCompleted,  \* m_start_completed_event is signaled
    cur,             \* the last session; whose source m_disconnect_cts holds
    canceled,        \* the sessions whose cancellation source is canceled
    transport,       \* m_transport: the session it was created for, or 0
    token,           \* m_connection_token: the session that set it, or 0
    cursor,          \* m_message_id, m_groups_token: the session that sent them
    startPc,         \* where the continuations of start() are, per session
    tce,             \* connect_request_tce of the session
    loop,            \* the receive loop of the session's transport
    msg,             \* the message process_response() is working on
    stopPc,          \* where a stop() is
    recPc,           \* where an error callback and its reconnect() are
    recSess,         \* the session of the transport the reconnect() is about
    recCts,          \* the source captured by reconnect(), by its session
    inner,           \* the stop() the callback run by reconnect() waits for
    expired,         \* the reconnect() calls whose reconnect window is over
    alive            \* the connection object exists

startVars == <<startPc, tce>>
wireVars  == <<loop, msg>>
recVars   == <<recPc, recSess, recCts, inner, expired>>
dataVars  == <<token, cursor>>
connVars  == <<connState, startCompleted, cur, canceled, transport>>
vars      == <<connVars, stopLock, dataVars, startVars, wireVars, stopPc,
               recVars, alive>>

-----------------------------------------------------------------------------
ConnStates == {"disconnected", "connecting", "connected", "reconnecting",
               "disconnecting"}
StartPcs   == {"idle", "negotiate", "negotiated", "connecting", "startReq",
               "starting", "started", "failed", "dropped", "signal", "done"}
StopPcs    == {"idle", "lock", "wait", "abort", "finish", "done"}
RecPcs     == {"idle", "error", "lock", "wait", "callback", "lock2",
               "attemptStart", "attempt", "retry", "sleep", "ok", "signalOk",
               "reconnected", "fail", "threw", "done"}

TypeOK ==
    /\ connState \in ConnStates
    /\ stopLock \in Stops \cup {NoOp}
    /\ startCompleted \in BOOLEAN
    /\ cur \in Sessions \cup {0}
    /\ canceled \subseteq Sessions
    /\ transport \in Sessions \cup {0}
    /\ token \in Sessions \cup {0}
    /\ cursor \in Sessions \cup {0}
    /\ startPc \in [Sessions -> StartPcs]
    /\ tce \in [Sessions -> {"unset", "set", "failed"}]
    /\ loop \in [Sessions -> {"off", "connecting", "closing", "live"}]
    /\ msg \in [Sessions -> {"none", "init", "data"}]
    /\ stopPc \in [Stops -> StopPcs]
    /\ recPc \in [Errors -> RecPcs]
    /\ recSess \in [Errors -> Sessions \cup {0}]
    /\ recCts \in [Errors -> Sessions \cup {0}]
    /\ inner \in [Errors -> AppStops \cup {NoOp}]
    /\ expired \subseteq Errors
    /\ alive \in BOOLEAN

Init ==
    /\ connState = "disconnected"
    /\ stopLock = NoOp
    /\ startCompleted = FALSE
    /\ cur = 0
    /\ canceled = {}
    /\ transport = 0
    /\ token = 0
    /\ cursor = 0
    /\ startPc = [s \in Sessions |-> "idle"]
    /\ tce = [s \in Sessions |-> "unset"]
    /\ loop = [s \in Sessions |-> "off"]
    /\ msg = [s \in Sessions |-> "none"]
    /\ stopPc = [c \in Stops |-> "idle"]
    /\ recPc = [r \in Errors |-> "idle"]
    /\ recSess = [r \in Errors |-> 0]
    /\ recCts = [r \in Errors |-> 0]
    /\ inner = [r \in Errors |-> NoOp]
    /\ expired = {}
    /\ alive = TRUE

-----------------------------------------------------------------------------
(* Small steps shared by the actions.                                      *)

StartGoto(s, from, to) ==
    /\ startPc[s] = from
    /\ startPc' = [startPc EXCEPT ![s] = to]

StopGoto(c, from, to) ==
    /\ stopPc[c] = from
    /\ stopPc' = [stopPc EXCEPT ![c] = to]

RecGoto(r, from, to) ==
    /\ recPc[r] = from
    /\ recPc' = [recPc EXCEPT ![r] = to]

\* A task_completion_event keeps the first outcome it is given.
Settle(s, outcome) ==
    tce' = IF tce[s] = "unset" THEN [tce EXCEPT ![s] = outcome] ELSE tce

\* websocket_transport::disconnect(): the loop's source is canceled; a connect
\* that is still under way ends by itself.
Disconnected(l) == IF l = "connecting" THEN "closing" ELSE "off"

-----------------------------------------------------------------------------
(* How the application uses the connection.  An application that keeps to  *)
(* "once" starts it a single time; "awaited" restarts it, after the tasks  *)
(* of all its earlier calls; neither stops it before it was started.  One  *)
(* that is "free" calls anything at any time, as the code permits.         *)

MayStart ==
    \/ Usage = "free"
    \/ Usage = "once" /\ cur = 0
    \/ /\ Usage = "awaited"
       /\ \A s \in Sessions : startPc[s] \in {"idle", "done"}
       /\ \A c \in AppStops : stopPc[c] \in {"idle", "done"}

MayStop == Usage = "free" \/ cur > 0

-----------------------------------------------------------------------------
(* start()                                                                 *)

\* What start() clears before the session begins.
ClearAllButEvent == startCompleted' = startCompleted /\ token' = 0 /\ cursor' = 0
ClearAllButToken == startCompleted' = FALSE /\ token' = token /\ cursor' = 0
ClearSession     == startCompleted' = FALSE /\ token' = 0 /\ cursor' = 0

\* The part of start() under m_stop_lock; the continuations follow.
StartCall ==
    /\ MayStart
    /\ alive
    /\ cur < MaxStarts
    /\ stopLock = NoOp
    /\ connState = "disconnected"
    /\ connState' = "connecting"
    /\ cur' = cur + 1
    /\ ClearSession
    /\ startPc' = [startPc EXCEPT ![cur + 1] = "negotiate"]
    /\ UNCHANGED <<canceled, transport, stopLock, tce, wireVars, stopPc,
                   recVars, alive>>

\* A continuation that was given the session's token is skipped.
StartCanceled(s) ==
    /\ s \in canceled
    /\ startPc[s] \in {"negotiate", "negotiated", "startReq"}
    /\ startPc' = [startPc EXCEPT ![s] = "failed"]
    /\ UNCHANGED <<connVars, stopLock, dataVars, tce, wireVars, stopPc,
                   recVars, alive>>

Negotiate(s) ==
    /\ \/ StartGoto(s, "negotiate", "negotiated")
       \/ StartGoto(s, "negotiate", "failed")
    /\ UNCHANGED <<connVars, stopLock, dataVars, tce, wireVars, stopPc,
                   recVars, alive>>

\* An incompatible protocol version is refused before the connection token is
\* stored, a server without websockets after it.
RejectNegotiation(s) ==
    /\ s \notin canceled
    /\ StartGoto(s, "negotiated", "failed")
    /\ token' \in {token, s}
    /\ UNCHANGED <<connVars, stopLock, cursor, tce, wireVars, stopPc, recVars,
                   alive>>

ConnectTransport(s) ==
    /\ s \notin canceled
    /\ StartGoto(s, "negotiated", "connecting")
    /\ token' = s
    /\ loop' = [loop EXCEPT ![s] = "connecting"]
    /\ UNCHANGED <<connVars, stopLock, cursor, tce, msg, stopPc, recVars,
                   alive>>

\* The timer task of start_transport().  A canceled session must not be left
\* hanging, but it is no error either.
ConnectTimeout(s) ==
    /\ startPc[s] = "connecting"
    /\ tce[s] = "unset"
    /\ Settle(s, IF s \in canceled THEN "set" ELSE "failed")
    /\ UNCHANGED <<connVars, stopLock, dataVars, startPc, wireVars, stopPc,
                   recVars, alive>>

SetTransport(s) ==
    /\ \/ /\ tce[s] = "set"
          /\ StartGoto(s, "connecting", "startReq")
          /\ transport' = s
       \/ /\ tce[s] = "failed"
          /\ StartGoto(s, "connecting", "failed")
          /\ UNCHANGED transport
    /\ UNCHANGED <<connState, startCompleted, cur, canceled, stopLock,
                   dataVars, tce, wireVars, stopPc, recVars, alive>>

\* m_transport->get_transport_type() needs a transport.
StartRequest(s) ==
    /\ s \notin canceled
    /\ transport # 0
    /\ StartGoto(s, "startReq", "starting")
    /\ UNCHANGED <<connVars, stopLock, dataVars, tce, wireVars, stopPc,
                   recVars, alive>>

StartResponse(s) ==
    /\ \/ StartGoto(s, "starting", "started")
       \/ StartGoto(s, "starting", "failed")
    /\ UNCHANGED <<connVars, stopLock, dataVars, tce, wireVars, stopPc,
                   recVars, alive>>

StartSucceeded(s) ==
    /\ StartGoto(s, "started", "signal")
    /\ connState' = IF connState = "connecting" THEN "connected" ELSE connState
    /\ UNCHANGED <<startCompleted, cur, canceled, transport, stopLock,
                   dataVars, tce, wireVars, stopPc, recVars, alive>>

StartDropsTransportAndSignals(s) ==
    /\ StartGoto(s, "failed", "dropped")
    /\ transport' = 0
    /\ startCompleted' = TRUE
    /\ UNCHANGED <<connState, cur, canceled, stopLock, dataVars, tce, wireVars,
                   stopPc, recVars, alive>>

\* A start that failed lets go of the transport, then of the state, and only
\* then signals.
StartDropsTransport(s) ==
    /\ StartGoto(s, "failed", "dropped")
    /\ transport' = 0
    /\ UNCHANGED <<connState, startCompleted, cur, canceled, stopLock,
                   dataVars, tce, wireVars, stopPc, recVars, alive>>

StartDisconnects(s) ==
    /\ StartGoto(s, "dropped", "signal")
    /\ connState' = "disconnected"
    /\ UNCHANGED <<startCompleted, cur, canceled, transport, stopLock,
                   dataVars, tce, wireVars, stopPc, recVars, alive>>

StartEndsSilently(s) ==
    /\ StartGoto(s, "signal", "done")
    /\ UNCHANGED <<connVars, stopLock, dataVars, tce, wireVars, stopPc,
                   recVars, alive>>

StartSignals(s) ==
    /\ StartGoto(s, "signal", "done")
    /\ startCompleted' = TRUE
    /\ UNCHANGED <<connState, cur, canceled, transport, stopLock, dataVars,
                   tce, wireVars, stopPc, recVars, alive>>

StartStep(s) ==
    \/ StartCanceled(s)     \/ Negotiate(s)       \/ RejectNegotiation(s)
    \/ ConnectTransport(s)  \/ ConnectTimeout(s)  \/ SetTransport(s)
    \/ StartRequest(s)      \/ StartResponse(s)   \/ StartSucceeded(s)
    \/ StartDropsTransport(s) \/ StartDisconnects(s) \/ StartSignals(s)

-----------------------------------------------------------------------------
(* The transport of a session: the websocket opens or fails, and its       *)
(* receive loop hands over messages one at a time until it reports an      *)
(* error.  The loop starts before connect()'s task completes.              *)

WsOpen(s) ==
    /\ loop[s] \in {"connecting", "closing"}
    /\ loop' = [loop EXCEPT ![s] = IF @ = "connecting" THEN "live" ELSE "off"]
    /\ UNCHANGED <<connVars, stopLock, dataVars, startVars, msg, stopPc,
                   recVars, alive>>

\* The connect of the session's start() fails.
WsFail(s) ==
    /\ loop[s] \in {"connecting", "closing"}
    /\ \A r \in Errors : recPc[r] = "attempt" => recSess[r] # s
    /\ loop' = [loop EXCEPT ![s] = "off"]
    /\ Settle(s, "failed")
    /\ UNCHANGED <<connVars, stopLock, dataVars, startPc, msg, stopPc,
                   recVars, alive>>

\* process_response_callback finds the captured source not canceled.
MsgArrive(s) ==
    /\ loop[s] = "live"
    /\ msg[s] = "none"
    /\ s \notin canceled
    /\ alive
    /\ \E m \in {"init", "data"} : msg' = [msg EXCEPT ![s] = m]
    /\ UNCHANGED <<connVars, stopLock, dataVars, startVars, loop, stopPc,
                   recVars, alive>>

\* process_response()
MsgApply(s) ==
    /\ msg[s] # "none"
    /\ msg' = [msg EXCEPT ![s] = "none"]
    /\ cursor' = s
    /\ IF msg[s] = "init" THEN Settle(s, "set") ELSE UNCHANGED tce
    /\ UNCHANGED <<connVars, stopLock, token, startPc, loop, stopPc, recVars,
                   alive>>

\* The loop ends with an error, which calls the error callback.  Its source is
\* canceled first, so that connect() can be called again.
LoopKeepsSource(s) == loop' = loop
LoopEnds(s)        == loop' = [loop EXCEPT ![s] = "off"]

LoopError(s, r) ==
    /\ loop[s] = "live"
    /\ msg[s] = "none"
    /\ LoopEnds(s)
    /\ RecGoto(r, "idle", "error")
    /\ recSess' = [recSess EXCEPT ![r] = s]
    /\ UNCHANGED <<connVars, stopLock, dataVars, startVars, msg, stopPc,
                   recCts, inner, expired, alive>>

\* The last reference to a transport goes away, and its destructor disconnects.
DropTransport(s) ==
    /\ loop[s] = "live"
    /\ transport # s
    /\ startPc[s] # "connecting"
    /\ loop' = [loop EXCEPT ![s] = "off"]
    /\ UNCHANGED <<connVars, stopLock, dataVars, startVars, msg, stopPc,
                   recVars, alive>>

-----------------------------------------------------------------------------
(* stop() and shutdown()                                                   *)

StopCall(c) ==
    /\ MayStop
    /\ alive
    /\ StopGoto(c, "idle", "lock")
    /\ UNCHANGED <<connVars, stopLock, dataVars, startVars, wireVars, recVars,
                   alive>>

\* m_disconnect_cts.cancel(), of whatever session is the last.
CancelTransports == canceled' = canceled \cup {transport}
CancelSession    == canceled' = canceled \cup {cur}

\* The lock is held while shutdown() waits for the event.
KeepToWait(c) == stopLock' = c

\* A stop() that finds another under way gets a canceled task, so that its
\* continuation leaves the transport alone.
JoinStop(c)   == StopGoto(c, "lock", "finish")
RefuseStop(c) == StopGoto(c, "lock", "done")

\* The lock is taken; a connection already disconnected or being disconnected
\* needs no more, otherwise the session is canceled and the lock kept.
StopAcquire(c) ==
    /\ stopLock = NoOp
    /\ \/ /\ connState = "disconnected"
          /\ StopGoto(c, "lock", "finish")
          /\ UNCHANGED <<canceled, stopLock>>
       \/ /\ connState = "disconnecting"
          /\ RefuseStop(c)
          /\ UNCHANGED <<canceled, stopLock>>
       \/ /\ connState \notin {"disconnected", "disconnecting"}
          /\ StopGoto(c, "lock", "wait")
          /\ CancelSession
          /\ KeepToWait(c)
    /\ UNCHANGED <<connState, startCompleted, cur, transport, dataVars,
                   startVars, wireVars, recVars, alive>>

\* The event was signaled: the start or reconnect in progress is over.
StopProceed(c) ==
    /\ startCompleted
    /\ stopLock' = NoOp
    /\ \/ /\ connState = "disconnected"
          /\ StopGoto(c, "wait", "finish")
          /\ UNCHANGED connState
       \/ /\ connState # "disconnected"
          /\ StopGoto(c, "wait", "abort")
          /\ connState' = "disconnecting"
    /\ UNCHANGED <<startCompleted, cur, canceled, transport, dataVars,
                   startVars, wireVars, recVars, alive>>

\* The abort request and m_transport->disconnect() need a transport.
StopDisconnect(c) ==
    /\ transport # 0
    /\ StopGoto(c, "abort", "finish")
    /\ loop' = [loop EXCEPT ![transport] = Disconnected(@)]
    /\ UNCHANGED <<connVars, stopLock, dataVars, startVars, msg, recVars,
                   alive>>

\* The continuation of shutdown() in stop(): the one that disconnected also
\* lets go of the transport.
EnterDisconnected == connState' = "disconnected" /\ transport' = transport
CloseConnection   == connState' = "disconnected" /\ transport' = 0

StopFinish(c) ==
    /\ stopLock = NoOp
    /\ StopGoto(c, "finish", "done")
    /\ IF connState = "disconnecting"
       THEN CloseConnection
       ELSE UNCHANGED <<connState, transport>>
    /\ UNCHANGED <<startCompleted, cur, canceled, stopLock, dataVars,
                   startVars, wireVars, recVars, alive>>

StopStep(c) ==
    \/ StopAcquire(c)     \/ StopProceed(c)
    \/ StopDisconnect(c)  \/ StopFinish(c)

-----------------------------------------------------------------------------
(* error_callback and reconnect()                                          *)

\* The error is stray when the captured source is canceled.
ErrCheck(r) ==
    LET s == recSess[r]
    IN  /\ \/ /\ s \in canceled
              /\ RecGoto(r, "error", "done")
              /\ UNCHANGED tce
           \/ /\ s \notin canceled
              /\ RecGoto(r, "error", IF alive THEN "lock" ELSE "done")
              /\ Settle(s, "failed")
        /\ UNCHANGED <<connVars, stopLock, dataVars, startPc, wireVars, stopPc,
                       recSess, recCts, inner, expired, alive>>

RecAcquire(r) ==
    /\ stopLock = NoOp
    /\ stopLock' = r
    /\ RecGoto(r, "lock", "wait")
    /\ UNCHANGED <<connVars, dataVars, startVars, wireVars, stopPc, recSess,
                   recCts, inner, expired, alive>>

\* The start in progress is over: reconnecting needs a connected connection.
RecProceed(r) ==
    /\ startCompleted
    /\ stopLock' = NoOp
    /\ \/ /\ connState = "connected"
          /\ connState' = "reconnecting"
          /\ recCts' = [recCts EXCEPT ![r] = cur]
          /\ RecGoto(r, "wait", "callback")
       \/ /\ connState # "connected"
          /\ RecGoto(r, "wait", "done")
          /\ UNCHANGED <<connState, recCts>>
    /\ UNCHANGED <<startCompleted, cur, canceled, transport, dataVars,
                   startVars, wireVars, stopPc, recSess, inner, expired, alive>>

\* The reconnecting and the reconnected callback may call stop() and wait.
CallbackStops(r, c) ==
    /\ recPc[r] \in {"callback", "reconnected"}
    /\ inner[r] = NoOp
    /\ inner' = [inner EXCEPT ![r] = c]
    /\ StopGoto(c, "idle", "lock")
    /\ UNCHANGED <<connVars, stopLock, dataVars, startVars, wireVars, recPc,
                   recSess, recCts, expired, alive>>

CallbackReturns(r) ==
    /\ inner[r] # NoOp => stopPc[inner[r]] = "done"
    /\ inner' = [inner EXCEPT ![r] = NoOp]
    /\ \/ RecGoto(r, "callback", "lock2")
       \/ RecGoto(r, "reconnected", "done")
    /\ UNCHANGED <<connVars, stopLock, dataVars, startVars, wireVars, stopPc,
                   recSess, recCts, expired, alive>>

\* The event stands for the attempts to come, as it does for a start.
LeaveEvent == startCompleted' = startCompleted
ResetEvent == startCompleted' = FALSE

\* The second locked section: go on only if nothing stopped the connection.
RecRecheck(r) ==
    /\ stopLock = NoOp
    /\ IF recCts[r] \notin canceled /\ connState = "reconnecting"
       THEN /\ RecGoto(r, "lock2", "attemptStart")
            /\ ResetEvent
       ELSE /\ RecGoto(r, "lock2", "done")
            /\ UNCHANGED startCompleted
    /\ UNCHANGED <<connState, cur, canceled, transport, stopLock, dataVars,
                   startVars, wireVars, stopPc, recSess, recCts, inner,
                   expired, alive>>

\* try_reconnect(): websocket_transport::connect() throws while its receive
\* loop is not canceled.
TryReconnect(r) ==
    /\ transport # 0
    /\ \/ /\ recCts[r] \in canceled
          /\ RecGoto(r, "attemptStart", "fail")
          /\ UNCHANGED <<loop, recSess>>
       \/ /\ recCts[r] \notin canceled
          /\ loop[transport] \in {"connecting", "live"}
          /\ RecGoto(r, "attemptStart", "threw")
          /\ UNCHANGED <<loop, recSess>>
       \/ /\ recCts[r] \notin canceled
          /\ loop[transport] \in {"off", "closing"}
          /\ RecGoto(r, "attemptStart", "attempt")
          /\ loop' = [loop EXCEPT ![transport] = "connecting"]
          /\ recSess' = [recSess EXCEPT ![r] = transport]
    /\ UNCHANGED <<connVars, stopLock, dataVars, startVars, msg, stopPc,
                   recCts, inner, expired, alive>>

\* The websocket of the attempt did not open.
AttemptFailed(r) ==
    /\ RecGoto(r, "attempt", "retry")
    /\ loop[recSess[r]] \in {"connecting", "closing"}
    /\ loop' = [loop EXCEPT ![recSess[r]] = "off"]
    /\ UNCHANGED <<connVars, stopLock, dataVars, startVars, msg, stopPc,
                   recSess, recCts, inner, expired, alive>>

AttemptSucceeded(r) ==
    /\ RecGoto(r, "attempt", "ok")
    /\ loop[recSess[r]] \in {"live", "off"}
    /\ UNCHANGED <<connVars, stopLock, dataVars, startVars, wireVars, stopPc,
                   recSess, recCts, inner, expired, alive>>

WindowElapses(r) ==
    /\ recPc[r] \in {"attemptStart", "attempt", "retry", "sleep"}
    /\ expired' = expired \cup {r}
    /\ UNCHANGED <<connVars, stopLock, dataVars, startVars, wireVars, stopPc,
                   recPc, recSess, recCts, inner, alive>>

Retry(r) ==
    /\ IF recCts[r] \in canceled \/ r \in expired
       THEN RecGoto(r, "retry", "fail")
       ELSE RecGoto(r, "retry", "sleep")
    /\ UNCHANGED <<connVars, stopLock, dataVars, startVars, wireVars, stopPc,
                   recSess, recCts, inner, expired, alive>>

Wake(r) ==
    /\ IF recCts[r] \in canceled \/ ~alive
       THEN RecGoto(r, "sleep", "fail")
       ELSE RecGoto(r, "sleep", "attemptStart")
    /\ UNCHANGED <<connVars, stopLock, dataVars, startVars, wireVars, stopPc,
                   recSess, recCts, inner, expired, alive>>

RecSucceeded(r) ==
    /\ IF alive
       THEN /\ RecGoto(r, "ok", "signalOk")
            /\ connState' = IF connState = "reconnecting" THEN "connected"
                                                          ELSE connState
       ELSE RecGoto(r, "ok", "done") /\ UNCHANGED connState
    /\ UNCHANGED <<startCompleted, cur, canceled, transport, stopLock,
                   dataVars, startVars, wireVars, stopPc, recSess, recCts,
                   inner, expired, alive>>

\* The event is set before the reconnected callback runs.
RecSignals(r) ==
    /\ RecGoto(r, "signalOk", "reconnected")
    /\ startCompleted' = TRUE
    /\ UNCHANGED <<connState, cur, canceled, transport, stopLock, dataVars,
                   startVars, wireVars, stopPc, recSess, recCts, inner,
                   expired, alive>>

\* Reconnecting failed: signal, then stop().
RecStopsUnsignaled(r) == startCompleted' = startCompleted /\ StopGoto(r, "idle", "lock")
RecStops(r)           == startCompleted' = TRUE /\ StopGoto(r, "idle", "lock")

RecFailed(r) ==
    /\ RecGoto(r, "fail", "done")
    /\ IF alive
       THEN RecStops(r)
       ELSE UNCHANGED <<startCompleted, stopPc>>
    /\ UNCHANGED <<connState, cur, canceled, transport, stopLock, dataVars,
                   startVars, wireVars, recSess, recCts, inner, expired, alive>>

RecStep(r) ==
    \/ ErrCheck(r)       \/ RecAcquire(r)     \/ RecProceed(r)
    \/ CallbackReturns(r) \/ RecRecheck(r)    \/ TryReconnect(r)
    \/ AttemptFailed(r)  \/ AttemptSucceeded(r)
    \/ Retry(r)          \/ Wake(r)           \/ RecSucceeded(r)
    \/ RecSignals(r)     \/ RecFailed(r)

-----------------------------------------------------------------------------
(* ~connection_impl(): runs when nothing holds a shared_ptr.               *)

StrongHolders ==
    \/ \E s \in Sessions : startPc[s] \notin {"idle", "done"} \/ msg[s] # "none"
    \/ \E c \in Stops : stopPc[c] \notin {"idle", "done"}
    \/ \E r \in Errors : recPc[r] \in {"lock", "wait", "callback", "lock2",
                                 "attemptStart", "signalOk", "reconnected"}

Destroy ==
    /\ alive
    /\ ~StrongHolders
    /\ alive' = FALSE
    /\ startCompleted' = TRUE
    /\ connState' = "disconnected"
    /\ transport' = 0
    /\ IF connState = "disconnected"
       THEN UNCHANGED <<canceled, loop>>
       ELSE /\ canceled' = canceled \cup {cur}
            /\ loop' = [s \in Sessions |-> IF s = transport
                                           THEN Disconnected(loop[s])
                                           ELSE loop[s]]
    /\ UNCHANGED <<cur, stopLock, dataVars, startVars, msg, stopPc, recVars>>

-----------------------------------------------------------------------------
Next ==
    \/ StartCall
    \/ \E s \in Sessions :
          \/ StartStep(s)  \/ WsOpen(s)    \/ WsFail(s)
          \/ MsgArrive(s)  \/ MsgApply(s)  \/ DropTransport(s)
          \/ \E r \in Errors : LoopError(s, r)
    \/ \E c \in AppStops : StopCall(c)
    \/ \E c \in Stops : StopStep(c)
    \/ \E r \in Errors :
          \/ RecStep(r)
          \/ WindowElapses(r)
          \/ \E c \in AppStops : CallbackStops(r, c)
    \/ Destroy

Spec == Init /\ [][Next]_vars

\* Threads and tasks are scheduled, requests and connects end, time passes.
\* Nothing obliges the application to call, or the network to fail.
Fairness ==
    /\ \A s \in Sessions :
          /\ WF_vars(StartStep(s))
          /\ WF_vars(WsOpen(s) \/ WsFail(s))
          /\ WF_vars(MsgApply(s))
    /\ \A c \in Stops : WF_vars(StopStep(c))
    /\ \A r \in Errors : WF_vars(RecStep(r)) /\ WF_vars(WindowElapses(r))

FairSpec == Spec /\ Fairness

-----------------------------------------------------------------------------
(* Properties.                                                             *)

\* The start request and the reconnect, which dereference m_transport without
\* looking, find one.
RequestsHaveTransport ==
    /\ \A s \in Sessions : startPc[s] = "startReq" => transport # 0
    /\ \A r \in Errors : recPc[r] = "attemptStart" => transport # 0

\* So does the third place, the abort request with disconnect().
NoNullTransport ==
    /\ RequestsHaveTransport
    /\ \A c \in Stops : stopPc[c] = "abort" => transport # 0

\* shutdown() asserts that the session it waited for is connected or
\* reconnecting, once it is not disconnected.
ShutdownAssertion ==
    \A c \in Stops : stopPc[c] = "wait" /\ startCompleted =>
        connState \in {"connected", "reconnecting", "disconnected"}

\* Nothing moves the connection out of connecting before start() does, nor
\* out of reconnecting before reconnect() does, and the destructor never
\* finds a stop() under way: the _ASSERTE(false) of the three places.
TransitionAssertions ==
    /\ \A s \in Sessions : startPc[s] = "started" => connState = "connecting"
    /\ \A r \in Errors :
          recPc[r] = "ok" /\ alive => connState = "reconnecting"
    /\ alive /\ ~StrongHolders => connState # "disconnecting"

\* Whatever runs meanwhile, the code's assertions about the state it finds hold.
StateAssertions == ShutdownAssertion /\ TransitionAssertions

\* start() asserts that a disconnected connection has no transport.
DisconnectedHasNoTransport == connState = "disconnected" => transport = 0

\* The event is what stop() and reconnect() wait for: while it is signaled no
\* start is connecting and no reconnect attempt is under way.
SignaledIsSettled ==
    startCompleted /\ alive =>
        /\ connState # "connecting"
        /\ \A r \in Errors : recPc[r] \notin {"attemptStart", "attempt",
                                        "retry", "sleep", "ok", "signalOk"}

\* shutdown() and reconnect() wait for the event with the lock held, and so keep
\* everyone else out: unless it is signaled, a start or a reconnect attempt is
\* under way, which will signal it.
WaitIsForSomeone ==
    stopLock # NoOp /\ ~startCompleted =>
        \/ \E s \in Sessions : startPc[s] \notin {"idle", "done"}
        \/ \E r \in Errors : recPc[r] \in {"attemptStart", "attempt", "retry",
                                         "sleep", "ok", "signalOk", "fail"}

\* While a stop() uses the transport no reconnect() is using it too.
TeardownExcludesReconnect ==
    \A c \in Stops, r \in Errors :
        stopPc[c] = "abort" =>
            recPc[r] \notin {"attemptStart", "attempt", "retry", "sleep", "ok",
                             "signalOk"}

\* try_reconnect() is assumed not to throw: reconnect() and the continuation
\* on its task have no handler for an exception.
ReconnectNeverThrows == \A r \in Errors : recPc[r] # "threw"

\* The token the requests of a session carry is its own.
TokenOfThisSession == token \in {0, cur}

\* A message of a session that was stopped is ignored, so that the message id
\* and the groups token of a later session are its own.
StoppedSessionIsSilent == cursor \in canceled => cursor = cur

\* An application call, once made, completes, whatever the network does; so
\* does the handling of every transport error.
CallsComplete ==
    /\ \A s \in Sessions : startPc[s] # "idle" ~> startPc[s] = "done"
    /\ \A c \in Stops : stopPc[c] = "lock" ~> stopPc[c] = "done"
    /\ \A r \in Errors : recPc[r] = "error" ~> recPc[r] = "done"

\* The lifecycle the connection promises.
Life == INSTANCE Lifecycle WITH phase <- connState,
                                stopRequested <- cur \in canceled
LifecycleSpec == Life!Spec
FairLifecycle == Life!FairSpec

=============================================================================
