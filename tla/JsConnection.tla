------------------------------ MODULE JsConnection ------------------------------
(* The connection of the web page (htmlTest): start(), stop() and reconnecting *)
(* of jquery.signalR-2.2.1.js over its webSockets transport, the invocation    *)
(* callbacks of its hub connection, and the handlers IdentitumClient.js hangs  *)
(* on it.  A browser task runs to its end, handlers and nested calls included, *)
(* so each task is one action; what interleaves are the tasks: answers of      *)
(* requests, events of sockets, timers and clicks.                             *)
EXTENDS Integers, FiniteSets

CONSTANTS
    MaySleep,    \* the computer may sleep longer than connection.reconnectWindow
    MaxBeats,    \* bound: it sleeps while there are fewer heartbeat timers
    MaxHandlers, \* bound: handlers and callbacks are counted up to it
    MaxScripts   \* bound: loads of the hub script under way

ASSUME JsAssumption ==
    /\ MaySleep \in BOOLEAN /\ MaxBeats \in Nat
    /\ MaxHandlers \in Nat \ {0} /\ MaxScripts \in Nat \ {0}

VARIABLES
    state,          \* connection.state
    promise,        \* of connection._deferral; "none": there is no deferral
    done,           \* done callbacks the page has put on it
    older,          \* done callbacks on deferrals that stop() left pending
    phase,          \* what initialization waits for
    completed,      \* initHandler.startCompleted
    socket,         \* the browser's state of connection.socket
    again,          \* it is the socket of a reconnect, started without callbacks
    stale,          \* sockets let go whose close event is to come
    reconnectTimer, \* connection._.reconnectTimeout
    giveUpTimer,    \* stopReconnectingTimeout
    transportTimer, \* initHandler.transportTimeoutHandle
    beats,          \* heartbeat timers that will fire
    owned,          \* connection._.beatHandle is one of them
    lastActive,     \* connection._.lastActiveAt is defined
    pinging,        \* a ping is under way; stop() does not abort it
    calls,          \* kinds of invocations that have a callback
    handlers,       \* disconnected handlers of the page
    ready,          \* localServiceReady
    scripts         \* loads of the hub script under way

init    == <<promise, done, older, phase, completed>>
wire    == <<socket, again, stale>>
beat    == <<beats, owned, lastActive>>
timers  == <<reconnectTimer, giveUpTimer, transportTimer>>
page    == <<handlers, ready, scripts>>
vars    == <<state, init, wire, beat, timers, pinging, calls, page>>

UpTo(n) == IF n > MaxHandlers THEN MaxHandlers ELSE n
Live == {"connecting", "open"}
isConnectedOrReconnecting == state \in {"connected", "reconnecting"}

Init ==
    /\ state = "disconnected"
    /\ promise = "none" /\ done = 0 /\ older = 0
    /\ phase = "none" /\ completed = FALSE
    /\ socket = "none" /\ again = FALSE /\ stale = 0
    /\ reconnectTimer = FALSE /\ giveUpTimer = FALSE /\ transportTimer = FALSE
    /\ beats = 0 /\ owned = FALSE /\ lastActive = TRUE
    /\ pinging = FALSE /\ calls = {}
    /\ handlers = 0 /\ ready = FALSE /\ scripts = 0

(* ----------------------------------- stop() -------------------------------- *)
(* socket.close(), socket = null; the close event is still to come.            *)
closeSocket == stale' = IF socket \in Live THEN UpTo(stale + 1) ELSE stale

(* Mutant: the transport does not clear the reconnect timeout when stopped.    *)
KeepReconnectTimer ==
    /\ giveUpTimer' = FALSE /\ transportTimer' = FALSE
    /\ UNCHANGED reconnectTimer

(* clearReconnectTimeout(), the stateChanged handler, initHandler.stop().      *)
clearTimers ==
    reconnectTimer' = FALSE /\ giveUpTimer' = FALSE /\ transportTimer' = FALSE

(* Mutant: a heartbeat is taken as cleared although none was under way.        *)
ClearAnyBeat == beats' = beats - 1 /\ owned' = FALSE /\ lastActive' = FALSE

clearBeat ==
    /\ beats' = IF owned THEN beats - 1 ELSE beats
    /\ owned' = FALSE /\ lastActive' = FALSE

(* Mutant: the handlers are called before the state changes, so that the       *)
(* start() they call finds nothing to do.                                      *)
HandlersFirst ==
    state' = "disconnected" /\ promise' = "none" /\ done' = 0 /\ phase' = "none"

(* Each disconnected handler of the page calls connectHub(): the first one     *)
(* begins a session, and all of them put a done callback on its deferral.      *)
triggerDisconnect ==
    IF handlers > 0
    THEN /\ state' = "connecting" /\ phase' = "negotiate"
         /\ promise' = "pending" /\ done' = handlers
    ELSE /\ state' = "disconnected" /\ phase' = "none"
         /\ promise' = "none" /\ done' = 0

(* The whole of stop() but the heartbeat, on a connection that is not          *)
(* disconnected and whose promise has come to p.  The requests it aborts       *)
(* reject the deferral; while the transport is connecting nothing does.        *)
stopBut(p) ==
    /\ state # "disconnected"
    /\ older' = IF p = "pending" /\ phase \notin {"negotiate", "start"}
                THEN UpTo(older + done) ELSE older
    /\ completed' = FALSE
    /\ socket' = "none" /\ again' = FALSE /\ closeSocket
    /\ clearTimers
    /\ calls' = {}
    /\ triggerDisconnect

stop(p) == stopBut(p) /\ clearBeat

(* Rejecting is without effect on a deferral that is settled.                  *)
rejected == IF promise = "pending" THEN "rejected" ELSE promise

(* ---------------------------------- start() -------------------------------- *)
(* The page loads the hub script, when it is loaded itself or the button finds *)
(* the service not ready.                                                      *)
loadHub ==
    /\ ~ready /\ scripts < MaxScripts
    /\ scripts' = scripts + 1
    /\ UNCHANGED <<state, init, wire, beat, timers, pinging, calls, handlers, ready>>

(* The service cannot be reached; a connection that works meanwhile is not     *)
(* looked at.                                                                  *)
scriptFails ==
    /\ scripts > 0
    /\ scripts' = scripts - 1 /\ ready' = FALSE
    /\ UNCHANGED <<state, init, wire, beat, timers, pinging, calls, handlers>>

(* connectHub(), once the script is there: its callback waits for a session    *)
(* that begins or is beginning, is never called if that was rejected, and runs *)
(* at once on a connection that works.                                         *)
connectHub ==
    /\ scripts > 0 /\ scripts' = scripts - 1
    /\ \/ /\ state = "disconnected"
          /\ state' = "connecting" /\ phase' = "negotiate"
          /\ promise' = "pending" /\ done' = 1
          /\ UNCHANGED <<older, completed, handlers, ready>>
       \/ /\ state = "connecting"
          /\ done' = IF promise = "pending" THEN UpTo(done + 1) ELSE done
          /\ UNCHANGED <<state, promise, older, phase, completed, handlers, ready>>
       \/ /\ isConnectedOrReconnecting
          /\ handlers' = UpTo(handlers + 1) /\ ready' = TRUE
          /\ UNCHANGED <<state, init>>
    /\ UNCHANGED <<wire, beat, timers, pinging, calls>>

(* negotiate: the transport is started, with a time limit.                     *)
negotiated ==
    /\ phase = "negotiate"
    /\ phase' = "transport"
    /\ socket' = "connecting" /\ again' = FALSE
    /\ transportTimer' = TRUE
    /\ UNCHANGED <<state, promise, done, older, completed, stale, beat,
                   reconnectTimer, giveUpTimer, pinging, calls, page>>

(* A server of another protocol version: the deferral is rejected, and the     *)
(* connection stays `connecting`.                                              *)
protocolIncompatible ==
    /\ phase = "negotiate"
    /\ phase' = "none" /\ promise' = "rejected"
    /\ UNCHANGED <<state, done, older, completed, wire, beat, timers, pinging,
                   calls, page>>

negotiateFails == phase = "negotiate" /\ stop(rejected) /\ UNCHANGED <<pinging, page>>

(* initReceived(): a second init message is ignored.                           *)
initReceived ==
    /\ phase = "transport" /\ socket = "open" /\ ~again
    /\ phase' = "start" /\ transportTimer' = FALSE
    /\ UNCHANGED <<state, promise, done, older, completed, wire, beat,
                   reconnectTimer, giveUpTimer, pinging, calls, page>>

(* The start request succeeded.  The onStart handlers of all sessions are      *)
(* still bound, so that deferrals left pending are resolved too; each done     *)
(* callback of the page registers one more disconnected handler.               *)
started ==
    /\ phase = "start"
    /\ phase' = "none" /\ completed' = TRUE
    /\ state' = "connected"
    /\ promise' = IF promise = "pending" THEN "resolved" ELSE promise
    /\ LET run == older + (IF promise = "pending" THEN done ELSE 0)
       IN  handlers' = UpTo(handlers + run) /\ ready' = (ready \/ run > 0)
    /\ done' = 0 /\ older' = 0
    /\ beats' = beats + 1 /\ owned' = TRUE /\ lastActive' = TRUE
    /\ UNCHANGED <<wire, timers, pinging, calls, scripts>>

startFails == phase = "start" /\ stop(rejected) /\ UNCHANGED <<pinging, page>>

connectTimesOut == transportTimer /\ stop(rejected) /\ UNCHANGED <<pinging, page>>

(* ------------------------------- reconnecting ------------------------------ *)
(* verifyLastActive() finds that the computer slept.                           *)
slept == lastActive /\ MaySleep /\ beats < MaxBeats

(* transportLogic.reconnect(), from a socket s that it leaves as it is.        *)
reconnect(s) ==
    \/ /\ ~(isConnectedOrReconnecting /\ ~reconnectTimer)
       /\ socket' = s
       /\ UNCHANGED <<state, init, again, stale, beat, timers, calls>>
    \/ /\ isConnectedOrReconnecting /\ ~reconnectTimer
       /\ reconnectTimer' = TRUE
       /\ socket' = s
       /\ UNCHANGED <<state, init, again, stale, beat, giveUpTimer, transportTimer, calls>>
    \/ /\ isConnectedOrReconnecting /\ ~reconnectTimer
       /\ slept /\ stop(promise)

(* Mutant: the state is not compared with `reconnecting`.                      *)
OpensConnected == "connected"

stateOnceOpen == IF state = "reconnecting" THEN "connected" ELSE state

(* onopen                                                                      *)
socketOpens ==
    /\ socket = "connecting"
    /\ socket' = "open"
    /\ reconnectTimer' = FALSE
    /\ state' = stateOnceOpen
    /\ giveUpTimer' = (giveUpTimer /\ state # "reconnecting")
    /\ UNCHANGED <<init, again, stale, beat, transportTimer, pinging, calls, page>>

(* onclose of the current socket: during initialization the start fails,       *)
(* afterwards the transport reconnects.                                        *)
socketCloses ==
    /\ socket \in Live
    /\ IF ~again /\ ~completed THEN stop(rejected) ELSE reconnect("closed")
    /\ UNCHANGED <<pinging, page>>

(* onclose of a socket that is no longer the connection's is ignored.          *)
staleCloses ==
    /\ stale > 0
    /\ stale' = stale - 1
    /\ UNCHANGED <<state, init, socket, again, beat, timers, pinging, calls, page>>

(* A message that cannot be parsed.                                            *)
badMessage ==
    /\ socket = "open"
    /\ stop(IF ~again /\ ~completed THEN rejected ELSE promise)
    /\ UNCHANGED <<pinging, page>>

(* Mutant: the callbacks of the hub survive the loss of the socket.            *)
KeepCalls == calls

(* The hub's reconnecting handler.                                             *)
clearInvocationCallbacks == {}

(* The reconnect timeout: the state changes, and a socket is started without   *)
(* callbacks.  The disconnect timeout starts with the state.                   *)
reconnectFires ==
    /\ reconnectTimer
    /\ \/ /\ reconnectTimer' = FALSE
          /\ state' = "reconnecting"
          /\ giveUpTimer' = TRUE
          /\ calls' = IF state = "connected" THEN clearInvocationCallbacks ELSE calls
          /\ closeSocket
          /\ socket' = "connecting" /\ again' = TRUE
          /\ UNCHANGED <<init, beat, transportTimer>>
       \/ slept /\ stop(promise)
    /\ UNCHANGED <<pinging, page>>

(* Mutant: the disconnect timeout only reports an error.                       *)
OnlyReport ==
    /\ giveUpTimer
    /\ giveUpTimer' = FALSE
    /\ UNCHANGED <<state, init, wire, beat, reconnectTimer, transportTimer, pinging, calls, page>>

onReconnectTimeout == giveUpTimer /\ stop(promise) /\ UNCHANGED <<pinging, page>>

(* --------------------------- heartbeat and ping ---------------------------- *)
(* Mutant: the timer is set again only if there is no other.                   *)
BeatIfLast ==
    /\ beats' = IF beats > 1 THEN beats - 1 ELSE beats
    /\ owned' = (beats = 1) /\ lastActive' = TRUE

(* A heartbeat timer that fired, the one of beatHandle or an older one, is set *)
(* again.                                                                      *)
beatAgain == owned' = TRUE /\ lastActive' = TRUE /\ UNCHANGED beats

(* The keep alive is in time, or timed out and the transport told so.          *)
beatFires ==
    /\ beats > 0
    /\ \/ UNCHANGED <<state, init, wire, timers, calls>>
       \/ /\ state = "connected" /\ ~reconnectTimer
          /\ reconnectTimer' = TRUE
          /\ UNCHANGED <<state, init, wire, giveUpTimer, transportTimer, calls>>
    /\ beatAgain
    /\ UNCHANGED <<pinging, page>>

(* The same after the computer slept; stop() clears the timer of beatHandle    *)
(* unless it is the one that fired.  If the check of the keep alive stops the  *)
(* connection, lastActiveAt is undefined, with which the check of markActive() *)
(* compares false, and the timer is set again; if markActive() finds out, it   *)
(* is not.                                                                     *)
beatAfterSleep ==
    /\ beats > 0 /\ slept
    /\ \E left \in {beats - 1} \cup (IF owned /\ beats > 1 THEN {beats - 2} ELSE {}) :
        \/ /\ state = "connected" /\ ~reconnectTimer
           /\ stopBut(promise)
           /\ beats' = left + 1 /\ owned' = TRUE /\ lastActive' = TRUE
        \/ /\ stopBut(promise)
           /\ beats' = left /\ owned' = FALSE /\ lastActive' = FALSE
    /\ UNCHANGED <<pinging, page>>

pingServer ==
    /\ completed /\ ~pinging
    /\ pinging' = TRUE
    /\ UNCHANGED <<state, init, wire, beat, timers, calls, page>>

(* 401, 403 or an answer that cannot be parsed stop the connection, also one   *)
(* that was started since.                                                     *)
pingAnswered ==
    /\ pinging
    /\ pinging' = FALSE
    /\ \/ UNCHANGED <<state, init, wire, beat, timers, calls>>
       \/ stop(promise)
    /\ UNCHANGED page

(* ------------------------------ page and hub ------------------------------- *)
(* Leaving the page, or an application that stops the connection.              *)
userStops == stop(promise) /\ UNCHANGED <<pinging, page>>

(* The service answers an invocation of the page (addInvoke).                  *)
addInvoke ==
    /\ socket = "open" /\ completed
    /\ \E res \in BOOLEAN : ready' = res
    /\ UNCHANGED <<state, init, wire, beat, timers, pinging, calls, handlers, scripts>>

(* hubProxy.invoke(): the callback is registered first.  send() throws unless  *)
(* the connection is connected or reconnecting, and leaves the callback; a     *)
(* socket that is connecting throws, which rejects the invocation; one that is *)
(* closed drops the message.                                                   *)
invoke ==
    /\ ready
    /\ socket # "connecting" \/ ~isConnectedOrReconnecting
    /\ calls' = calls \cup {IF ~isConnectedOrReconnecting THEN "refused"
                            ELSE IF socket = "open" THEN "sent" ELSE "dropped"}
    /\ UNCHANGED <<state, init, wire, beat, timers, pinging, page>>

(* The result of the last invocation that was sent.                            *)
resultArrives ==
    /\ socket = "open" /\ "sent" \in calls
    /\ calls' = calls \ {"sent"}
    /\ UNCHANGED <<state, init, wire, beat, timers, pinging, page>>

Next ==
    \/ loadHub \/ scriptFails \/ connectHub
    \/ negotiated \/ protocolIncompatible \/ negotiateFails
    \/ initReceived \/ started \/ startFails \/ connectTimesOut
    \/ socketOpens \/ socketCloses \/ staleCloses \/ badMessage
    \/ reconnectFires \/ onReconnectTimeout
    \/ beatFires \/ beatAfterSleep \/ pingServer \/ pingAnswered
    \/ userStops \/ addInvoke \/ invoke \/ resultArrives

Spec == Init /\ [][Next]_vars

(* The browser answers or fails every request, and its timers fire.            *)
Fairness ==
    /\ WF_vars(negotiated \/ protocolIncompatible \/ negotiateFails)
    /\ WF_vars(started \/ startFails)
    /\ WF_vars(connectTimesOut)
    /\ WF_vars(reconnectFires)
    /\ WF_vars(onReconnectTimeout)

FairSpec == Spec /\ Fairness

(* -------------------------------- properties ------------------------------- *)
TypeOK ==
    /\ state \in {"disconnected", "connecting", "connected", "reconnecting"}
    /\ promise \in {"none", "pending", "resolved", "rejected"}
    /\ done \in Nat /\ older \in Nat
    /\ phase \in {"none", "negotiate", "transport", "start"}
    /\ completed \in BOOLEAN
    /\ socket \in {"none", "connecting", "open", "closed"}
    /\ again \in BOOLEAN /\ stale \in Nat
    /\ reconnectTimer \in BOOLEAN /\ giveUpTimer \in BOOLEAN /\ transportTimer \in BOOLEAN
    /\ beats \in Nat /\ owned \in BOOLEAN /\ lastActive \in BOOLEAN
    /\ pinging \in BOOLEAN
    /\ calls \subseteq {"refused", "sent", "dropped"}
    /\ handlers \in Nat /\ ready \in BOOLEAN /\ scripts \in Nat

(* What is under way belongs to the state: no current socket, request of the   *)
(* initialization, or reconnect, give-up or transport timer outlives the       *)
(* session, and a session whose socket was lost has a timer that replaces it,  *)
(* whichever events and stops came first.  (A ping and a heartbeat may: see    *)
(* pingAnswered and HeartbeatOfSession.)                                       *)
NothingOutlives ==
    /\ phase # "none" \/ transportTimer => state = "connecting"
    /\ socket # "none" => phase \in {"transport", "start"} \/ isConnectedOrReconnecting
    /\ reconnectTimer => isConnectedOrReconnecting
    /\ giveUpTimer <=> state = "reconnecting"
    /\ transportTimer <=> phase = "transport"
    /\ socket = "closed" => reconnectTimer

(* The connection is connected only by a start request that succeeded, and its *)
(* start() has resolved; a deferral is pending only while it is connecting.    *)
ConnectedIsStarted ==
    /\ isConnectedOrReconnecting <=> completed
    /\ isConnectedOrReconnecting => promise = "resolved" /\ phase = "none"
    /\ promise = "pending" <=> phase # "none"

(* A page that was connected once never stays disconnected: whatever ends a    *)
(* session begins the next one, in the same task (IdentitumClient.js:180).     *)
PageKeepsTrying == handlers > 0 => state # "disconnected"

(* The page was connected if it has a disconnected handler; callbacks on a     *)
(* deferral that stop() left pending are a start that was left.                *)
PageLife == INSTANCE PageLifecycle WITH engaged <- handlers > 0, left <- older > 0
PageSpec == PageLife!Spec

(* One heartbeat runs while the connection is connected or reconnecting, and   *)
(* none else: "Ensure that we successfully marked active before continuing the *)
(* heartbeat" (jquery.signalR-2.2.1.js:1006).                                  *)
HeartbeatOfSession == beats = (IF isConnectedOrReconnecting THEN 1 ELSE 0)

(* Whatever timers earlier sessions left, a connection that is connected or    *)
(* reconnecting has a heartbeat, which stop() can clear, and knows when it was *)
(* last active.                                                                *)
SessionHasHeartbeat == isConnectedOrReconnecting => owned /\ beats > 0 /\ lastActive

(* An invocation that was sent has its callback only while the connection      *)
(* works: one whose socket is lost, or whose session is stopped, has failed    *)
(* before the next socket can answer, whatever the page invoked meanwhile.     *)
SentCanBeAnswered == "sent" \in calls => state = "connected"

(* Under fair answers and timers, the attempt of a page that has no handlers   *)
(* yet ends, connected, rejected or stopped, a reconnect ends, and a lost      *)
(* socket is replaced or given up.                                             *)
AttemptsEnd ==
    /\ (promise = "pending" /\ handlers = 0) ~> promise # "pending"
    /\ state = "reconnecting" ~> state # "reconnecting"
    /\ socket = "closed" ~> socket # "closed"
================================================================================
