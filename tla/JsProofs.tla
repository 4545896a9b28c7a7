-------------------------------- MODULE JsProofs --------------------------------
(* Proofs about JsConnection.  The safety properties of the page's connection  *)
(* are together inductive, with two additions: the handle of the heartbeat, if *)
(* it is of a timer that will fire, is of one that was counted; and only a     *)
(* session that was started has the socket of a reconnect, which does not open *)
(* while the connection still is reconnecting.                                 *)
EXTENDS JsConnection, TLAPS

OwnedIsCounted == owned => beats > 0
ReconnectSocket ==
    /\ again => completed
    /\ state = "reconnecting" => socket # "open"

IInv ==
    /\ TypeOK
    /\ NothingOutlives
    /\ ConnectedIsStarted
    /\ PageKeepsTrying
    /\ SessionHasHeartbeat
    /\ SentCanBeAnswered
    /\ OwnedIsCounted
    /\ ReconnectSocket

(* What the invariant says of all but the heartbeat.                           *)
Rest ==
    /\ NothingOutlives
    /\ ConnectedIsStarted
    /\ PageKeepsTrying
    /\ SentCanBeAnswered
    /\ ReconnectSocket

(* The flags, and the other types but those of the heartbeat.                  *)
Flags ==
    /\ completed \in BOOLEAN /\ again \in BOOLEAN
    /\ reconnectTimer \in BOOLEAN /\ giveUpTimer \in BOOLEAN
    /\ transportTimer \in BOOLEAN
    /\ owned \in BOOLEAN /\ lastActive \in BOOLEAN
    /\ pinging \in BOOLEAN /\ ready \in BOOLEAN

RestTypes ==
    /\ state \in {"disconnected", "connecting", "connected", "reconnecting"}
    /\ promise \in {"none", "pending", "resolved", "rejected"}
    /\ done \in Nat /\ older \in Nat
    /\ phase \in {"none", "negotiate", "transport", "start"}
    /\ socket \in {"none", "connecting", "open", "closed"}
    /\ stale \in Nat
    /\ calls \subseteq {"refused", "sent", "dropped"}
    /\ handlers \in Nat /\ scripts \in Nat

(* All of the invariant but the flags.                                         *)
Facts ==
    /\ Rest
    /\ RestTypes
    /\ beats \in Nat
    /\ SessionHasHeartbeat
    /\ OwnedIsCounted

LEMMA Parts == IInv <=> Flags /\ Facts
  BY DEF IInv, TypeOK, Flags, Facts, Rest, RestTypes

(* Flags stay flags.                                                           *)
LEMMA StopKeepsFlags ==
  ASSUME NEW p, stop(p) \/ (stopBut(p) /\ owned' \in BOOLEAN /\ lastActive' \in BOOLEAN),
         pinging' \in BOOLEAN, ready' \in BOOLEAN
  PROVE  Flags'
  BY Zenon DEF stop, stopBut, clearBeat, clearTimers, Flags

LEMMA FlagsStay == ASSUME Flags, [Next]_vars PROVE Flags'
  <1>. USE DEF Flags, init, wire, beat, timers, page
  <1>1. CASE connectHub
    BY <1>1, Zenon DEF connectHub
  <1>2. CASE negotiated
    BY <1>2, Zenon DEF negotiated
  <1>3. CASE protocolIncompatible
    BY <1>3, Zenon DEF protocolIncompatible
  <1>4. CASE negotiateFails
    BY <1>4, StopKeepsFlags, Zenon DEF negotiateFails
  <1>5. CASE initReceived
    BY <1>5, Zenon DEF initReceived
  <1>6. CASE started
    BY <1>6, Zenon DEF started
  <1>7. CASE startFails
    BY <1>7, StopKeepsFlags, Zenon DEF startFails
  <1>8. CASE connectTimesOut
    BY <1>8, StopKeepsFlags, Zenon DEF connectTimesOut
  <1>9. CASE socketOpens
    BY <1>9, Zenon DEF socketOpens
  <1>10. CASE socketCloses
    BY <1>10, StopKeepsFlags, Zenon DEF socketCloses, reconnect
  <1>11. CASE staleCloses
    BY <1>11, Zenon DEF staleCloses
  <1>12. CASE badMessage
    BY <1>12, StopKeepsFlags, Zenon DEF badMessage
  <1>13. CASE reconnectFires
    BY <1>13, StopKeepsFlags, Zenon DEF reconnectFires
  <1>14. CASE onReconnectTimeout
    BY <1>14, StopKeepsFlags, Zenon DEF onReconnectTimeout
  <1>15. CASE beatFires
    BY <1>15, Zenon DEF beatFires, beatAgain
  <1>16. CASE beatAfterSleep
    BY <1>16, StopKeepsFlags, Zenon DEF beatAfterSleep
  <1>17. CASE pingServer
    BY <1>17, Zenon DEF pingServer
  <1>18. CASE pingAnswered
    BY <1>18, StopKeepsFlags, Zenon DEF pingAnswered
  <1>19. CASE userStops
    BY <1>19, StopKeepsFlags, Zenon DEF userStops
  <1>20. CASE addInvoke
    BY <1>20, Zenon DEF addInvoke
  <1>21. CASE invoke
    BY <1>21, Zenon DEF invoke
  <1>22. CASE resultArrives
    BY <1>22, Zenon DEF resultArrives
  <1>23. CASE loadHub
    BY <1>23, Zenon DEF loadHub
  <1>24. CASE scriptFails
    BY <1>24, Zenon DEF scriptFails
  <1>25. CASE UNCHANGED vars
    BY <1>25, Zenon DEF vars
  <1>. QED
    BY <1>1, <1>2, <1>3, <1>4, <1>5, <1>6, <1>7, <1>8, <1>9, <1>10, <1>11, <1>12, <1>13, <1>14, <1>15, <1>16, <1>17, <1>18, <1>19, <1>20, <1>21, <1>22, <1>23, <1>24, <1>25, Zenon DEF Next

(* Counting up to the bound stays a number.                                    *)
LEMMA UpToIsNat == ASSUME NEW n \in Nat PROVE UpTo(n) \in Nat /\ (n > 0 => UpTo(n) > 0)
  BY JsAssumption DEF UpTo, JsAssumption

(* Every way into stop() leaves a connection with nothing of the old session,  *)
(* and, if the page has handlers, the beginning of the next.                   *)
LEMMA StopLeavesNothing ==
  ASSUME IInv, NEW p, stopBut(p), UNCHANGED page
  PROVE  Rest' /\ RestTypes' /\ ~isConnectedOrReconnecting'
  <1>. USE UpToIsNat DEF stopBut, page, IInv
  <1>1. /\ completed' = FALSE /\ socket' = "none" /\ again' = FALSE
        /\ reconnectTimer' = FALSE /\ giveUpTimer' = FALSE /\ transportTimer' = FALSE
        /\ calls' = {} /\ UNCHANGED <<handlers, scripts>>
    BY DEF clearTimers
  <1>2. \/ /\ handlers > 0 /\ state' = "connecting" /\ phase' = "negotiate"
           /\ promise' = "pending" /\ done' = handlers
        \/ /\ ~(handlers > 0) /\ state' = "disconnected" /\ phase' = "none"
           /\ promise' = "none" /\ done' = 0
    BY DEF triggerDisconnect
  <1>3. RestTypes'
    <2>1. stale' \in Nat
      BY DEF closeSocket, TypeOK
    <2>2. older' \in Nat
      BY DEF TypeOK
    <2>. QED
      BY <1>1, <1>2, <2>1, <2>2 DEF RestTypes, TypeOK
  <1>4. ~isConnectedOrReconnecting'
    BY <1>2 DEF isConnectedOrReconnecting
  <1>5. NothingOutlives'
    BY <1>1, <1>2, <1>4 DEF NothingOutlives, isConnectedOrReconnecting
  <1>6. ConnectedIsStarted'
    BY <1>1, <1>2, <1>4 DEF ConnectedIsStarted
  <1>7. PageKeepsTrying'
    BY <1>1, <1>2 DEF PageKeepsTrying
  <1>8. SentCanBeAnswered' /\ ReconnectSocket'
    BY <1>1, <1>4 DEF SentCanBeAnswered, ReconnectSocket
  <1>. QED
    BY <1>3, <1>4, <1>5, <1>6, <1>7, <1>8 DEF Rest

(* stop() as every task but the heartbeat calls it.                            *)
LEMMA StopIsSafe ==
  ASSUME IInv, NEW p, stop(p), UNCHANGED page
  PROVE  Facts'
  <1>1. Rest' /\ RestTypes' /\ ~isConnectedOrReconnecting'
    BY StopLeavesNothing DEF stop
  <1>2. beats' \in Nat /\ owned' = FALSE
    BY DEF stop, clearBeat, IInv, TypeOK, OwnedIsCounted
  <1>. QED
    BY <1>1, <1>2 DEF Facts, SessionHasHeartbeat, OwnedIsCounted

(* The initialization of a session, from start() to the start request.         *)
LEMMA StartingIsSafe ==
  ASSUME Flags, Facts,
         \/ loadHub \/ scriptFails \/ connectHub
         \/ negotiated \/ protocolIncompatible \/ initReceived \/ started
  PROVE  Facts'
  <1>. USE UpToIsNat DEF Flags, init, wire, beat, timers, page
  <1>. USE DEF Facts, Rest, RestTypes, NothingOutlives, ConnectedIsStarted,
       PageKeepsTrying, SessionHasHeartbeat, SentCanBeAnswered, OwnedIsCounted,
       ReconnectSocket, isConnectedOrReconnecting
  <1>1. CASE connectHub
    BY <1>1 DEF connectHub
  <1>2. CASE negotiated
    BY <1>2 DEF negotiated
  <1>3. CASE protocolIncompatible
    BY <1>3 DEF protocolIncompatible
  <1>4. CASE initReceived
    BY <1>4 DEF initReceived
  <1>5. CASE started
    BY <1>5 DEF started
  <1>6. CASE loadHub
    BY <1>6 DEF loadHub
  <1>7. CASE scriptFails
    BY <1>7 DEF scriptFails
  <1>. QED
    BY <1>1, <1>2, <1>3, <1>4, <1>5, <1>6, <1>7, Zenon

(* What only stops the session, whether it begins or works.                    *)
LEMMA OtherStopsAreSafe ==
  ASSUME IInv, negotiateFails \/ startFails \/ connectTimesOut \/ badMessage
               \/ onReconnectTimeout \/ userStops
  PROVE  Facts'
  <1>1. PICK p \in {promise, rejected} : stop(p) /\ UNCHANGED <<pinging, page>>
    BY DEF negotiateFails, startFails, connectTimesOut, badMessage, onReconnectTimeout,
       userStops
  <1>. QED
    BY <1>1, StopIsSafe

(* A socket that closes stops the session, or sets the timer once.             *)
LEMMA SocketClosesSafely ==
  ASSUME IInv, socketCloses
  PROVE  Facts'
  <1>1. CASE \E p \in {promise, rejected} : stop(p)
    <2>1. PICK p \in {promise, rejected} : stop(p)
      BY <1>1
    <2>. QED
      BY <2>1, StopIsSafe DEF socketCloses
  <1>2. CASE ~(\E p \in {promise, rejected} : stop(p))
    <2>1. again \/ completed
      BY <1>2 DEF socketCloses
    <2>2. /\ socket' = "closed"
          /\ UNCHANGED <<state, init, again, stale, beat, giveUpTimer, transportTimer, calls,
                         pinging, page>>
          /\ \/ ~(isConnectedOrReconnecting /\ ~reconnectTimer) /\ UNCHANGED reconnectTimer
             \/ isConnectedOrReconnecting /\ reconnectTimer' = TRUE
      BY <1>2, <2>1 DEF socketCloses, reconnect, timers
    <2>3. isConnectedOrReconnecting
      BY <2>1 DEF IInv, ConnectedIsStarted, ReconnectSocket
    <2>. QED
      BY <2>2, <2>3, Parts DEF init, beat, page, Flags, Facts, Rest, RestTypes, NothingOutlives, ConnectedIsStarted,
       PageKeepsTrying, SessionHasHeartbeat, SentCanBeAnswered, OwnedIsCounted,
       ReconnectSocket, isConnectedOrReconnecting
  <1>. QED
    BY <1>1, <1>2

(* The reconnect timeout.                                                      *)
LEMMA ReconnectFiresSafely ==
  ASSUME IInv, reconnectFires
  PROVE  Facts'
  <1>1. CASE stop(promise)
    BY <1>1, StopIsSafe DEF reconnectFires
  <1>2. CASE ~stop(promise)
    BY <1>2, UpToIsNat, Parts DEF reconnectFires, closeSocket, clearInvocationCallbacks,
       init, beat, page, Flags, Facts, Rest, RestTypes, NothingOutlives, ConnectedIsStarted,
       PageKeepsTrying, SessionHasHeartbeat, SentCanBeAnswered, OwnedIsCounted,
       ReconnectSocket, isConnectedOrReconnecting
  <1>. QED
    BY <1>1, <1>2

(* The heartbeat, in time and after a sleep.                                   *)
LEMMA BeatIsSafe ==
  ASSUME IInv, beatFires \/ beatAfterSleep
  PROVE  Facts'
  <1>1. CASE beatFires
    BY <1>1, Parts DEF beatFires, beatAgain, init, wire, timers, page, Flags,
       Facts, Rest, RestTypes, NothingOutlives, ConnectedIsStarted,
       PageKeepsTrying, SessionHasHeartbeat, SentCanBeAnswered, OwnedIsCounted,
       ReconnectSocket, isConnectedOrReconnecting
  <1>2. CASE beatAfterSleep
    <2>1. stopBut(promise) /\ UNCHANGED <<pinging, page>>
      BY <1>2 DEF beatAfterSleep
    <2>2. Rest' /\ RestTypes' /\ ~isConnectedOrReconnecting'
      BY <2>1, StopLeavesNothing
    <2>3. beats' \in Nat /\ (owned' => beats' > 0)
      BY <1>2 DEF beatAfterSleep, IInv, TypeOK
    <2>. QED
      BY <2>1, <2>2, <2>3 DEF Facts, SessionHasHeartbeat, OwnedIsCounted
  <1>. QED
    BY <1>1, <1>2

(* The ping, whose answer may stop a session that did not ask for it.          *)
LEMMA PingIsSafe ==
  ASSUME IInv, pingServer \/ pingAnswered
  PROVE  Facts'
  <1>1. CASE stop(promise) /\ pingAnswered
    BY <1>1, StopIsSafe DEF pingAnswered
  <1>2. CASE ~(stop(promise) /\ pingAnswered)
    BY <1>2, Parts DEF pingServer, pingAnswered, init, wire, beat, timers, page, Flags,
       Facts, Rest, RestTypes, NothingOutlives, ConnectedIsStarted,
       PageKeepsTrying, SessionHasHeartbeat, SentCanBeAnswered, OwnedIsCounted,
       ReconnectSocket, isConnectedOrReconnecting
  <1>. QED
    BY <1>1, <1>2

(* Sockets that open and close, and the calls that use them.                   *)
LEMMA SocketAndCallsAreSafe ==
  ASSUME Flags, Facts,
         socketOpens \/ staleCloses \/ addInvoke \/ invoke \/ resultArrives
  PROVE  Facts'
  <1>. USE DEF Flags, init, wire, beat, timers, page
  <1>. USE DEF Facts, Rest, RestTypes, NothingOutlives, ConnectedIsStarted,
       PageKeepsTrying, SessionHasHeartbeat, SentCanBeAnswered, OwnedIsCounted,
       ReconnectSocket, isConnectedOrReconnecting
  <1>1. CASE socketOpens
    BY <1>1 DEF socketOpens, stateOnceOpen
  <1>2. CASE staleCloses
    BY <1>2 DEF staleCloses
  <1>3. CASE addInvoke
    BY <1>3 DEF addInvoke
  <1>4. CASE invoke
    BY <1>4 DEF invoke
  <1>5. CASE resultArrives
    BY <1>5 DEF resultArrives
  <1>. QED
    BY <1>1, <1>2, <1>3, <1>4, <1>5

LEMMA StutterIsSafe == ASSUME Facts, UNCHANGED vars PROVE Facts'
  BY DEF vars, init, wire, beat, timers, page, Facts, Rest, RestTypes, NothingOutlives, ConnectedIsStarted,
       PageKeepsTrying, SessionHasHeartbeat, SentCanBeAnswered, OwnedIsCounted,
       ReconnectSocket, isConnectedOrReconnecting

LEMMA InvariantHolds == Spec => []IInv
  <1>1. ASSUME Init PROVE IInv
    <2>1. Flags
      BY <1>1, Zenon DEF Init, Flags
    <2>2. Facts
      BY <1>1 DEF Init, Facts, Rest, RestTypes, NothingOutlives, ConnectedIsStarted,
       PageKeepsTrying, SessionHasHeartbeat, SentCanBeAnswered, OwnedIsCounted,
       ReconnectSocket, isConnectedOrReconnecting
    <2>. QED
      BY <2>1, <2>2, Parts
  <1>2. ASSUME IInv, [Next]_vars PROVE IInv'
    <2>1. Flags /\ Facts
      BY <1>2, Parts
    <2>2. Flags'
      BY <1>2, <2>1, FlagsStay
    <2>3. Facts'
      BY <1>2, <2>1, StartingIsSafe, OtherStopsAreSafe, SocketClosesSafely,
         ReconnectFiresSafely, BeatIsSafe, PingIsSafe, SocketAndCallsAreSafe,
         StutterIsSafe DEF Next
    <2>4. (IInv <=> Flags /\ Facts)'
      BY Parts, PTL
    <2>. QED
      BY <2>2, <2>3, <2>4
  <1>. QED
    BY <1>1, <1>2, PTL DEF Spec

(* However often the page connects, loses its sockets, is stopped and sleeps,  *)
(* its variables keep their types.                                             *)
THEOREM JsTypeCorrect == Spec => []TypeOK
  BY InvariantHolds, PTL DEF IInv

(* No socket, timer or request outlives its session, and a lost socket has the *)
(* timer that replaces it.                                                     *)
THEOREM NothingIsLeft == Spec => []NothingOutlives
  BY InvariantHolds, PTL DEF IInv

(* The connection is connected only by a start request that succeeded.         *)
THEOREM ConnectedWasStarted == Spec => []ConnectedIsStarted
  BY InvariantHolds, PTL DEF IInv

(* A page that was connected once is never left disconnected.                  *)
THEOREM PageNeverGivesUp == Spec => []PageKeepsTrying
  BY InvariantHolds, PTL DEF IInv

(* A connection that works has a heartbeat that stop() can clear.              *)
THEOREM HeartbeatIsThere == Spec => []SessionHasHeartbeat
  BY InvariantHolds, PTL DEF IInv

(* An invocation that was sent keeps its callback only while the connection is *)
(* connected.                                                                  *)
THEOREM SentIsAnswerable == Spec => []SentCanBeAnswered
  BY InvariantHolds, PTL DEF IInv

(* If the computer never sleeps beyond the reconnect window, there is the one  *)
(* heartbeat of the session and no other.                                      *)
THEOREM HeartbeatIsOne ==
  ASSUME MaySleep = FALSE
  PROVE  Spec => []HeartbeatOfSession
  <1>. USE DEF HeartbeatOfSession, isConnectedOrReconnecting
  <1>1. Init => HeartbeatOfSession
    BY DEF Init
  <1>2. ASSUME IInv, HeartbeatOfSession, [Next]_vars PROVE HeartbeatOfSession'
    <2>. DEFINE Stop == \E p \in {promise, rejected} : stop(p) /\ UNCHANGED page
    <2>1. CASE Stop
      <3>1. PICK p \in {promise, rejected} : stop(p) /\ UNCHANGED page
        BY <2>1
      <3>2. ~isConnectedOrReconnecting'
        BY <1>2, <3>1, StopLeavesNothing DEF stop
      <3>3. beats' = 0
        BY <1>2, <3>1 DEF stop, clearBeat, IInv, TypeOK, SessionHasHeartbeat,
           OwnedIsCounted
      <3>. QED
        BY <3>2, <3>3
    <2>2. CASE ~Stop
      <3>1. CASE started
        BY <1>2, <3>1 DEF started, IInv, NothingOutlives, ConnectedIsStarted
      <3>2. CASE ~started
        <4>. USE <1>2, <2>2, <3>2 DEF init, wire, beat, timers
        <4>1. UNCHANGED beats
          <5>1. ~beatAfterSleep
            BY DEF beatAfterSleep, slept
          <5>2. CASE \/ loadHub \/ scriptFails \/ connectHub
                     \/ negotiated \/ protocolIncompatible \/ initReceived
            BY <5>2 DEF loadHub, scriptFails, connectHub, negotiated, protocolIncompatible,
               initReceived
          <5>3. CASE \/ negotiateFails \/ startFails \/ connectTimesOut \/ badMessage
                     \/ onReconnectTimeout \/ userStops
            BY <5>3 DEF negotiateFails, startFails, connectTimesOut, badMessage,
               onReconnectTimeout, userStops
          <5>4. CASE socketOpens \/ staleCloses \/ addInvoke \/ invoke \/ resultArrives
            BY <5>4 DEF socketOpens, staleCloses, addInvoke, invoke, resultArrives
          <5>5. CASE socketCloses \/ reconnectFires
            BY <5>5 DEF socketCloses, reconnect, reconnectFires
          <5>6. CASE beatFires \/ pingServer \/ pingAnswered
            BY <5>6 DEF beatFires, beatAgain, pingServer, pingAnswered
          <5>. QED
            BY <5>1, <5>2, <5>3, <5>4, <5>5, <5>6 DEF Next, vars
        <4>2. isConnectedOrReconnecting' <=> isConnectedOrReconnecting
          <5>1. ~beatAfterSleep
            BY DEF beatAfterSleep, slept
          <5>2. CASE \/ loadHub \/ scriptFails \/ connectHub
                     \/ negotiated \/ protocolIncompatible \/ initReceived
            BY <5>2 DEF loadHub, scriptFails, connectHub, negotiated, protocolIncompatible,
               initReceived
          <5>3. CASE \/ negotiateFails \/ startFails \/ connectTimesOut \/ badMessage
                     \/ onReconnectTimeout \/ userStops
            BY <5>3 DEF negotiateFails, startFails, connectTimesOut, badMessage,
               onReconnectTimeout, userStops
          <5>4. CASE socketOpens \/ staleCloses \/ addInvoke \/ invoke \/ resultArrives
            BY <5>4 DEF socketOpens, stateOnceOpen, staleCloses, addInvoke, invoke,
               resultArrives
          <5>5. CASE socketCloses
            BY <5>5 DEF socketCloses, reconnect
          <5>6. CASE reconnectFires
            BY <5>6 DEF reconnectFires, IInv, NothingOutlives
          <5>7. CASE beatFires \/ pingServer \/ pingAnswered
            BY <5>7 DEF beatFires, pingServer, pingAnswered
          <5>. QED
            BY <5>1, <5>2, <5>3, <5>4, <5>5, <5>6, <5>7 DEF Next, vars
        <4>. QED
          BY <4>1, <4>2
      <3>. QED
        BY <3>1, <3>2
    <2>. QED
      BY <2>1, <2>2
  <1>. QED
    BY <1>1, <1>2, InvariantHolds, PTL DEF Spec

(* Someone waits for a start that is not settled, and a page whose connection  *)
(* works has a disconnected handler: what started() runs is never nothing.     *)
StartIsAwaited ==
    /\ promise = "pending" => done > 0
    /\ isConnectedOrReconnecting => handlers > 0

(* What stop() does to the state is the end of a session.                      *)
LEMMA StopEnds ==
  ASSUME IInv, NEW p \in {promise, rejected}, stopBut(p), UNCHANGED page
  PROVE  /\ PageLife!End
         /\ StartIsAwaited'
         /\ ~isConnectedOrReconnecting'
  <1>1. state # "disconnected" /\ handlers' = handlers
    BY DEF stopBut, page
  <1>2. IF handlers > 0 THEN state' = "connecting" /\ promise' = "pending" /\ done' = handlers
                        ELSE state' = "disconnected" /\ promise' = "none"
    BY DEF stopBut, triggerDisconnect
  <1>3. StartIsAwaited' /\ ~isConnectedOrReconnecting'
    BY <1>1, <1>2 DEF StartIsAwaited, isConnectedOrReconnecting
  <1>4. /\ older > 0 => older' > 0
        /\ older' > 0 => older > 0 \/ promise = "pending"
    <2>1. CASE p = "pending" /\ phase \notin {"negotiate", "start"}
      <3>1. promise = "pending"
        BY <2>1 DEF rejected
      <3>2. older' = UpTo(older + done) /\ older \in Nat /\ done \in Nat
        BY <2>1 DEF stopBut, IInv, TypeOK
      <3>. QED
        BY <3>1, <3>2, UpToIsNat
    <2>2. CASE ~(p = "pending" /\ phase \notin {"negotiate", "start"})
      BY <2>2 DEF stopBut
    <2>. QED
      BY <2>1, <2>2
  <1>. QED
    BY <1>1, <1>2, <1>3, <1>4 DEF PageLife!End

(* Every task ends a session, is another step of the page's connection, or is  *)
(* none.                                                                       *)
LEMMA PageStep ==
  ASSUME IInv, StartIsAwaited, [Next]_vars
  PROVE  /\ StartIsAwaited'
         /\ PageLife!Next \/ UNCHANGED <<state, promise, older > 0, handlers > 0>>
  <1>1. CASE \E p \in {promise, rejected} : stopBut(p) /\ UNCHANGED page
    BY <1>1, StopEnds DEF PageLife!Next
  <1>2. CASE protocolIncompatible
    BY <1>2 DEF protocolIncompatible, StartIsAwaited, page, isConnectedOrReconnecting, IInv,
       NothingOutlives, ConnectedIsStarted, PageLife!Next, PageLife!Refuse
  <1>3. CASE connectHub
    <2>1. CASE state = "disconnected"
      <3>1. /\ state' = "connecting" /\ promise' = "pending" /\ done' = 1
            /\ UNCHANGED <<older, handlers>> /\ ~(handlers > 0)
        BY <1>3, <2>1 DEF connectHub, isConnectedOrReconnecting, page, IInv, PageKeepsTrying
      <3>. QED
        BY <2>1, <3>1 DEF StartIsAwaited, isConnectedOrReconnecting, PageLife!Next, PageLife!Begin
    <2>2. CASE state = "connecting"
      <3>1. /\ done' = IF promise = "pending" THEN UpTo(done + 1) ELSE done
            /\ UNCHANGED <<state, promise, older, handlers>>
        BY <1>3, <2>2 DEF connectHub, isConnectedOrReconnecting, page
      <3>2. promise = "pending" => done' > 0
        BY <3>1, UpToIsNat DEF IInv, TypeOK
      <3>. QED
        BY <3>1, <3>2 DEF StartIsAwaited, isConnectedOrReconnecting
    <2>3. CASE isConnectedOrReconnecting
      <3>1. handlers' = UpTo(handlers + 1) /\ handlers > 0 /\ UNCHANGED <<state, promise, done, older>>
        BY <1>3, <2>3 DEF connectHub, isConnectedOrReconnecting, init, StartIsAwaited
      <3>2. handlers' > 0
        BY <3>1, UpToIsNat DEF IInv, TypeOK
      <3>. QED
        BY <3>1, <3>2 DEF StartIsAwaited
    <2>. QED
      BY <1>3, <2>1, <2>2, <2>3 DEF connectHub
  <1>4. CASE started
    <2>1. promise = "pending" /\ state = "connecting" /\ done > 0
      BY <1>4 DEF started, IInv, NothingOutlives, ConnectedIsStarted, StartIsAwaited
    <2>2. handlers' = UpTo(handlers + (older + done)) /\ promise' = "resolved" /\ state' = "connected"
          /\ older' = 0
      BY <1>4, <2>1 DEF started
    <2>3. handlers' > 0
      BY <2>1, <2>2, UpToIsNat DEF IInv, TypeOK
    <2>. QED
      BY <2>1, <2>2, <2>3 DEF StartIsAwaited, PageLife!Next, PageLife!Connect
  <1>5. CASE reconnectFires /\ ~stopBut(promise)
    <2>1. isConnectedOrReconnecting /\ state' = "reconnecting" /\ UNCHANGED <<promise, done, older, handlers>>
      BY <1>5 DEF reconnectFires, stop, init, page, IInv, NothingOutlives
    <2>. QED
      BY <2>1 DEF StartIsAwaited, isConnectedOrReconnecting, PageLife!Next, PageLife!Lose
  <1>6. CASE socketOpens
    <2>1. state' = stateOnceOpen /\ UNCHANGED <<promise, done, older, handlers>>
      BY <1>6 DEF socketOpens, init, page
    <2>. QED
      BY <2>1 DEF stateOnceOpen, StartIsAwaited, isConnectedOrReconnecting, PageLife!Next, PageLife!Resume
  <1>7. CASE UNCHANGED <<state, promise, done, older, handlers>>
    BY <1>7 DEF StartIsAwaited, isConnectedOrReconnecting
  <1>8. negotiateFails \/ startFails \/ connectTimesOut \/ badMessage \/ onReconnectTimeout \/ userStops
        => \E p \in {promise, rejected} : stopBut(p) /\ UNCHANGED page
    BY DEF negotiateFails, startFails, connectTimesOut, badMessage, onReconnectTimeout, userStops, stop
  <1>9. socketCloses \/ beatFires \/ beatAfterSleep \/ pingServer \/ pingAnswered
        => \/ \E p \in {promise, rejected} : stopBut(p) /\ UNCHANGED page
           \/ UNCHANGED <<state, promise, done, older, handlers>>
    BY DEF socketCloses, reconnect, beatFires, beatAfterSleep, pingServer, pingAnswered, stop, init, page
  <1>10. loadHub \/ scriptFails \/ negotiated \/ initReceived \/ staleCloses \/ addInvoke \/ invoke \/ resultArrives \/ UNCHANGED vars
        => UNCHANGED <<state, promise, done, older, handlers>>
    BY DEF loadHub, scriptFails, negotiated, initReceived, staleCloses, addInvoke, invoke, resultArrives, vars, init, page
  <1>11. reconnectFires => UNCHANGED page
    BY DEF reconnectFires
  <1>. QED
    BY <1>1, <1>2, <1>3, <1>4, <1>5, <1>6, <1>7, <1>8, <1>9, <1>10, <1>11 DEF Next

(* A page that was connected once always has a session that is connected or    *)
(* being started; only a start that is pending is left by the end of its       *)
(* session, and the next session that connects settles every start.            *)
THEOREM ImplementsPageLife == Spec => PageSpec
  <1>1. Init => PageLife!Init /\ StartIsAwaited
    BY DEF Init, PageLife!Init, StartIsAwaited, isConnectedOrReconnecting
  <1>2. IInv /\ StartIsAwaited /\ [Next]_vars
        => StartIsAwaited' /\ [PageLife!Next]_<<state, promise, older > 0, handlers > 0>>
    BY PageStep
  <1>. QED
    BY <1>1, <1>2, InvariantHolds, PTL DEF Spec, PageSpec, PageLife!Spec, PageLife!life
================================================================================
