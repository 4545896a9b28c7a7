----------------------------- MODULE AnyUseProofs -----------------------------
(***************************************************************************)
(* A Connection whatever the application does with it: who holds           *)
(* m_stop_lock, and when a transport may be at work.                       *)
(***************************************************************************)
EXTENDS ConnectionProofs

-----------------------------------------------------------------------------
(* m_stop_lock.                                                            *)

\* Who waits for the event holds the lock, and who holds the lock between two
\* steps waits for the event.  (Last part: one name, one thread.)
LockOwned ==
    /\ \A c \in Stops : stopPc[c] = "wait" => stopLock = c
    /\ \A r \in Errors : recPc[r] = "wait" => stopLock = r
    /\ stopLock # NoOp => \/ stopLock \in Stops /\ stopPc[stopLock] = "wait"
                          \/ stopLock \in Errors /\ recPc[stopLock] = "wait"
    /\ \A r \in Errors : stopPc[r] # "idle" => recPc[r] = "done"

\* stop() takes the lock when it is free, and gives it back past the event.
LEMMA LockStop ==
  ASSUME TypeOK, LockOwned, NEW c \in Stops, StopStep(c) \/ (c \in AppStops /\ StopCall(c))
  PROVE  LockOwned'
<1> USE ConstAssumption DEF ConstAssumption, TypeOK, LockOwned, Stops, StopGoto, recVars
<1>1. CASE StopAcquire(c)
  <2>1. stopLock = NoOp /\ stopPc[c] = "lock" /\ UNCHANGED recPc
    BY <1>1 DEF StopAcquire, RefuseStop
  <2>2. \/ stopPc' = [stopPc EXCEPT ![c] = "finish"] /\ UNCHANGED stopLock
        \/ stopPc' = [stopPc EXCEPT ![c] = "done"] /\ UNCHANGED stopLock
        \/ stopPc' = [stopPc EXCEPT ![c] = "wait"] /\ stopLock' = c
    BY <1>1 DEF StopAcquire, RefuseStop, KeepToWait
  <2> QED
    BY <2>1, <2>2
<1>2. CASE StopProceed(c)
  BY <1>2 DEF StopProceed
<1>3. CASE StopDisconnect(c) \/ StopFinish(c)
  BY <1>3 DEF StopDisconnect, StopFinish
<1>4. CASE c \in AppStops /\ StopCall(c)
  BY <1>4 DEF StopCall
<1> QED
  BY <1>1, <1>2, <1>3, <1>4 DEF StopStep

\* So does reconnect().
LEMMA LockRec ==
  ASSUME TypeOK, LockOwned, NEW r \in Errors,
         RecStep(r) \/ WindowElapses(r) \/ \E c \in AppStops : CallbackStops(r, c)
  PROVE  LockOwned'
<1> USE ConstAssumption DEF ConstAssumption, TypeOK, LockOwned, Stops, RecGoto, connVars, startVars,
        dataVars, wireVars
<1>1. CASE RecAcquire(r)
  BY <1>1 DEF RecAcquire
<1>2. CASE RecProceed(r)
  <2>1. /\ recPc[r] = "wait" /\ stopLock' = NoOp /\ UNCHANGED stopPc
        /\ \E to \in {"callback", "done"} : recPc' = [recPc EXCEPT ![r] = to]
    BY <1>2 DEF RecProceed
  <2> QED
    BY <2>1
<1>3. CASE RecFailed(r)
  <2>1. /\ recPc[r] = "fail" /\ recPc' = [recPc EXCEPT ![r] = "done"] /\ UNCHANGED stopLock
        /\ \/ stopPc' = stopPc
           \/ stopPc[r] = "idle" /\ stopPc' = [stopPc EXCEPT ![r] = "lock"]
    BY <1>3 DEF RecFailed, RecStops, StopGoto
  <2> QED
    BY <2>1
<1>4. ASSUME NEW c \in AppStops, CallbackStops(r, c)
      PROVE  LockOwned'
  BY <1>4 DEF CallbackStops, StopGoto
<1>5. ASSUME NEW from \in RecPcs \ {"wait", "done"}, NEW to \in RecPcs \ {"wait"},
             RecGoto(r, from, to), UNCHANGED <<stopPc, stopLock>>
      PROVE  LockOwned'
  BY <1>5
<1>6. CASE ErrCheck(r) \/ CallbackReturns(r) \/ RecRecheck(r) \/ TryReconnect(r)
  <2> HIDE DEF RecGoto, TypeOK, LockOwned
  <2>1. \E from \in RecPcs \ {"wait", "done"}, to \in RecPcs \ {"wait"} : RecGoto(r, from, to)
    BY <1>6 DEF ErrCheck, CallbackReturns, RecRecheck, TryReconnect, RecPcs
  <2>2. UNCHANGED <<stopPc, stopLock>>
    BY <1>6 DEF ErrCheck, CallbackReturns, RecRecheck, TryReconnect
  <2> QED
    BY <1>5, <2>1, <2>2
<1>7. CASE AttemptFailed(r) \/ AttemptSucceeded(r) \/ Retry(r) \/ Wake(r)
  <2> HIDE DEF RecGoto, TypeOK, LockOwned
  <2>1. \E from \in RecPcs \ {"wait", "done"}, to \in RecPcs \ {"wait"} : RecGoto(r, from, to)
    BY <1>7 DEF AttemptFailed, AttemptSucceeded, Retry, Wake, RecPcs
  <2>2. UNCHANGED <<stopPc, stopLock>>
    BY <1>7 DEF AttemptFailed, AttemptSucceeded, Retry, Wake
  <2> QED
    BY <1>5, <2>1, <2>2
<1>8. CASE RecSucceeded(r) \/ RecSignals(r)
  <2> HIDE DEF RecGoto, TypeOK, LockOwned
  <2>1. \E from \in RecPcs \ {"wait", "done"}, to \in RecPcs \ {"wait"} : RecGoto(r, from, to)
    BY <1>8 DEF RecSucceeded, RecSignals, RecPcs
  <2>2. UNCHANGED <<stopPc, stopLock>>
    BY <1>8 DEF RecSucceeded, RecSignals
  <2> QED
    BY <1>5, <2>1, <2>2
<1>9. CASE WindowElapses(r)
  BY <1>9 DEF WindowElapses
<1> QED
  BY <1>1, <1>2, <1>3, <1>4, <1>6, <1>7, <1>8, <1>9 DEF RecStep

\* Nothing else touches it.
LEMMA LockNext ==
  ASSUME TypeOK, LockOwned, [Next]_vars
  PROVE  LockOwned'
<1> USE DEF connVars, startVars, dataVars, wireVars, recVars
<1>1. ASSUME UNCHANGED <<stopLock, stopPc, recPc>>
      PROVE  LockOwned'
  BY <1>1 DEF LockOwned
<1>2. ASSUME NEW s \in Sessions, StartStep(s)
      PROVE  LockOwned'
  BY <1>1, <1>2 DEF StartStep, StartCanceled, Negotiate, RejectNegotiation, ConnectTransport,
     ConnectTimeout, SetTransport, StartRequest, StartResponse, StartSucceeded,
     StartDropsTransport, StartDisconnects, StartSignals
<1>3. ASSUME NEW s \in Sessions,
             WsOpen(s) \/ WsFail(s) \/ MsgArrive(s) \/ MsgApply(s) \/ DropTransport(s)
      PROVE  LockOwned'
  BY <1>1, <1>3 DEF WsOpen, WsFail, MsgArrive, MsgApply, DropTransport
<1>4. ASSUME NEW s \in Sessions, NEW r \in Errors, LoopError(s, r)
      PROVE  LockOwned'
  BY <1>4, ConstAssumption DEF LoopError, RecGoto, LockOwned, TypeOK, Stops, ConstAssumption
<1>5. CASE StartCall \/ Destroy \/ UNCHANGED vars
  BY <1>1, <1>5 DEF StartCall, Destroy, vars
<1> QED
  BY <1>2, <1>3, <1>4, <1>5, LockStop, LockRec DEF Next, Stops

\* m_stop_lock is never left taken: between two steps it is held by one stop()
\* or reconnect(), which waits for the event, or by nobody.
THEOREM LockIsOwned == Spec => []LockOwned
<1>1. Init => LockOwned
  BY ConstAssumption DEF Init, LockOwned, Stops, ConstAssumption
<1>2. TypeOK /\ LockOwned /\ [Next]_vars => LockOwned'
  BY LockNext
<1> QED
  BY <1>1, <1>2, TypeCorrect, PTL DEF Spec

-----------------------------------------------------------------------------
(* The transports.                                                         *)

\* Sessions begin in order, and before its start() connects it a transport is
\* off and nobody's.
FreshInv ==
    /\ \A s \in Sessions : s > cur => startPc[s] = "idle"
    /\ \A s \in Sessions : startPc[s] \in {"idle", "negotiate", "negotiated"} =>
                              loop[s] = "off" /\ transport # s

\* A start() begins with the next number.
LEMMA FreshStartCall ==
  ASSUME TypeOK, FreshInv, StartCall
  PROVE  FreshInv'
<1> USE DEF TypeOK, Sessions
<1>1. /\ cur \in Nat /\ cur' = cur + 1 /\ UNCHANGED <<loop, transport>>
      /\ startPc' = [startPc EXCEPT ![cur + 1] = "negotiate"]
  BY DEF StartCall, wireVars
<1>2. \A s \in Sessions : startPc'[s] = IF s = cur + 1 THEN "negotiate" ELSE startPc[s]
  BY <1>1
<1> QED
  BY <1>1, <1>2 DEF FreshInv

\* start() connects the transport and later makes it the connection's.
LEMMA FreshStart ==
  ASSUME TypeOK, FreshInv, NEW s \in Sessions, StartStep(s)
  PROVE  FreshInv'
<1> USE DEF TypeOK, FreshInv, StartGoto, connVars, wireVars
<1>1. CASE StartCanceled(s) \/ Negotiate(s) \/ RejectNegotiation(s)
  BY <1>1 DEF StartCanceled, Negotiate, RejectNegotiation
<1>2. CASE ConnectTransport(s)
  BY <1>2 DEF ConnectTransport
<1>3. CASE ConnectTimeout(s) \/ SetTransport(s)
  BY <1>3 DEF ConnectTimeout, SetTransport, Sessions
<1>4. CASE StartRequest(s) \/ StartResponse(s) \/ StartSucceeded(s)
  BY <1>4 DEF StartRequest, StartResponse, StartSucceeded
<1>5. CASE StartDropsTransport(s)
  BY <1>5, ConstAssumption DEF StartDropsTransport, Sessions, ConstAssumption
<1>6. CASE StartDisconnects(s) \/ StartSignals(s)
  BY <1>6 DEF StartDisconnects, StartSignals
<1> QED
  BY <1>1, <1>2, <1>3, <1>4, <1>5, <1>6 DEF StartStep

\* A step that changes no start() keeps transports off that are off, unless they
\* are the connection's.
LEMMA FreshElsewhere ==
  ASSUME FreshInv, UNCHANGED <<startPc, cur>>, transport' \in {transport, 0},
         \A s \in Sessions : loop[s] = "off" /\ transport # s => loop'[s] = "off"
  PROVE  FreshInv'
  BY DEF FreshInv, Sessions

\* The websocket connects nothing.
LEMMA FreshWire ==
  ASSUME TypeOK, FreshInv, NEW s \in Sessions,
         \/ WsOpen(s) \/ WsFail(s) \/ MsgArrive(s) \/ MsgApply(s) \/ DropTransport(s)
         \/ \E r \in Errors : LoopError(s, r)
  PROVE  FreshInv'
<1> USE DEF TypeOK, connVars, startVars
<1>1. /\ UNCHANGED <<startPc, cur, transport>>
      /\ \A t \in Sessions : t # s => loop'[t] = loop[t]
  BY DEF WsOpen, WsFail, MsgArrive, MsgApply, DropTransport, LoopError, LoopEnds
<1>2. loop[s] = "off" => loop'[s] = "off"
  BY DEF WsOpen, WsFail, MsgArrive, MsgApply, DropTransport, LoopError, LoopEnds
<1> QED
  BY <1>1, <1>2, FreshElsewhere

\* stop() disconnects the connection's transport, in whatever state it is.
LEMMA FreshStop ==
  ASSUME TypeOK, FreshInv, NEW c \in Stops, StopStep(c) \/ StopCall(c)
  PROVE  FreshInv'
<1> USE DEF TypeOK, connVars, startVars, wireVars
<1>1. CASE StopDisconnect(c)
  <2>1. /\ transport \in Sessions /\ UNCHANGED <<startPc, cur, transport>>
        /\ loop' = [loop EXCEPT ![transport] = Disconnected(@)]
    BY <1>1 DEF StopDisconnect
  <2>2. \A t \in Sessions : loop[t] = "off" => loop'[t] = "off"
    BY <2>1 DEF Disconnected
  <2> QED
    BY <2>1, <2>2, FreshElsewhere
<1>2. CASE UNCHANGED <<loop, startPc, cur>> /\ transport' \in {transport, 0}
  BY <1>2, FreshElsewhere
<1> QED
  BY <1>1, <1>2 DEF StopStep, StopAcquire, StopProceed, StopFinish, CloseConnection, StopCall

\* A reconnect attempt connects the connection's own transport.
LEMMA FreshRec ==
  ASSUME TypeOK, FreshInv, NEW r \in Errors,
         RecStep(r) \/ WindowElapses(r) \/ \E c \in AppStops : CallbackStops(r, c)
  PROVE  FreshInv'
<1> USE DEF TypeOK, connVars, startVars, wireVars
<1>1. CASE TryReconnect(r) /\ loop' # loop
  <2>1. /\ UNCHANGED <<startPc, cur, transport>>
        /\ loop' = [loop EXCEPT ![transport] = "connecting"]
    BY <1>1 DEF TryReconnect
  <2> QED
    BY <2>1, FreshElsewhere
<1>2. CASE AttemptFailed(r)
  <2>1. /\ UNCHANGED <<startPc, cur, transport>>
        /\ loop' = [loop EXCEPT ![recSess[r]] = "off"]
    BY <1>2 DEF AttemptFailed
  <2>2. \A t \in Sessions : loop[t] = "off" => loop'[t] = "off"
    BY <2>1
  <2> QED
    BY <2>1, <2>2, FreshElsewhere
<1>3. CASE UNCHANGED <<loop, startPc, cur, transport>>
  BY <1>3, FreshElsewhere
<1>4. ErrCheck(r) \/ RecAcquire(r) \/ RecProceed(r) \/ CallbackReturns(r) \/ RecRecheck(r) =>
         UNCHANGED <<loop, startPc, cur, transport>>
  BY DEF ErrCheck, RecAcquire, RecProceed, CallbackReturns, RecRecheck
<1>5. AttemptSucceeded(r) \/ Retry(r) \/ Wake(r) \/ RecSucceeded(r) \/ RecSignals(r) =>
         UNCHANGED <<loop, startPc, cur, transport>>
  BY DEF AttemptSucceeded, Retry, Wake, RecSucceeded, RecSignals
<1>6. RecFailed(r) \/ WindowElapses(r) \/ (\E c \in AppStops : CallbackStops(r, c)) =>
         UNCHANGED <<loop, startPc, cur, transport>>
  BY DEF RecFailed, WindowElapses, CallbackStops
<1>7. TryReconnect(r) => UNCHANGED <<startPc, cur, transport>>
  BY DEF TryReconnect
<1> QED
  BY <1>1, <1>2, <1>3, <1>4, <1>5, <1>6, <1>7 DEF RecStep

LEMMA FreshNext ==
  ASSUME TypeOK, FreshInv, [Next]_vars
  PROVE  FreshInv'
<1>1. CASE StartCall
  BY <1>1, FreshStartCall
<1>2. ASSUME NEW s \in Sessions, StartStep(s)
      PROVE  FreshInv'
  BY <1>2, FreshStart
<1>3. CASE Destroy
  <2>1. UNCHANGED <<startPc, cur>> /\ transport' = 0
    BY <1>3 DEF Destroy, startVars
  <2>2. \A s \in Sessions : \/ loop'[s] = loop[s]
                            \/ loop'[s] = Disconnected(loop[s])
    BY <1>3 DEF Destroy
  <2>3. \A s \in Sessions : loop[s] = "off" => loop'[s] = "off"
    BY <2>2 DEF Disconnected
  <2> QED
    BY <2>1, <2>3, FreshElsewhere
<1>4. CASE UNCHANGED vars
  BY <1>4, FreshElsewhere DEF vars, connVars, startVars, wireVars
<1> QED
  BY <1>1, <1>2, <1>3, <1>4, FreshWire, FreshStop, FreshRec DEF Next, Stops

===============================================================================
