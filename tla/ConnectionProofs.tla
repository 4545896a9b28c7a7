--------------------------- MODULE ConnectionProofs ---------------------------
(***************************************************************************)
(* Theorems about Connection for any number of sessions, stop() calls and  *)
(* transport errors.                                                       *)
(***************************************************************************)
EXTENDS Connection, TLAPS

-----------------------------------------------------------------------------
(* The inductive invariant of a connection started once.                   *)

Stage == startPc[1]

Attempting == {"attemptStart", "attempt", "retry", "sleep", "ok", "fail"}
Active     == Attempting \cup {"callback", "lock2", "signalOk"}
Downed     == {"error", "lock", "wait", "callback", "lock2", "attemptStart",
               "retry", "sleep", "fail"}

\* There is only session 1, and before it nothing happens but destruction.
OneSession ==
    /\ cur \in {0, 1}
    /\ canceled \subseteq {1}
    /\ transport \in {0, 1}
    /\ cur = 0 <=> Stage = "idle"
    /\ \A s \in Sessions : s # 1 => startPc[s] = "idle" /\ loop[s] = "off" /\ msg[s] = "none"
    /\ cur = 0 => /\ connState = "disconnected"
                  /\ canceled = {}
                  /\ \A c \in Stops : stopPc[c] = "idle"
    /\ Stage \in {"idle", "negotiate", "negotiated"} =>
          loop[1] = "off" /\ \A r \in Errors : recPc[r] = "idle"

\* Who holds the lock, and that a failed reconnect() and its stop() are one
\* thread.
LockInv ==
    /\ \A c \in Stops : stopPc[c] = "wait" => stopLock = c
    /\ \A r \in Errors : recPc[r] = "wait" => stopLock = r
    /\ \A r \in Errors : stopPc[r] # "idle" => recPc[r] = "done"

\* The connection is connecting exactly while start() works on it, and a start
\* that has not signaled keeps the event unsignaled.
StartInv ==
    /\ connState = "connecting" <=> Stage \notin {"idle", "signal", "done"}
    /\ Stage \notin {"idle", "done"} => ~startCompleted
    /\ connState \notin {"disconnected", "connecting"} => Stage \in {"signal", "done"}
    /\ Stage \in {"startReq", "starting", "started"} => transport = 1
    /\ Stage = "dropped" => transport = 0

\* The transport is there from connected to disconnecting.
TransportInv ==
    /\ connState \in {"connected", "reconnecting", "disconnecting"} => transport = 1
    /\ connState = "disconnected" => transport = 0

\* At most one stop() tears the connection down, and as long as it uses the
\* transport the connection is disconnecting.
StopInv ==
    /\ \A c \in Stops : stopPc[c] = "wait" => connState # "disconnecting" /\ cur \in canceled
    /\ \A c \in Stops : stopPc[c] = "abort" => connState = "disconnecting"
    /\ \A c \in Stops : stopPc[c] = "finish" => connState \in {"disconnecting", "disconnected"}
    /\ \A c, d \in Stops : stopPc[c] \in {"abort", "finish"} /\ stopPc[d] \in {"abort", "finish"} =>
                              c = d \/ connState = "disconnected"
    /\ connState = "disconnecting" => \E c \in Stops : stopPc[c] \in {"abort", "finish"}

\* A session is canceled by a stop() that still waits, or is going down.
CancelInv ==
    cur \in canceled /\ connState \notin {"disconnecting", "disconnected"} =>
        \E c \in Stops : stopPc[c] = "wait"

\* At most one reconnect() is active; while it attempts, the connection is
\* reconnecting and the event unsignaled.
RecInv ==
    /\ \A q, r \in Errors : recPc[q] \in Active /\ recPc[r] \in Active => q = r
    /\ \A r \in Errors :
          /\ recPc[r] \in Active => Stage = "done"
          /\ recPc[r] \in Attempting /\ alive => connState = "reconnecting" /\ ~startCompleted
          /\ recPc[r] = "signalOk" => connState = "connected" /\ ~startCompleted
          /\ recPc[r] \in {"callback", "lock2"} => connState # "connected"
          /\ recPc[r] = "attempt" => recSess[r] = 1

\* A reconnect() that has not yet reopened the loop is alone and the loop off.
LoopInv ==
    /\ \A r \in Errors : recPc[r] \in Downed => loop[1] = "off"
    /\ \A q, r \in Errors : recPc[q] \in Downed /\ recPc[r] \in Downed => q = r
    /\ \A r \in Errors : recPc[r] # "threw"

\* A destroyed connection is not held.
AliveInv == ~alive => ~StrongHolders /\ connState = "disconnected"

IInv == /\ TypeOK /\ OneSession /\ LockInv /\ StartInv /\ TransportInv
        /\ StopInv /\ CancelInv /\ RecInv /\ LoopInv /\ AliveInv

-----------------------------------------------------------------------------
(* Type correctness, by action group.  TypeOK alone is not inductive: a    *)
(* stop() that finds the connection other than disconnected cancels        *)
(* session cur, so there must be one.                                      *)

TypeInv == TypeOK /\ (cur = 0 => connState = "disconnected")

\* The steps of start() keep every variable in its type.
LEMMA TypeStart ==
  ASSUME TypeInv, NEW s \in Sessions, StartCall \/ StartStep(s)
  PROVE  TypeInv'
<1> USE ConstAssumption DEF TypeInv, TypeOK, ConnStates, StartPcs, StopPcs, RecPcs, Stops, Sessions,
              connVars, dataVars, startVars, wireVars, recVars, StartGoto, StopGoto, RecGoto
<1>1. CASE StartCall
  <2>1. cur + 1 \in Sessions /\ cur' = cur + 1
    BY <1>1 DEF StartCall
  <2>2. /\ startCompleted' \in BOOLEAN /\ token' = 0 /\ cursor' = 0
        /\ connState' \in ConnStates
    BY <1>1 DEF StartCall, ClearSession
  <2>3. startPc' \in [Sessions -> StartPcs]
    BY <1>1, <2>1 DEF StartCall
  <2> QED
    BY <1>1, <2>1, <2>2, <2>3 DEF StartCall
<1>2. CASE StartCanceled(s)
  BY <1>2 DEF StartCanceled
<1>3. CASE Negotiate(s)
  BY <1>3 DEF Negotiate
<1>4. CASE RejectNegotiation(s)
  BY <1>4 DEF RejectNegotiation
<1>5. CASE ConnectTransport(s)
  BY <1>5 DEF ConnectTransport
<1>6. CASE ConnectTimeout(s)
  BY <1>6 DEF ConnectTimeout, Settle
<1>7. CASE SetTransport(s)
  BY <1>7 DEF SetTransport
<1>8. CASE StartRequest(s)
  BY <1>8 DEF StartRequest
<1>9. CASE StartResponse(s)
  BY <1>9 DEF StartResponse
<1>10. CASE StartSucceeded(s)
  BY <1>10 DEF StartSucceeded
<1>11. CASE StartDropsTransport(s)
  BY <1>11 DEF StartDropsTransport
<1>12. CASE StartDisconnects(s)
  BY <1>12 DEF StartDisconnects
<1>13. CASE StartSignals(s)
  BY <1>13 DEF StartSignals
<1> QED
  BY <1>1, <1>2, <1>3, <1>4, <1>5, <1>6, <1>7, <1>8, <1>9, <1>10, <1>11,
     <1>12, <1>13 DEF StartStep

\* So do the websocket and its messages.
LEMMA TypeWire ==
  ASSUME TypeInv, NEW s \in Sessions,
         \/ WsOpen(s) \/ WsFail(s) \/ MsgArrive(s) \/ MsgApply(s) \/ DropTransport(s)
         \/ \E r \in Errors : LoopError(s, r)
  PROVE  TypeInv'
<1> USE ConstAssumption DEF TypeInv, TypeOK, ConnStates, StartPcs, StopPcs, RecPcs, Stops, Sessions,
              connVars, dataVars, startVars, wireVars, recVars, StartGoto, StopGoto, RecGoto
<1>1. CASE WsOpen(s)
  BY <1>1 DEF WsOpen
<1>2. CASE WsFail(s)
  BY <1>2 DEF WsFail, Settle
<1>3. CASE MsgArrive(s)
  BY <1>3 DEF MsgArrive
<1>4. CASE MsgApply(s)
  BY <1>4 DEF MsgApply, Settle
<1>5. CASE DropTransport(s)
  BY <1>5 DEF DropTransport
<1>6. ASSUME NEW r \in Errors, LoopError(s, r)
      PROVE  TypeInv'
  BY <1>6 DEF LoopError, LoopEnds
<1> QED
  BY <1>1, <1>2, <1>3, <1>4, <1>5, <1>6

\* So does stop().
LEMMA TypeStop ==
  ASSUME TypeInv, NEW c \in Stops, StopStep(c) \/ (c \in AppStops /\ StopCall(c))
  PROVE  TypeInv'
<1> USE ConstAssumption DEF TypeInv, TypeOK, ConnStates, StartPcs, StopPcs, RecPcs, Stops, Sessions,
              connVars, dataVars, startVars, wireVars, recVars, StartGoto, StopGoto, RecGoto
<1>1. CASE StopAcquire(c)
  <2>1. CASE connState \in {"disconnected", "disconnecting"}
    <3>1. /\ \E to \in {"finish", "done"} : stopPc' = [stopPc EXCEPT ![c] = to]
          /\ stopPc[c] = "lock"
          /\ connState = "disconnecting" => stopPc' = [stopPc EXCEPT ![c] = "done"]
          /\ UNCHANGED <<canceled, stopLock>>
      BY <1>1, <2>1 DEF StopAcquire, RefuseStop
    <3> QED
      BY <1>1, <2>1, <3>1 DEF StopAcquire
  <2>2. CASE connState \notin {"disconnected", "disconnecting"}
    <3>1. cur \in Sessions /\ canceled' = canceled \cup {cur} /\ stopLock' = c
      BY <1>1, <2>2 DEF StopAcquire, CancelSession, KeepToWait
    <3>2. stopPc' \in [Stops -> StopPcs]
      BY <1>1, <2>2 DEF StopAcquire
    <3> QED
      BY <1>1, <3>1, <3>2 DEF StopAcquire
  <2> QED
    BY <2>1, <2>2
<1>2. CASE StopProceed(c)
  <2>1. connState' \in ConnStates /\ (cur = 0 => connState' = "disconnected")
    BY <1>2 DEF StopProceed
  <2>2. PICK to \in StopPcs : stopPc' = [stopPc EXCEPT ![c] = to]
    BY <1>2 DEF StopProceed
  <2> QED
    BY <1>2, <2>1, <2>2 DEF StopProceed
<1>3. CASE StopDisconnect(c)
  BY <1>3 DEF StopDisconnect, Disconnected
<1>4. CASE StopFinish(c)
  BY <1>4 DEF StopFinish, CloseConnection
<1>5. CASE StopCall(c)
  BY <1>5 DEF StopCall
<1> QED
  BY <1>1, <1>2, <1>3, <1>4, <1>5 DEF StopStep

\* So does reconnect().
LEMMA TypeRec ==
  ASSUME TypeInv, NEW r \in Errors,
         RecStep(r) \/ WindowElapses(r) \/ \E c \in AppStops : CallbackStops(r, c)
  PROVE  TypeInv'
<1> USE ConstAssumption DEF TypeInv, TypeOK, ConnStates, StartPcs, StopPcs, RecPcs, Stops, Sessions,
              connVars, dataVars, startVars, wireVars, recVars, StartGoto, StopGoto, RecGoto
<1>1. CASE ErrCheck(r)
  <2>1. recPc' \in [Errors -> RecPcs]
    BY <1>1 DEF ErrCheck
  <2>2. tce' \in [Sessions -> {"unset", "set", "failed"}]
    <3>1. CASE UNCHANGED tce
      BY <3>1
    <3>2. CASE Settle(recSess[r], "failed")
      BY <3>2 DEF Settle
    <3> QED
      BY <1>1, <3>1, <3>2 DEF ErrCheck
  <2> QED
    BY <1>1, <2>1, <2>2 DEF ErrCheck
<1>2. CASE RecAcquire(r)
  BY <1>2 DEF RecAcquire
<1>3. CASE RecProceed(r)
  <2>1. PICK to \in RecPcs : recPc' = [recPc EXCEPT ![r] = to]
    BY <1>3 DEF RecProceed
  <2> HIDE DEF RecPcs
  <2> QED
    BY <1>3, <2>1 DEF RecProceed
<1>4. CASE CallbackReturns(r)
  <2>1. PICK to \in RecPcs : recPc' = [recPc EXCEPT ![r] = to]
    BY <1>4 DEF CallbackReturns
  <2> HIDE DEF RecPcs
  <2> QED
    BY <1>4, <2>1 DEF CallbackReturns
<1>5. CASE RecRecheck(r)
  <2>1. PICK to \in RecPcs : recPc' = [recPc EXCEPT ![r] = to]
    BY <1>5 DEF RecRecheck, ResetEvent
  <2> HIDE DEF RecPcs
  <2> QED
    BY <1>5, <2>1 DEF RecRecheck, ResetEvent
<1>6. CASE TryReconnect(r)
  <2>1. PICK to \in RecPcs : recPc' = [recPc EXCEPT ![r] = to]
    BY <1>6 DEF TryReconnect
  <2>2. transport \in Sessions
    BY <1>6 DEF TryReconnect
  <2>3. loop' \in [Sessions -> {"off", "connecting", "closing", "live"}]
    BY <1>6, <2>2 DEF TryReconnect
  <2>4. recSess' \in [Errors -> Sessions \cup {0}]
    BY <1>6, <2>2 DEF TryReconnect
  <2> HIDE DEF RecPcs
  <2> QED
    BY <1>6, <2>1, <2>3, <2>4 DEF TryReconnect
<1>7. CASE AttemptFailed(r)
  <2>1. loop' \in [Sessions -> {"off", "connecting", "closing", "live"}]
    BY <1>7 DEF AttemptFailed
  <2>2. recPc' \in [Errors -> RecPcs]
    BY <1>7 DEF AttemptFailed
  <2> QED
    BY <1>7, <2>1, <2>2 DEF AttemptFailed
<1>8. CASE AttemptSucceeded(r)
  BY <1>8 DEF AttemptSucceeded
<1>9. CASE Retry(r)
  BY <1>9 DEF Retry
<1>10. CASE Wake(r)
  <2>1. PICK to \in RecPcs : recPc' = [recPc EXCEPT ![r] = to]
    BY <1>10 DEF Wake
  <2> HIDE DEF RecPcs
  <2> QED
    BY <1>10, <2>1 DEF Wake
<1>11. CASE RecSucceeded(r)
  BY <1>11 DEF RecSucceeded
<1>12. CASE RecSignals(r)
  BY <1>12 DEF RecSignals
<1>13. CASE RecFailed(r)
  <2>1. recPc' \in [Errors -> RecPcs]
    BY <1>13 DEF RecFailed
  <2>2. stopPc' \in [Stops -> StopPcs] /\ startCompleted' \in BOOLEAN
    BY <1>13 DEF RecFailed, RecStops
  <2> QED
    BY <1>13, <2>1, <2>2 DEF RecFailed
<1>14. CASE WindowElapses(r)
  BY <1>14 DEF WindowElapses
<1>15. ASSUME NEW c \in AppStops, CallbackStops(r, c)
       PROVE  TypeInv'
  BY <1>15 DEF CallbackStops
<1> QED
  BY <1>1, <1>2, <1>3, <1>4, <1>5, <1>6, <1>7, <1>8, <1>9, <1>10, <1>11,
     <1>12, <1>13, <1>14, <1>15 DEF RecStep

\* Every step keeps the type invariant.
LEMMA TypeNext == TypeInv /\ [Next]_vars => TypeInv'
<1> SUFFICES ASSUME TypeInv, [Next]_vars
             PROVE  TypeInv'
  OBVIOUS
<1>1. CASE StartCall
  <2>1. PICK s \in Sessions : TRUE
    BY ConstAssumption DEF Sessions
  <2> QED
    BY <1>1, <2>1, TypeStart
<1>2. ASSUME NEW s \in Sessions, StartStep(s)
      PROVE  TypeInv'
  BY <1>2, TypeStart
<1>3. ASSUME NEW s \in Sessions,
             \/ WsOpen(s) \/ WsFail(s) \/ MsgArrive(s) \/ MsgApply(s) \/ DropTransport(s)
             \/ \E r \in Errors : LoopError(s, r)
      PROVE  TypeInv'
  BY <1>3, TypeWire
<1>4. ASSUME NEW c \in Stops, StopStep(c) \/ (c \in AppStops /\ StopCall(c))
      PROVE  TypeInv'
  BY <1>4, TypeStop
<1>5. ASSUME NEW r \in Errors,
             RecStep(r) \/ WindowElapses(r) \/ \E c \in AppStops : CallbackStops(r, c)
      PROVE  TypeInv'
  BY <1>5, TypeRec
<1>6. CASE Destroy
  BY <1>6 DEF Destroy, Disconnected, TypeInv, TypeOK, ConnStates, dataVars, startVars, recVars
<1>7. CASE UNCHANGED vars
  BY <1>7 DEF vars, connVars, dataVars, startVars, wireVars, recVars, TypeInv, TypeOK
<1> QED
  BY <1>1, <1>2, <1>3, <1>4, <1>5, <1>6, <1>7 DEF Next, Stops

\* The constructor leaves every variable in its type.
LEMMA TypeInit == Init => TypeInv
<1> SUFFICES ASSUME Init
             PROVE  TypeInv
  OBVIOUS
<1> USE DEF Init
<1>1. /\ startPc \in [Sessions -> StartPcs] /\ tce \in [Sessions -> {"unset", "set", "failed"}]
      /\ loop \in [Sessions -> {"off", "connecting", "closing", "live"}]
      /\ msg \in [Sessions -> {"none", "init", "data"}]
  BY DEF StartPcs
<1>2. stopPc \in [Stops -> StopPcs]
  BY DEF StopPcs
<1>3. /\ recPc \in [Errors -> RecPcs] /\ recSess \in [Errors -> Sessions \cup {0}]
      /\ recCts \in [Errors -> Sessions \cup {0}] /\ inner \in [Errors -> AppStops \cup {NoOp}]
  BY DEF RecPcs
<1> QED
  BY <1>1, <1>2, <1>3 DEF TypeInv, TypeOK, ConnStates

\* However often the connection is started and stopped, its variables keep
\* their types; in particular only sessions that exist are ever canceled.
THEOREM TypeCorrect == Spec => []TypeOK
<1>1. TypeInv => TypeOK
  BY DEF TypeInv
<1> QED
  BY <1>1, TypeInit, TypeNext, PTL DEF Spec

-----------------------------------------------------------------------------
(* The inductive invariant, by action group.                               *)

\* Only session 1 ever takes a step.
LEMMA OnlySession1 ==
  ASSUME IInv, NEW s \in Sessions,
         \/ StartStep(s) \/ WsOpen(s) \/ WsFail(s) \/ MsgArrive(s) \/ MsgApply(s)
         \/ DropTransport(s) \/ \E r \in Errors : LoopError(s, r)
  PROVE  s = 1
  BY DEF IInv, OneSession, StartStep, StartGoto, StartCanceled, Negotiate, RejectNegotiation,
         ConnectTransport, ConnectTimeout, SetTransport, StartRequest, StartResponse,
         StartSucceeded, StartDropsTransport, StartDisconnects, StartSignals, WsOpen,
         WsFail, MsgArrive, MsgApply, DropTransport, LoopError

\* The steps of start() keep the invariant.
LEMMA InvStart ==
  ASSUME Usage = "once", IInv, TypeOK', NEW s \in Sessions, s = 1, StartCall \/ StartStep(s)
  PROVE  IInv'
<1> USE ConstAssumption DEF IInv, OneSession, LockInv, StartInv, TransportInv,
              StopInv, CancelInv, RecInv, LoopInv, AliveInv, Stage, Attempting, Active, Downed,
              StrongHolders, TypeOK, Stops, Sessions,
              connVars, dataVars, startVars, wireVars, recVars, StartGoto, StopGoto, RecGoto
<1>1. CASE StartCall
  BY <1>1 DEF StartCall, MayStart, ClearSession
<1>2. CASE StartCanceled(s)
  BY <1>2 DEF StartCanceled
<1>3. CASE Negotiate(s)
  BY <1>3 DEF Negotiate
<1>4. CASE RejectNegotiation(s)
  BY <1>4 DEF RejectNegotiation
<1>5. CASE ConnectTransport(s)
  BY <1>5 DEF ConnectTransport
<1>6. CASE ConnectTimeout(s)
  BY <1>6 DEF ConnectTimeout, Settle
<1>7. CASE SetTransport(s)
  BY <1>7 DEF SetTransport
<1>8. CASE StartRequest(s)
  BY <1>8 DEF StartRequest
<1>9. CASE StartResponse(s)
  BY <1>9 DEF StartResponse
<1>10. CASE StartSucceeded(s)
  BY <1>10 DEF StartSucceeded
<1>11. CASE StartDropsTransport(s)
  BY <1>11 DEF StartDropsTransport
<1>12. CASE StartDisconnects(s)
  BY <1>12 DEF StartDisconnects
<1>13. CASE StartSignals(s)
  BY <1>13 DEF StartSignals
<1> QED
  BY <1>1, <1>2, <1>3, <1>4, <1>5, <1>6, <1>7, <1>8, <1>9, <1>10, <1>11,
     <1>12, <1>13 DEF StartStep

\* So do the websocket and its messages.
LEMMA InvWire ==
  ASSUME IInv, TypeOK', NEW s \in Sessions, s = 1,
         \/ WsOpen(s) \/ WsFail(s) \/ MsgArrive(s) \/ MsgApply(s) \/ DropTransport(s)
         \/ \E r \in Errors : LoopError(s, r)
  PROVE  IInv'
<1> USE ConstAssumption DEF IInv, OneSession, LockInv, StartInv, TransportInv,
              StopInv, CancelInv, RecInv, LoopInv, AliveInv, Stage, Attempting, Active, Downed,
              StrongHolders, TypeOK, Stops, Sessions,
              connVars, dataVars, startVars, wireVars, recVars, StartGoto, StopGoto, RecGoto
<1>1. CASE WsOpen(s)
  BY <1>1 DEF WsOpen
<1>2. CASE WsFail(s)
  BY <1>2 DEF WsFail, Settle
<1>3. CASE MsgArrive(s)
  BY <1>3 DEF MsgArrive
<1>4. CASE MsgApply(s)
  BY <1>4 DEF MsgApply, Settle
<1>5. CASE DropTransport(s)
  BY <1>5 DEF DropTransport
<1>6. ASSUME NEW r \in Errors, LoopError(s, r)
      PROVE  IInv'
  BY <1>6 DEF LoopError, LoopEnds
<1> QED
  BY <1>1, <1>2, <1>3, <1>4, <1>5, <1>6

\* So does stop().
LEMMA InvStop ==
  ASSUME Usage = "once", IInv, TypeOK', NEW c \in Stops,
         StopStep(c) \/ (c \in AppStops /\ StopCall(c))
  PROVE  IInv'
<1> USE ConstAssumption DEF IInv, OneSession, LockInv, StartInv, TransportInv,
              StopInv, CancelInv, RecInv, LoopInv, AliveInv, Stage, Attempting, Active, Downed,
              StrongHolders, TypeOK, Stops, Sessions,
              connVars, dataVars, startVars, wireVars, recVars, StartGoto, StopGoto, RecGoto
<1>1. CASE StopAcquire(c)
  <2>1. CASE connState \in {"disconnected", "disconnecting"}
    <3>1. /\ \E to \in {"finish", "done"} : stopPc' = [stopPc EXCEPT ![c] = to]
          /\ stopPc[c] = "lock"
          /\ connState = "disconnecting" => stopPc' = [stopPc EXCEPT ![c] = "done"]
          /\ UNCHANGED <<canceled, stopLock>>
      BY <1>1, <2>1 DEF StopAcquire, RefuseStop
    <3> QED
      BY <1>1, <2>1, <3>1 DEF StopAcquire
  <2>2. CASE connState \notin {"disconnected", "disconnecting"}
    <3>1. /\ stopPc' = [stopPc EXCEPT ![c] = "wait"] /\ stopPc[c] = "lock"
          /\ canceled' = canceled \cup {cur} /\ stopLock = NoOp /\ stopLock' = c
      BY <1>1, <2>2 DEF StopAcquire, CancelSession, KeepToWait
    <3>2. OneSession' /\ StartInv' /\ TransportInv'
      BY <1>1, <2>2, <3>1 DEF StopAcquire
    <3>3. LockInv'
      BY <1>1, <2>2, <3>1 DEF StopAcquire
    <3>4. StopInv' /\ CancelInv'
      BY <1>1, <2>2, <3>1 DEF StopAcquire
    <3>5. RecInv' /\ LoopInv' /\ AliveInv'
      BY <1>1, <2>2, <3>1 DEF StopAcquire
    <3> QED
      BY <3>2, <3>3, <3>4, <3>5
  <2> QED
    BY <2>1, <2>2
<1>2. CASE StopProceed(c)
  <2>0. stopPc[c] = "wait" /\ stopLock = c /\ startCompleted
    BY <1>2 DEF StopProceed
  <2>1. connState \in {"disconnected", "connected", "reconnecting"}
    BY <2>0 DEF ConnStates
  <2>2. \A d \in Stops : d # c => stopPc[d] # "wait" /\ stopPc'[d] = stopPc[d]
    BY <1>2, <2>0 DEF StopProceed
  <2>3. \A e \in Errors : recPc[e] # "wait"
    BY <2>0
  <2>4. stopPc'[c] \in {"abort", "finish"} /\ stopLock' = NoOp
    BY <1>2 DEF StopProceed
  <2>5. OneSession' /\ StartInv' /\ AliveInv'
    BY <1>2 DEF StopProceed
  <2>6. LockInv'
    <3>1. /\ recPc' = recPc /\ \A d \in Stops : stopPc'[d] # "idle" => stopPc[d] # "idle"
          /\ \A e \in Errors : e \in Stops
          /\ \A e \in Errors : stopPc[e] # "idle" => recPc[e] = "done"
      BY <1>2, <2>0, <2>2 DEF StopProceed
    <3> HIDE DEF IInv, Stops
    <3>2. \A d \in Stops : stopPc'[d] # "wait"
      BY <2>2, <2>4
    <3>3. \A e \in Errors : recPc'[e] # "wait"
      BY <2>3, <3>1
    <3>4. \A e \in Errors : stopPc'[e] # "idle" => recPc'[e] = "done"
      BY <3>1
    <3> QED
      BY <3>2, <3>3, <3>4
  <2>7. TransportInv'
    BY <1>2, <2>1, <2>2, <2>3, <2>4 DEF StopProceed
  <2>8. StopInv' /\ CancelInv'
    <3>1. CASE connState = "disconnected"
      BY <1>2, <2>1, <2>2, <2>3, <2>4, <3>1 DEF StopProceed
    <3>2. CASE connState # "disconnected"
      BY <1>2, <2>1, <2>2, <2>3, <2>4, <3>2 DEF StopProceed
    <3> QED
      BY <3>1, <3>2
  <2>9. RecInv' /\ LoopInv'
    BY <1>2, <2>1, <2>2, <2>3, <2>4 DEF StopProceed
  <2> QED
    BY <2>5, <2>6, <2>7, <2>8, <2>9
<1>3. CASE StopDisconnect(c)
  BY <1>3 DEF StopDisconnect, Disconnected
<1>4. CASE StopFinish(c)
  BY <1>4 DEF StopFinish, CloseConnection
<1>5. CASE c \in AppStops /\ StopCall(c)
  BY <1>5 DEF StopCall, MayStop
<1> QED
  BY <1>1, <1>2, <1>3, <1>4, <1>5 DEF StopStep

\* So does reconnect().
LEMMA InvRec ==
  ASSUME IInv, TypeOK', NEW r \in Errors,
         RecStep(r) \/ WindowElapses(r) \/ \E c \in AppStops : CallbackStops(r, c)
  PROVE  IInv'
<1> USE ConstAssumption DEF IInv, OneSession, LockInv, StartInv, TransportInv,
              StopInv, CancelInv, RecInv, LoopInv, AliveInv, Stage, Attempting, Active, Downed,
              StrongHolders, TypeOK, Stops, Sessions,
              connVars, dataVars, startVars, wireVars, recVars, StartGoto, StopGoto, RecGoto
<1>1. CASE ErrCheck(r)
  <2>1. OneSession' /\ StartInv' /\ TransportInv' /\ CancelInv'
    BY <1>1 DEF ErrCheck
  <2>2. LockInv' /\ StopInv'
    BY <1>1 DEF ErrCheck
  <2>3. RecInv' /\ LoopInv'
    BY <1>1 DEF ErrCheck
  <2>4. AliveInv'
    BY <1>1 DEF ErrCheck
  <2> QED
    BY <2>1, <2>2, <2>3, <2>4
<1>2. CASE RecAcquire(r)
  BY <1>2 DEF RecAcquire
<1>3. CASE RecProceed(r)
  <2>1. stopLock = r /\ stopLock' = NoOp /\ \A e \in Errors : e # r => recPc'[e] = recPc[e]
    BY <1>3 DEF RecProceed
  <2>2. OneSession' /\ StartInv' /\ CancelInv' /\ AliveInv'
    BY <1>3 DEF RecProceed
  <2>3. LockInv'
    <3>1. \A d \in Stops : stopPc[d] # "wait" /\ stopPc'[d] = stopPc[d]
      BY <1>3, <2>1 DEF RecProceed
    <3>2. \A e \in Errors : recPc'[e] # "wait" /\ (recPc[e] = "done" => recPc'[e] = "done")
      BY <1>3, <2>1 DEF RecProceed
    <3> QED
      BY <3>1, <3>2
  <2>4. TransportInv' /\ StopInv'
    BY <1>3, <2>1 DEF RecProceed
  <2>5. RecInv'
    BY <1>3, <2>1 DEF RecProceed
  <2>6. LoopInv'
    BY <1>3 DEF RecProceed
  <2> QED
    BY <2>2, <2>3, <2>4, <2>5, <2>6
<1>4. CASE CallbackReturns(r)
  BY <1>4 DEF CallbackReturns
<1>5. CASE RecRecheck(r)
  <2>1. OneSession' /\ StartInv' /\ CancelInv' /\ AliveInv'
    BY <1>5 DEF RecRecheck, ResetEvent
  <2>2. LockInv'
    BY <1>5 DEF RecRecheck, ResetEvent
  <2>3. TransportInv' /\ StopInv'
    BY <1>5 DEF RecRecheck, ResetEvent
  <2>4. RecInv'
    BY <1>5 DEF RecRecheck, ResetEvent
  <2>5. LoopInv'
    BY <1>5 DEF RecRecheck, ResetEvent
  <2> QED
    BY <2>1, <2>2, <2>3, <2>4, <2>5
<1>6. CASE TryReconnect(r)
  <2>1. transport = 1 /\ loop[1] = "off"
    BY <1>6 DEF TryReconnect
  <2>2. OneSession' /\ StartInv' /\ CancelInv' /\ AliveInv'
    BY <1>6, <2>1 DEF TryReconnect
  <2>3. LockInv' /\ TransportInv' /\ StopInv'
    BY <1>6 DEF TryReconnect
  <2>4. RecInv'
    <3>1. CASE recPc' = [recPc EXCEPT ![r] = "fail"] /\ recSess' = recSess
      BY <1>6, <3>1 DEF TryReconnect
    <3>2. CASE recPc' = [recPc EXCEPT ![r] = "attempt"] /\ recSess' = [recSess EXCEPT ![r] = 1]
      BY <1>6, <3>2 DEF TryReconnect
    <3> QED
      BY <1>6, <2>1, <3>1, <3>2 DEF TryReconnect
  <2>5. LoopInv'
    <3>1. CASE recPc' = [recPc EXCEPT ![r] = "fail"] /\ loop' = loop
      BY <1>6, <2>1, <3>1 DEF TryReconnect
    <3>2. CASE recPc' = [recPc EXCEPT ![r] = "attempt"]
      BY <1>6, <2>1, <3>2 DEF TryReconnect
    <3> QED
      BY <1>6, <2>1, <3>1, <3>2 DEF TryReconnect
  <2> QED
    BY <2>2, <2>3, <2>4, <2>5
<1>7. CASE AttemptFailed(r)
  BY <1>7 DEF AttemptFailed
<1>8. CASE AttemptSucceeded(r)
  BY <1>8 DEF AttemptSucceeded
<1>9. CASE Retry(r)
  <2>1. OneSession' /\ StartInv' /\ CancelInv' /\ AliveInv'
    BY <1>9 DEF Retry
  <2>2. LockInv'
    BY <1>9 DEF Retry
  <2>3. TransportInv' /\ StopInv'
    BY <1>9 DEF Retry
  <2>4. RecInv'
    BY <1>9 DEF Retry
  <2>5. LoopInv'
    BY <1>9 DEF Retry
  <2> QED
    BY <2>1, <2>2, <2>3, <2>4, <2>5
<1>10. CASE Wake(r)
  <2>1. OneSession' /\ StartInv' /\ CancelInv' /\ AliveInv'
    BY <1>10 DEF Wake
  <2>2. LockInv'
    BY <1>10 DEF Wake
  <2>3. TransportInv' /\ StopInv'
    BY <1>10 DEF Wake
  <2>4. RecInv'
    BY <1>10 DEF Wake
  <2>5. LoopInv'
    BY <1>10 DEF Wake
  <2> QED
    BY <2>1, <2>2, <2>3, <2>4, <2>5
<1>11. CASE RecSucceeded(r)
  BY <1>11 DEF RecSucceeded
<1>12. CASE RecSignals(r)
  BY <1>12 DEF RecSignals
<1>13. CASE RecFailed(r)
  BY <1>13 DEF RecFailed, RecStops
<1>14. CASE WindowElapses(r)
  BY <1>14 DEF WindowElapses
<1>15. ASSUME NEW c \in AppStops, CallbackStops(r, c)
       PROVE  IInv'
  BY <1>15 DEF CallbackStops
<1> QED
  BY <1>1, <1>2, <1>3, <1>4, <1>5, <1>6, <1>7, <1>8, <1>9, <1>10, <1>11,
     <1>12, <1>13, <1>14, <1>15 DEF RecStep

\* Every step of a connection started once keeps the invariant.
LEMMA InvNext ==
  ASSUME Usage = "once", IInv, [Next]_vars
  PROVE  IInv'
<1>0. TypeOK'
  BY TypeNext DEF IInv, OneSession, TypeInv
<1>1. CASE StartCall
  <2>1. 1 \in Sessions
    BY ConstAssumption DEF Sessions
  <2> QED
    BY <1>0, <1>1, <2>1, InvStart
<1>2. ASSUME NEW s \in Sessions, StartStep(s)
      PROVE  IInv'
  BY <1>0, <1>2, OnlySession1, InvStart
<1>3. ASSUME NEW s \in Sessions,
             \/ WsOpen(s) \/ WsFail(s) \/ MsgArrive(s) \/ MsgApply(s) \/ DropTransport(s)
             \/ \E r \in Errors : LoopError(s, r)
      PROVE  IInv'
  BY <1>0, <1>3, OnlySession1, InvWire
<1>4. ASSUME NEW c \in Stops, StopStep(c) \/ (c \in AppStops /\ StopCall(c))
      PROVE  IInv'
  BY <1>0, <1>4, InvStop
<1>5. ASSUME NEW r \in Errors,
             RecStep(r) \/ WindowElapses(r) \/ \E c \in AppStops : CallbackStops(r, c)
      PROVE  IInv'
  BY <1>0, <1>5, InvRec
<1>6. CASE Destroy
  <2> USE ConstAssumption DEF Destroy, StrongHolders, Disconnected, dataVars, startVars, recVars
  <2>1. /\ connState \in {"disconnected", "connected", "reconnecting"}
        /\ \A c \in Stops : stopPc[c] \in {"idle", "done"}
    BY <1>6 DEF IInv, TypeOK, ConnStates, StartInv, StopInv, OneSession, Stage, Sessions, Stops
  <2>0. /\ Stage \in {"idle", "done"} /\ connState' = "disconnected"
        /\ transport' = 0 /\ cur' = cur /\ startPc' = startPc /\ stopPc' = stopPc
        /\ msg' = msg /\ recPc' = recPc /\ stopLock' = stopLock
        /\ 1 \in Sessions
    BY <1>6 DEF Stage, Sessions
  <2>a. OneSession'
    <3>1. canceled' \subseteq {1} /\ (cur = 0 => canceled' = {})
      BY <1>6, <2>0 DEF IInv, OneSession
    <3>2. \A s \in Sessions : loop'[s] = loop[s] \/ loop'[s] = "off" \/ s = transport
      BY <1>6 DEF IInv, TypeOK
    <3>3. \A s \in Sessions : s # 1 => loop'[s] = "off"
      BY <2>0, <3>2 DEF IInv, OneSession, Sessions
    <3>4. Stage = "idle" => loop'[1] = "off"
      BY <1>6, <2>0 DEF IInv, OneSession
    <3> QED
      BY <2>0, <3>1, <3>3, <3>4 DEF IInv, OneSession, Stage
  <2>b. LockInv'
    BY <2>0 DEF IInv, LockInv
  <2>c. StartInv' /\ TransportInv'
    BY <2>0 DEF StartInv, TransportInv, Stage
  <2>d. StopInv' /\ CancelInv'
    BY <2>0, <2>1 DEF StopInv, CancelInv
  <2>2. OneSession' /\ LockInv' /\ StartInv' /\ TransportInv' /\ StopInv' /\ CancelInv'
    BY <2>a, <2>b, <2>c, <2>d
  <2>3. RecInv' /\ LoopInv'
    BY <1>6 DEF IInv, RecInv, LoopInv, Attempting, Active, Downed, Stage, OneSession,
                Sessions, TypeOK
  <2>4. AliveInv'
    BY <1>6 DEF AliveInv
  <2> QED
    BY <1>0, <2>2, <2>3, <2>4 DEF IInv
<1>7. CASE UNCHANGED vars
  BY <1>7 DEF vars, connVars, dataVars, startVars, wireVars, recVars, IInv, TypeOK,
              OneSession, LockInv, StartInv, TransportInv, StopInv, CancelInv, RecInv,
              LoopInv, AliveInv, StrongHolders, Stage
<1> QED
  BY <1>1, <1>2, <1>3, <1>4, <1>5, <1>6, <1>7 DEF Next, Stops

\* The constructor establishes it.
LEMMA InvInit == Init => IInv
<1> SUFFICES ASSUME Init
             PROVE  IInv
  OBVIOUS
<1> USE DEF Init
<1>1. TypeOK /\ 1 \in Sessions
  BY TypeInit, ConstAssumption DEF TypeInv, Sessions
<1>2. Stage = "idle" /\ loop[1] = "off"
  BY <1>1 DEF Stage
<1>3. \A c \in Stops : stopPc[c] = "idle"
  OBVIOUS
<1>4. \A r \in Errors : recPc[r] = "idle"
  OBVIOUS
<1>5. \A r \in Errors : stopPc[r] = "idle"
  BY <1>3 DEF Stops
<1>6. OneSession
  BY <1>2, <1>3, <1>4 DEF OneSession
<1>7. LockInv /\ StopInv /\ CancelInv
  BY <1>3, <1>4, <1>5 DEF LockInv, StopInv, CancelInv
<1>8. StartInv /\ TransportInv
  BY <1>2 DEF StartInv, TransportInv
<1>9. RecInv /\ LoopInv /\ AliveInv
  BY <1>2, <1>4 DEF RecInv, LoopInv, AliveInv, Attempting, Active, Downed
<1> QED
  BY <1>1, <1>6, <1>7, <1>8, <1>9 DEF IInv

\* A connection started once satisfies the invariant in every state.
LEMMA InvHolds ==
  ASSUME Usage = "once"
  PROVE  Spec => []IInv
<1>1. IInv /\ [Next]_vars => IInv'
  BY InvNext
<1> QED
  BY <1>1, InvInit, PTL DEF Spec

-----------------------------------------------------------------------------
(* What the invariant gives.                                               *)

\* Whatever stops and transport errors overlap, a connection started once
\* dereferences m_transport only while there is one.
THEOREM TransportIsThere ==
  ASSUME Usage = "once"
  PROVE  Spec => []NoNullTransport
<1>1. IInv => NoNullTransport
  BY DEF IInv, TypeOK, OneSession, StartInv, TransportInv, StopInv, RecInv, AliveInv,
         StrongHolders, Attempting, Active, Stage, NoNullTransport, RequestsHaveTransport
<1> QED
  BY <1>1, InvHolds, PTL

\* shutdown() finds the session it waited for in a state it asserts, and the
\* assertions of start(), reconnect() and the destructor hold: nothing else
\* moves the connection out of connecting or reconnecting.
THEOREM AssertionsHold ==
  ASSUME Usage = "once"
  PROVE  Spec => []StateAssertions
<1>1. IInv => ShutdownAssertion
  BY DEF IInv, TypeOK, ConnStates, StartInv, StopInv, ShutdownAssertion, Stage
<1>2. IInv => TransitionAssertions
  BY DEF IInv, TypeOK, OneSession, StartInv, StopInv, RecInv, Attempting, Stage, StrongHolders,
         TransitionAssertions
<1>3. IInv => StateAssertions
  BY <1>1, <1>2 DEF StateAssertions
<1> QED
  BY <1>3, InvHolds, PTL

\* The event means what its waiters take it to mean.
THEOREM EventIsSettled ==
  ASSUME Usage = "once"
  PROVE  Spec => []SignaledIsSettled
<1>1. IInv => SignaledIsSettled
  BY DEF IInv, StartInv, RecInv, Attempting, Stage, SignaledIsSettled
<1> QED
  BY <1>1, InvHolds, PTL

\* A stop() that tears the connection down has the transport to itself.
THEOREM TeardownIsAlone ==
  ASSUME Usage = "once"
  PROVE  Spec => []TeardownExcludesReconnect
<1>1. IInv => TeardownExcludesReconnect
  BY DEF IInv, StopInv, RecInv, AliveInv, StrongHolders, Attempting, TeardownExcludesReconnect
<1> QED
  BY <1>1, InvHolds, PTL

\* No reconnect attempt meets a receive loop that is not canceled.
THEOREM ReconnectIsQuiet ==
  ASSUME Usage = "once"
  PROVE  Spec => []ReconnectNeverThrows
<1>1. IInv => ReconnectNeverThrows
  BY DEF IInv, LoopInv, ReconnectNeverThrows
<1> QED
  BY <1>1, InvHolds, PTL

-----------------------------------------------------------------------------
(* The connection implements its lifecycle: each step changes the state    *)
(* and the request to stop as a step of Lifecycle does, or leaves both be. *)

\* What a step that keeps the state, the session and its source is.
LEMMA LifeStutter ==
  ASSUME UNCHANGED <<connState, cur, canceled>>
  PROVE  [Life!Next]_(Life!life)
  BY DEF Life!life

\* start() begins a session, and takes it to connected or disconnected.
LEMMA LifeStart ==
  ASSUME Usage = "once", IInv, NEW s \in Sessions, s = 1, StartCall \/ StartStep(s)
  PROVE  [Life!Next]_(Life!life)
<1> USE ConstAssumption DEF IInv, connVars, dataVars, startVars, wireVars, recVars
<1>1. CASE StartCall
  <2>1. connState = "disconnected" /\ connState' = "connecting"
    BY <1>1 DEF StartCall
  <2>2. cur' \notin canceled'
    BY <1>1 DEF StartCall, OneSession, TypeOK, Sessions, MayStart
  <2> QED
    BY <2>1, <2>2 DEF Life!Next, Life!BeginStart
<1>2. CASE StartSucceeded(s)
  BY <1>2 DEF StartSucceeded, StartGoto, StartInv, Stage, Life!Next, Life!StartOk
<1>3. CASE StartDisconnects(s)
  BY <1>3 DEF StartDisconnects, StartGoto, StartInv, Stage, Life!Next, Life!StartFail
<1>4. CASE UNCHANGED <<connState, cur, canceled>>
  BY <1>4, LifeStutter
<1>5. StartCanceled(s) \/ Negotiate(s) \/ RejectNegotiation(s) \/ ConnectTransport(s) =>
         UNCHANGED <<connState, cur, canceled>>
  BY DEF StartCanceled, Negotiate, RejectNegotiation, ConnectTransport
<1>6. ConnectTimeout(s) \/ SetTransport(s) \/ StartRequest(s) \/ StartResponse(s) =>
         UNCHANGED <<connState, cur, canceled>>
  BY DEF ConnectTimeout, SetTransport, StartRequest, StartResponse
<1>7. StartDropsTransport(s) \/ StartSignals(s) => UNCHANGED <<connState, cur, canceled>>
  BY DEF StartDropsTransport, StartSignals
<1> QED
  BY <1>1, <1>2, <1>3, <1>4, <1>5, <1>6, <1>7 DEF StartStep

\* stop() requests a stop, begins to disconnect, and ends disconnecting.
LEMMA LifeStop ==
  ASSUME IInv, NEW c \in Stops, StopStep(c) \/ (c \in AppStops /\ StopCall(c))
  PROVE  [Life!Next]_(Life!life)
<1> USE ConstAssumption DEF IInv, connVars, dataVars, startVars, wireVars, recVars
<1>1. CASE StopAcquire(c)
  <2>1. CASE connState \in {"disconnected", "disconnecting"}
    BY <1>1, <2>1, LifeStutter DEF StopAcquire
  <2>2. CASE connState \notin {"disconnected", "disconnecting"}
    <3>1. connState \in {"connecting", "connected", "reconnecting"}
      BY <2>2 DEF TypeOK, ConnStates
    <3>2. cur' \in canceled' /\ connState' = connState
      BY <1>1, <2>2 DEF StopAcquire, CancelSession
    <3> QED
      BY <3>1, <3>2 DEF Life!Next, Life!RequestStop
  <2> QED
    BY <2>1, <2>2
<1>2. CASE StopProceed(c)
  <2>1. CASE connState = "disconnected"
    BY <1>2, <2>1, LifeStutter DEF StopProceed
  <2>2. CASE connState # "disconnected"
    <3>1. connState' = "disconnecting" /\ stopPc[c] = "wait" /\ startCompleted
          /\ UNCHANGED <<cur, canceled>>
      BY <1>2, <2>2 DEF StopProceed, StopGoto
    <3>2. connState # "connecting"
      BY <3>1 DEF StartInv
    <3>3. connState \in {"connected", "reconnecting"} /\ cur \in canceled
      BY <2>2, <3>1, <3>2 DEF TypeOK, ConnStates, StopInv
    <3> QED
      BY <3>1, <3>3 DEF Life!Next, Life!BeginDisconnect
  <2> QED
    BY <2>1, <2>2
<1>3. CASE StopDisconnect(c)
  BY <1>3, LifeStutter DEF StopDisconnect
<1>4. CASE StopFinish(c)
  <2>1. CASE connState = "disconnecting"
    BY <1>4, <2>1 DEF StopFinish, CloseConnection, Life!Next, Life!EndDisconnect
  <2>2. CASE connState # "disconnecting"
    BY <1>4, <2>2, LifeStutter DEF StopFinish
  <2> QED
    BY <2>1, <2>2
<1>5. CASE StopCall(c)
  BY <1>5, LifeStutter DEF StopCall
<1> QED
  BY <1>1, <1>2, <1>3, <1>4, <1>5 DEF StopStep

\* reconnect() declares the connection lost only if no stop() has been taken,
\* for such a stop() holds the lock until it has disconnected.
LEMMA LifeRec ==
  ASSUME IInv, NEW r \in Errors,
         RecStep(r) \/ WindowElapses(r) \/ \E c \in AppStops : CallbackStops(r, c)
  PROVE  [Life!Next]_(Life!life)
<1> USE ConstAssumption DEF IInv, connVars, dataVars, startVars, wireVars, recVars
<1>1. CASE RecProceed(r)
  <2>1. CASE connState = "connected"
    <3>1. connState' = "reconnecting" /\ recPc[r] = "wait" /\ UNCHANGED <<cur, canceled>>
      BY <1>1, <2>1 DEF RecProceed, RecGoto
    <3>2. \A c \in Stops : stopPc[c] # "wait"
      <4> SUFFICES ASSUME NEW c \in Stops, stopPc[c] = "wait"
                   PROVE  FALSE
        OBVIOUS
      <4>1. c = r
        BY <3>1 DEF LockInv
      <4> QED
        BY <3>1, <4>1 DEF LockInv
    <3>3. cur \notin canceled
      BY <2>1, <3>2 DEF CancelInv
    <3> QED
      BY <2>1, <3>1, <3>3 DEF Life!Next, Life!Lost
  <2>2. CASE connState # "connected"
    BY <1>1, <2>2, LifeStutter DEF RecProceed
  <2> QED
    BY <2>1, <2>2
<1>2. CASE RecSucceeded(r)
  <2>1. CASE alive /\ connState = "reconnecting"
    BY <1>2, <2>1 DEF RecSucceeded, Life!Next, Life!Resume
  <2>2. CASE ~(alive /\ connState = "reconnecting")
    BY <1>2, <2>2, LifeStutter DEF RecSucceeded
  <2> QED
    BY <2>1, <2>2
<1>3. CASE UNCHANGED <<connState, cur, canceled>>
  BY <1>3, LifeStutter
<1>4. ErrCheck(r) \/ RecAcquire(r) \/ CallbackReturns(r) \/ RecRecheck(r) \/ TryReconnect(r) =>
         UNCHANGED <<connState, cur, canceled>>
  BY DEF ErrCheck, RecAcquire, CallbackReturns, RecRecheck, TryReconnect
<1>5. AttemptFailed(r) \/ AttemptSucceeded(r) \/ Retry(r) \/ Wake(r) \/ RecSignals(r) =>
         UNCHANGED <<connState, cur, canceled>>
  BY DEF AttemptFailed, AttemptSucceeded, Retry, Wake, RecSignals
<1>6. RecFailed(r) \/ WindowElapses(r) \/ (\E c \in AppStops : CallbackStops(r, c)) =>
         UNCHANGED <<connState, cur, canceled>>
  BY DEF RecFailed, WindowElapses, CallbackStops
<1> QED
  BY <1>1, <1>2, <1>3, <1>4, <1>5, <1>6 DEF RecStep

\* Every step is a step of the lifecycle or leaves it alone.
LEMMA LifeNext ==
  ASSUME Usage = "once", IInv, [Next]_vars
  PROVE  [Life!Next]_(Life!life)
<1>1. CASE StartCall
  BY <1>1, ConstAssumption, LifeStart DEF Sessions
<1>2. ASSUME NEW s \in Sessions, StartStep(s)
      PROVE  [Life!Next]_(Life!life)
  BY <1>2, OnlySession1, LifeStart
<1>3. ASSUME NEW s \in Sessions,
             \/ WsOpen(s) \/ WsFail(s) \/ MsgArrive(s) \/ MsgApply(s) \/ DropTransport(s)
             \/ \E r \in Errors : LoopError(s, r)
      PROVE  [Life!Next]_(Life!life)
  BY <1>3, LifeStutter DEF WsOpen, WsFail, MsgArrive, MsgApply, DropTransport, LoopError, connVars
<1>4. ASSUME NEW c \in Stops, StopStep(c) \/ (c \in AppStops /\ StopCall(c))
      PROVE  [Life!Next]_(Life!life)
  BY <1>4, LifeStop
<1>5. ASSUME NEW r \in Errors,
             RecStep(r) \/ WindowElapses(r) \/ \E c \in AppStops : CallbackStops(r, c)
      PROVE  [Life!Next]_(Life!life)
  BY <1>5, LifeRec
<1>6. CASE Destroy
  <2>1. connState \in {"disconnected", "connected", "reconnecting"}
    BY <1>6 DEF Destroy, StrongHolders, IInv, TypeOK, ConnStates, StartInv, StopInv,
                OneSession, Stage, Sessions, Stops
  <2>2. CASE connState = "disconnected"
    BY <1>6, <2>2, LifeStutter DEF Destroy
  <2>3. CASE connState # "disconnected"
    BY <1>6, <2>1, <2>3 DEF Destroy, Life!Next, Life!Drop
  <2> QED
    BY <2>2, <2>3
<1>7. CASE UNCHANGED vars
  BY <1>7, LifeStutter DEF vars, connVars
<1> QED
  BY <1>1, <1>2, <1>3, <1>4, <1>5, <1>6, <1>7 DEF Next, Stops

\* A connection started once implements its lifecycle: connected and
\* reconnecting alternate until a stop is requested, a connection asked to stop
\* is never declared lost, and only a request to stop leads to disconnecting.
THEOREM ImplementsLifecycle ==
  ASSUME Usage = "once"
  PROVE  Spec => LifecycleSpec
<1>1. Init => Life!Init
  BY DEF Init, Life!Init
<1>2. IInv /\ [Next]_vars => [Life!Next]_(Life!life)
  BY LifeNext
<1> QED
  BY <1>1, <1>2, InvHolds, PTL DEF Spec, LifecycleSpec, Life!Spec

=============================================================================
