----------------------------- MODULE RestartProofs -----------------------------
(***************************************************************************)
(* Theorems about a Connection that is restarted any number of times, by   *)
(* an application that waits for its earlier start() before the next, with *)
(* any number of stops and transport errors.                               *)
(***************************************************************************)
EXTENDS AnyUseProofs

-----------------------------------------------------------------------------
(* One start() is under way at a time, that of the last session, whatever  *)
(* stops and errors do.                                                    *)

OneStart ==
    /\ \A s \in Sessions : startPc[s] \notin {"idle", "done"} => s = cur
    /\ \A s \in Sessions : s > cur => startPc[s] = "idle"
    /\ \A s \in Sessions : s = cur => startPc[s] # "idle"

TokenInv == TypeInv /\ OneStart /\ TokenOfThisSession

\* A step that leaves start() alone leaves OneStart and the token be.
LEMMA TokenElsewhere ==
  ASSUME TokenInv, UNCHANGED <<startPc, cur, token>>
  PROVE  OneStart' /\ TokenOfThisSession'
  BY DEF TokenInv, OneStart, TokenOfThisSession, Sessions

\* A new session begins after all others are done.
LEMMA TokenStartCall ==
  ASSUME Usage # "free", TokenInv, StartCall
  PROVE  OneStart' /\ TokenOfThisSession'
<1> USE DEF TokenInv, TypeInv, TypeOK, OneStart, TokenOfThisSession, Sessions
<1>1. \A s \in Sessions : startPc[s] \in {"idle", "done"}
  BY UsageAssumption DEF StartCall, MayStart, UsageAssumption
<1>2. /\ cur' = cur + 1 /\ token' = 0 /\ cur \in Nat
      /\ startPc' = [startPc EXCEPT ![cur + 1] = "negotiate"]
  BY DEF StartCall, ClearSession
<1>3. \A s \in Sessions : startPc'[s] = IF s = cur + 1 THEN "negotiate" ELSE startPc[s]
  BY <1>2
<1> QED
  BY <1>1, <1>2, <1>3

\* The steps of start() are those of the last session.
LEMMA TokenStart ==
  ASSUME TokenInv, NEW s \in Sessions, StartStep(s)
  PROVE  OneStart' /\ TokenOfThisSession'
<1> USE DEF TokenInv, TypeInv, TypeOK, OneStart, TokenOfThisSession, Sessions, StartGoto,
            connVars, dataVars
<1>1. /\ s = cur /\ cur' = cur /\ token' \in {token, s}
      /\ \E pc : pc # "idle" /\ startPc' = [startPc EXCEPT ![s] = pc]
  <2>1. CASE StartCanceled(s) \/ Negotiate(s) \/ RejectNegotiation(s)
    BY <2>1 DEF StartCanceled, Negotiate, RejectNegotiation
  <2>2. CASE ConnectTransport(s) \/ SetTransport(s)
    BY <2>2 DEF ConnectTransport, SetTransport
  <2>3. CASE ConnectTimeout(s)
    BY <2>3 DEF ConnectTimeout
  <2>4. CASE StartRequest(s) \/ StartResponse(s) \/ StartSucceeded(s)
    BY <2>4 DEF StartRequest, StartResponse, StartSucceeded
  <2>5. CASE StartDropsTransport(s) \/ StartDisconnects(s) \/ StartSignals(s)
    BY <2>5 DEF StartDropsTransport, StartDisconnects, StartSignals
  <2> QED
    BY <2>1, <2>2, <2>3, <2>4, <2>5 DEF StartStep
<1>2. PICK pc : pc # "idle" /\ startPc' = [startPc EXCEPT ![s] = pc]
  BY <1>1
<1> QED
  BY <1>1, <1>2

\* Every step keeps them.
LEMMA TokenNext ==
  ASSUME Usage # "free", TokenInv, [Next]_vars
  PROVE  TokenInv'
<1>1. TypeInv'
  BY TypeNext DEF TokenInv
<1>2. OneStart' /\ TokenOfThisSession'
  <2> USE DEF connVars, dataVars, startVars
  <2>1. ASSUME NEW s \in Sessions,
               \/ WsOpen(s) \/ WsFail(s) \/ MsgArrive(s) \/ MsgApply(s) \/ DropTransport(s)
               \/ \E r \in Errors : LoopError(s, r)
        PROVE  UNCHANGED <<startPc, cur, token>>
    BY <2>1 DEF WsOpen, WsFail, MsgArrive, MsgApply, DropTransport, LoopError
  <2>2. ASSUME NEW c \in Stops, StopStep(c) \/ StopCall(c)
        PROVE  UNCHANGED <<startPc, cur, token>>
    BY <2>2 DEF StopStep, StopAcquire, StopProceed, StopDisconnect, StopFinish, StopCall
  <2>3. ASSUME NEW r \in Errors,
               RecStep(r) \/ WindowElapses(r) \/ \E c \in AppStops : CallbackStops(r, c)
        PROVE  UNCHANGED <<startPc, cur, token>>
    BY <2>3 DEF RecStep, ErrCheck, RecAcquire, RecProceed, CallbackReturns, RecRecheck,
           TryReconnect, AttemptFailed, AttemptSucceeded, Retry, Wake, RecSucceeded,
           RecSignals, RecFailed, WindowElapses, CallbackStops
  <2>4. CASE Destroy \/ UNCHANGED vars
    BY <2>4, TokenElsewhere DEF Destroy, vars
  <2> QED
    BY <2>1, <2>2, <2>3, <2>4, TokenElsewhere, TokenStartCall, TokenStart DEF Next, Stops
<1> QED
  BY <1>1, <1>2 DEF TokenInv

\* Whatever stops and transport errors overlap the restarts, the requests of a
\* session carry no token but its own, if each start() waits for those before.
THEOREM TokenIsOwn ==
  ASSUME Usage # "free"
  PROVE  Spec => []TokenOfThisSession
<1>1. Init => TokenInv
  BY TypeInit DEF Init, TokenInv, OneStart, TokenOfThisSession, Sessions
<1>2. TokenInv /\ [Next]_vars => TokenInv'
  BY TokenNext
<1>3. TokenInv => TokenOfThisSession
  BY DEF TokenInv
<1> QED
  BY <1>1, <1>2, <1>3, PTL DEF Spec

-----------------------------------------------------------------------------
(* The inductive invariant of a restarted connection.                      *)

Idle == {"idle", "done"}

\* A start() under way keeps the connection connecting and the event
\* unsignaled, until it has let go of what it leaves.
RestartStartInv ==
    \A s \in Sessions :
       /\ s = cur => (connState = "connecting" <=> startPc[s] \notin {"signal", "done"})
       /\ startPc[s] \notin Idle => ~startCompleted
       /\ startPc[s] \in {"startReq", "starting", "started"} => transport # 0
       /\ startPc[s] = "dropped" => transport = 0

\* The transport is there from connected to disconnecting; a stop() that waits
\* has canceled the session, and one past the event is still to disconnect it.
RestartStopInv ==
    /\ connState \in {"connected", "reconnecting", "disconnecting"} => transport # 0
    /\ connState = "disconnected" => transport = 0
    /\ \A c \in Stops : stopPc[c] = "wait" => connState # "disconnecting" /\ cur \in canceled
    /\ connState = "disconnecting" => \E c \in Stops : stopPc[c] \in {"abort", "finish"}

\* No session to come is canceled, and the last one only by a stop() that waits
\* or has gone on.
RestartCancelInv ==
    /\ \A s \in canceled : s <= cur
    /\ cur \in canceled /\ connState \notin {"disconnecting", "disconnected"} =>
          \E c \in Stops : stopPc[c] = "wait"

\* What follows the second locked section of reconnect(); one that threw stays
\* there for ever.
Trying == {"attemptStart", "attempt", "retry", "sleep", "ok", "fail", "threw"}
Ours   == Trying \cup {"callback", "lock2", "signalOk"}

\* One reconnect() at most is about the last session, which has started and is
\* not connected until the reconnect has succeeded; those of earlier sessions
\* have been canceled and get no further than their second locked section.
RestartRecInv ==
    /\ \A r \in Errors :
          /\ recCts[r] <= cur
          /\ recPc[r] \in {"callback", "lock2"} /\ recCts[r] # cur => recCts[r] \in canceled
          /\ recPc[r] \in {"callback", "lock2"} /\ recCts[r] = cur =>
                cur \in canceled \/ connState = "reconnecting"
          /\ recPc[r] \in {"callback", "lock2"} /\ recCts[r] = cur => connState # "connected"
          /\ recPc[r] \in Trying /\ alive =>
                recCts[r] = cur /\ connState = "reconnecting" /\ ~startCompleted
          /\ recPc[r] = "signalOk" =>
                recCts[r] = cur /\ connState = "connected" /\ ~startCompleted
          /\ recPc[r] \in Ours /\ recCts[r] = cur => \A s \in Sessions : startPc[s] \in Idle
    /\ \A q, r \in Errors :
          recPc[q] \in Ours /\ recCts[q] = cur /\ recPc[r] \in Ours /\ recCts[r] = cur => q = r

\* While the event is unsignaled somebody is to signal it.
RestartEventInv ==
    ~startCompleted /\ cur # 0 => \/ \E s \in Sessions : startPc[s] \notin Idle
                                  \/ \E r \in Errors : recPc[r] \in Trying \cup {"signalOk"}

\* Only an object nobody uses is destroyed.
RestartAliveInv == ~alive => ~StrongHolders /\ connState = "disconnected" /\ startCompleted

\* Before the first start() nothing is lost.
RestartEmptyInv == cur = 0 => \A r \in Errors : recPc[r] = "idle"

RestartInv == /\ TokenInv /\ LockOwned /\ FreshInv /\ RestartStartInv /\ RestartStopInv
              /\ RestartCancelInv /\ RestartRecInv /\ RestartEventInv /\ RestartAliveInv
              /\ RestartEmptyInv

\* The parts that are about where everyone is, which the lemmas below keep; the
\* other three are kept by TokenNext, LockNext and FreshNext.
Places == /\ RestartStartInv /\ RestartStopInv /\ RestartCancelInv /\ RestartRecInv
          /\ RestartEventInv /\ RestartAliveInv /\ RestartEmptyInv

\* A new start() finds the earlier ones done and the lock free.
LEMMA RestartStartCall ==
  ASSUME Usage # "free", RestartInv, StartCall
  PROVE  Places'
<1> USE ConstAssumption DEF ConstAssumption, RestartInv, TokenInv, TypeInv, TypeOK, OneStart,
        Sessions, Stops, Idle
<1>1. \A s \in Sessions : startPc[s] \in {"idle", "done"}
  BY UsageAssumption DEF StartCall, MayStart, UsageAssumption
<1>2. /\ cur' = cur + 1 /\ ~startCompleted' /\ cur \in Nat /\ alive' /\ alive
      /\ startPc' = [startPc EXCEPT ![cur + 1] = "negotiate"]
      /\ connState = "disconnected" /\ connState' = "connecting" /\ stopLock = NoOp
      /\ UNCHANGED <<transport, canceled, stopPc, recPc, recCts>>
  BY DEF StartCall, ClearSession, recVars
<1>3. \A s \in Sessions : startPc'[s] = IF s = cur + 1 THEN "negotiate" ELSE startPc[s]
  BY <1>2
<1>4. cur + 1 \in Sessions
  BY DEF StartCall
<1>5. RestartStartInv' /\ RestartEventInv' /\ RestartAliveInv' /\ RestartEmptyInv'
  BY <1>1, <1>2, <1>3, <1>4 DEF RestartStartInv, RestartEventInv, RestartAliveInv, RestartEmptyInv
<1>6. \A c \in Stops : stopPc[c] # "wait"
  BY <1>2 DEF LockOwned
<1>7. RestartStopInv' /\ RestartCancelInv'
  BY <1>2, <1>6 DEF RestartStopInv, RestartCancelInv
<1>8. RestartRecInv'
  <2>1. \A r \in Errors : recPc[r] \notin Trying \cup {"signalOk"}
    BY <1>2 DEF RestartRecInv
  <2>2. ASSUME NEW r \in Errors
        PROVE  recCts'[r] # cur' /\ recCts'[r] <= cur'
    <3>1. recCts[r] \in Nat /\ recCts[r] <= cur
      BY DEF RestartRecInv
    <3> QED
      BY <1>2, <3>1
  <2>3. \A r \in Errors : recPc[r] \in {"callback", "lock2"} => recCts[r] \in canceled
    BY <1>2 DEF RestartRecInv
  <2> QED
    BY <1>2, <2>1, <2>2, <2>3 DEF RestartRecInv, Ours
<1> QED
  BY <1>5, <1>7, <1>8 DEF Places

\* The steps of start() are taken while nothing reconnects or tears down.
LEMMA RestartStart ==
  ASSUME RestartInv, NEW s \in Sessions, StartStep(s)
  PROVE  Places'
<1> USE ConstAssumption DEF ConstAssumption, RestartInv, TokenInv, TypeInv, TypeOK, OneStart,
        Sessions, Stops, Idle, StartGoto, connVars, dataVars, wireVars, recVars
<1>1. /\ s = cur /\ UNCHANGED <<cur, canceled, stopPc, recPc, recCts, msg, alive>>
      /\ connState = "connecting" \/ startPc[s] = "signal"
      /\ startPc[s] \notin Idle
  <2>1. UNCHANGED <<cur, canceled, stopPc, recPc, recCts, msg, alive>>
    BY DEF StartStep, StartCanceled, Negotiate, RejectNegotiation, ConnectTransport,
     ConnectTimeout, SetTransport, StartRequest, StartResponse, StartSucceeded,
     StartDropsTransport, StartDisconnects, StartSignals
  <2>2. startPc[s] \notin Idle
    BY DEF StartStep, StartCanceled, Negotiate, RejectNegotiation, ConnectTransport,
     ConnectTimeout, SetTransport, StartRequest, StartResponse, StartSucceeded,
     StartDropsTransport, StartDisconnects, StartSignals
  <2> QED
    BY <2>1, <2>2 DEF RestartStartInv
<1>2. \A r \in Errors : recPc[r] \in Ours => recCts[r] # cur
  BY <1>1 DEF RestartRecInv
<1>3. alive
  BY <1>1 DEF RestartAliveInv, StrongHolders
<1>4. \A r \in Errors : recPc[r] \notin Trying \cup {"signalOk"}
  BY <1>2, <1>3 DEF RestartRecInv, Ours
<1>5. RestartRecInv'
  BY <1>1, <1>2, <1>3, <1>4 DEF RestartRecInv, Ours
<1>6. RestartAliveInv' /\ RestartEmptyInv'
  BY <1>1, <1>3 DEF RestartAliveInv, RestartEmptyInv
<1>7. CASE UNCHANGED <<connState, startCompleted, transport>> /\
           \/ startPc' = startPc
           \/ \E to \in StartPcs \ {"idle", "startReq", "starting", "started", "dropped", "signal", "done"} :
                 startPc' = [startPc EXCEPT ![s] = to] /\ startPc[s] # "signal"
           \/ startPc[s] \in {"startReq", "starting"} /\
              \E to \in {"starting", "started"} : startPc' = [startPc EXCEPT ![s] = to]
  <2>1. RestartStartInv' /\ RestartEventInv'
    BY <1>1, <1>7 DEF RestartStartInv, RestartEventInv, StartPcs
  <2>2. RestartStopInv' /\ RestartCancelInv'
    BY <1>1, <1>7 DEF RestartStopInv, RestartCancelInv
  <2> QED
    BY <1>5, <1>6, <2>1, <2>2 DEF Places
<1>8. CASE StartCanceled(s) \/ Negotiate(s) \/ RejectNegotiation(s) \/ ConnectTransport(s)
  BY <1>7, <1>8 DEF StartCanceled, Negotiate, RejectNegotiation, ConnectTransport, StartPcs
<1>9. CASE ConnectTimeout(s) \/ StartRequest(s) \/ StartResponse(s)
  BY <1>7, <1>9 DEF ConnectTimeout, StartRequest, StartResponse, StartPcs
<1>10. CASE SetTransport(s)
  <2>1. CASE startPc' = [startPc EXCEPT ![s] = "failed"] /\ UNCHANGED transport
    BY <1>7, <1>10, <2>1 DEF SetTransport, StartPcs
  <2>2. CASE startPc' = [startPc EXCEPT ![s] = "startReq"] /\ transport' = s
    <3>1. UNCHANGED <<connState, startCompleted>> /\ connState = "connecting"
      BY <1>1, <1>10 DEF SetTransport
    <3>2. RestartStartInv' /\ RestartEventInv'
      BY <1>1, <2>2, <3>1 DEF RestartStartInv, RestartEventInv
    <3>3. RestartStopInv' /\ RestartCancelInv'
      BY <1>1, <2>2, <3>1 DEF RestartStopInv, RestartCancelInv
    <3> QED
      BY <1>5, <1>6, <3>2, <3>3 DEF Places
  <2> QED
    BY <1>10, <2>1, <2>2 DEF SetTransport
<1>11. CASE StartSucceeded(s)
  <2>1. /\ startPc[s] = "started" /\ startPc' = [startPc EXCEPT ![s] = "signal"]
        /\ connState = "connecting" /\ connState' = "connected" /\ transport # 0
        /\ UNCHANGED <<startCompleted, transport>>
    BY <1>1, <1>11 DEF StartSucceeded, RestartStartInv
  <2>2. RestartStartInv' /\ RestartEventInv'
    BY <1>1, <2>1 DEF RestartStartInv, RestartEventInv
  <2>3. RestartStopInv' /\ RestartCancelInv'
    BY <1>1, <2>1 DEF RestartStopInv, RestartCancelInv
  <2> QED
    BY <1>5, <1>6, <2>2, <2>3 DEF Places
<1>12. CASE StartDropsTransport(s)
  <2>1. /\ startPc[s] = "failed" /\ startPc' = [startPc EXCEPT ![s] = "dropped"]
        /\ connState = "connecting" /\ transport' = 0
        /\ UNCHANGED <<startCompleted, connState>>
    BY <1>1, <1>12 DEF StartDropsTransport
  <2>2. RestartStartInv' /\ RestartEventInv'
    BY <1>1, <2>1 DEF RestartStartInv, RestartEventInv
  <2>3. RestartStopInv' /\ RestartCancelInv'
    BY <1>1, <2>1 DEF RestartStopInv, RestartCancelInv
  <2> QED
    BY <1>5, <1>6, <2>2, <2>3 DEF Places
<1>13. CASE StartDisconnects(s)
  <2>1. /\ startPc[s] = "dropped" /\ startPc' = [startPc EXCEPT ![s] = "signal"]
        /\ transport = 0 /\ connState' = "disconnected" /\ connState = "connecting"
        /\ UNCHANGED <<startCompleted, transport>>
    BY <1>1, <1>13 DEF StartDisconnects, RestartStartInv
  <2>2. RestartStartInv' /\ RestartEventInv'
    BY <1>1, <2>1 DEF RestartStartInv, RestartEventInv
  <2>3. RestartStopInv' /\ RestartCancelInv'
    BY <1>1, <2>1 DEF RestartStopInv, RestartCancelInv
  <2> QED
    BY <1>5, <1>6, <2>2, <2>3 DEF Places
<1>14. CASE StartSignals(s)
  <2>1. /\ startPc[s] = "signal" /\ startPc' = [startPc EXCEPT ![s] = "done"]
        /\ startCompleted' /\ UNCHANGED <<transport, connState>>
    BY <1>1, <1>14 DEF StartSignals
  <2>2. RestartStartInv' /\ RestartEventInv'
    BY <1>1, <2>1 DEF RestartStartInv, RestartEventInv
  <2>3. RestartStopInv' /\ RestartCancelInv'
    BY <1>1, <2>1 DEF RestartStopInv, RestartCancelInv
  <2> QED
    BY <1>5, <1>6, <2>2, <2>3 DEF Places
<1> QED
  BY <1>8, <1>9, <1>10, <1>11, <1>12, <1>13, <1>14 DEF StartStep

\* The websocket and its messages matter only in that a transport may be lost,
\* which does not happen before the first start().
LEMMA RestartWire ==
  ASSUME RestartInv, NEW s \in Sessions,
         \/ WsOpen(s) \/ WsFail(s) \/ MsgArrive(s) \/ MsgApply(s) \/ DropTransport(s)
         \/ \E r \in Errors : LoopError(s, r)
  PROVE  Places'
<1> USE DEF RestartInv, TokenInv, TypeInv, TypeOK, Sessions, connVars, startVars, dataVars, wireVars,
        recVars
<1>1. UNCHANGED <<connState, startCompleted, cur, canceled, transport, startPc, stopPc, recCts, alive>>
  BY DEF WsOpen, WsFail, MsgArrive, MsgApply, DropTransport, LoopError
<1>2. RestartStartInv' /\ RestartStopInv' /\ RestartCancelInv'
  BY <1>1 DEF RestartStartInv, RestartStopInv, RestartCancelInv
<1>3. \A r \in Errors : recPc'[r] = recPc[r] \/ (recPc[r] = "idle" /\ recPc'[r] = "error" /\ cur # 0)
  <2>1. CASE recPc' = recPc
    BY <2>1
  <2>2. ASSUME NEW r \in Errors, LoopError(s, r)
        PROVE  recPc[r] = "idle" /\ recPc' = [recPc EXCEPT ![r] = "error"] /\ cur # 0
    BY <2>2, ConstAssumption DEF LoopError, RecGoto, FreshInv, ConstAssumption
  <2> QED
    BY <2>1, <2>2 DEF WsOpen, WsFail, MsgArrive, MsgApply, DropTransport
<1>4. RestartRecInv' /\ RestartEventInv' /\ RestartEmptyInv'
  BY <1>1, <1>3 DEF RestartRecInv, RestartEventInv, RestartEmptyInv, Ours, Trying, Idle
<1>5. RestartAliveInv'
  <2>1. ~alive => \A t \in Sessions : msg'[t] = msg[t] \/ msg'[t] = "none"
    BY DEF WsOpen, WsFail, MsgArrive, MsgApply, DropTransport, LoopError
  <2> QED
    BY <1>1, <1>3, <2>1 DEF RestartAliveInv, StrongHolders
<1> QED
  BY <1>2, <1>4, <1>5 DEF Places

\* stop() cancels the last session before it waits, and goes on to tear down
\* only when no start() and no reconnect attempt is under way.
LEMMA RestartStop ==
  ASSUME RestartInv, NEW c \in Stops, StopStep(c) \/ (c \in AppStops /\ StopCall(c))
  PROVE  Places'
<1> USE DEF RestartInv, TokenInv, TypeInv, TypeOK, Sessions, StopGoto, connVars, startVars, dataVars,
        wireVars, recVars
<1>1. UNCHANGED <<cur, startCompleted, startPc, recPc, recCts, msg, alive>> /\ alive
  <2>1. UNCHANGED <<cur, startCompleted, startPc, recPc, recCts, msg, alive>>
    BY DEF StopStep, StopAcquire, StopProceed, StopDisconnect, StopFinish, StopCall
  <2>2. alive \/ stopPc[c] \notin {"idle", "done"}
    BY DEF StopStep, StopAcquire, RefuseStop, StopProceed, StopDisconnect, StopFinish, StopCall
  <2> QED
    BY <2>1, <2>2 DEF RestartAliveInv, StrongHolders
<1>2. RestartEventInv' /\ RestartAliveInv' /\ RestartEmptyInv'
  BY <1>1 DEF RestartEventInv, RestartAliveInv, RestartEmptyInv
<1>3. CASE StopAcquire(c)
  <2>1. /\ stopLock = NoOp /\ stopPc[c] = "lock" /\ UNCHANGED <<connState, transport>>
        /\ \A d \in Stops : d # c => stopPc'[d] = stopPc[d]
    BY <1>3 DEF StopAcquire, RefuseStop
  <2>2. \/ /\ connState \in {"disconnected", "disconnecting"} /\ UNCHANGED canceled
           /\ stopPc'[c] \in {"finish", "done"}
        \/ /\ connState \notin {"disconnected", "disconnecting"} /\ canceled' = canceled \cup {cur}
           /\ stopPc'[c] = "wait"
    BY <1>3 DEF StopAcquire, RefuseStop, CancelSession
  <2>3. RestartStartInv'
    BY <1>1, <2>1 DEF RestartStartInv
  <2>4. RestartStopInv' /\ RestartCancelInv'
    <3>1. \A d \in Stops : d # c => stopPc'[d] = stopPc[d] /\ stopPc[d] # "wait"
      BY <2>1, ConstAssumption DEF LockOwned, ConstAssumption, Stops
    <3>2. RestartStopInv'
      BY <1>1, <2>1, <2>2, <3>1 DEF RestartStopInv
    <3>3. cur \in Nat
      BY ConstAssumption DEF ConstAssumption
    <3>4. RestartCancelInv'
      <4>1. \A s \in canceled : s \in Nat /\ s <= cur
        BY ConstAssumption DEF RestartCancelInv, ConstAssumption
      <4>2. ASSUME NEW s \in canceled'
            PROVE  s <= cur
        <5>1. s \in canceled \/ s = cur
          BY <2>2
        <5>2. s \in Nat
          BY <3>3, <4>1, <5>1
        <5> QED
          BY <3>3, <4>1, <5>1, <5>2
      <4>3. connState \notin {"disconnecting", "disconnected"} => stopPc'[c] = "wait"
        BY <2>2
      <4> QED
        BY <1>1, <2>1, <4>2, <4>3 DEF RestartCancelInv
    <3> QED
      BY <3>2, <3>4
  <2>5. canceled \subseteq canceled'
    BY <2>2
  <2>6. RestartRecInv'
    BY <1>1, <2>1, <2>5 DEF RestartRecInv
  <2> QED
    BY <1>2, <2>3, <2>4, <2>6 DEF Places
<1>4. CASE StopProceed(c)
  <2>1. /\ stopPc[c] = "wait" /\ startCompleted /\ connState # "disconnecting" /\ cur \in canceled
        /\ UNCHANGED <<transport, canceled>>
        /\ \A d \in Stops : d # c => stopPc[d] # "wait" /\ stopPc'[d] = stopPc[d]
    BY <1>4 DEF StopProceed, RestartStopInv, LockOwned
  <2>2. \/ connState = "disconnected" /\ UNCHANGED connState /\ stopPc'[c] = "finish"
        \/ connState # "disconnected" /\ connState' = "disconnecting" /\ stopPc'[c] = "abort"
    BY <1>4 DEF StopProceed
  <2>3. connState # "connecting" /\ (connState # "disconnected" => transport # 0)
    BY <2>1 DEF RestartStartInv, RestartStopInv, OneStart, Idle, ConnStates
  <2>4. RestartStartInv'
    BY <1>1, <2>1, <2>2, <2>3 DEF RestartStartInv
  <2>5. RestartStopInv' /\ RestartCancelInv'
    BY <1>1, <2>1, <2>2, <2>3 DEF RestartStopInv, RestartCancelInv
  <2>6. \A r \in Errors : recPc[r] \notin Trying \cup {"signalOk"}
    BY <1>1, <2>1 DEF RestartRecInv
  <2>7. RestartRecInv'
    BY <1>1, <2>1, <2>2, <2>6 DEF RestartRecInv
  <2> QED
    BY <1>2, <2>4, <2>5, <2>7 DEF Places
<1>5. CASE StopDisconnect(c) \/ StopCall(c)
  <2>1. /\ UNCHANGED <<connState, transport, canceled>>
        /\ \/ stopPc[c] = "abort" /\ stopPc' = [stopPc EXCEPT ![c] = "finish"]
           \/ stopPc[c] = "idle" /\ stopPc' = [stopPc EXCEPT ![c] = "lock"]
    BY <1>5 DEF StopDisconnect, StopCall
  <2>2. RestartStartInv' /\ RestartRecInv'
    BY <1>1, <2>1 DEF RestartStartInv, RestartRecInv
  <2>3. RestartStopInv' /\ RestartCancelInv'
    BY <1>1, <2>1 DEF RestartStopInv, RestartCancelInv
  <2> QED
    BY <1>2, <2>2, <2>3 DEF Places
<1>6. CASE StopFinish(c)
  <2>1. /\ stopPc[c] = "finish" /\ stopPc' = [stopPc EXCEPT ![c] = "done"]
        /\ UNCHANGED canceled
        /\ \/ connState = "disconnecting" /\ connState' = "disconnected" /\ transport' = 0
           \/ connState # "disconnecting" /\ UNCHANGED <<connState, transport>>
    BY <1>6 DEF StopFinish, CloseConnection
  <2>2. RestartStartInv'
    BY <1>1, <2>1 DEF RestartStartInv, OneStart, Idle
  <2>3. RestartStopInv' /\ RestartCancelInv'
    BY <1>1, <2>1 DEF RestartStopInv, RestartCancelInv
  <2>4. connState = "disconnecting" => cur \in canceled \/ \A r \in Errors :
           recPc[r] \in {"callback", "lock2"} => recCts[r] # cur
    BY DEF RestartRecInv
  <2>5. RestartRecInv'
    BY <1>1, <2>1, <2>4 DEF RestartRecInv
  <2> QED
    BY <1>2, <2>2, <2>3, <2>5 DEF Places
<1> QED
  BY <1>3, <1>4, <1>5, <1>6 DEF StopStep

\* reconnect() and its callbacks: it takes the connection over only when nobody
\* has canceled the session, and is over before anyone can pass the event.
LEMMA RestartRec ==
  ASSUME RestartInv, NEW r \in Errors,
         RecStep(r) \/ WindowElapses(r) \/ \E c \in AppStops : CallbackStops(r, c)
  PROVE  Places'
<1> USE DEF RestartInv, TokenInv, TypeInv, TypeOK, RecGoto, connVars, startVars, dataVars,
        wireVars, recVars
<1>1. UNCHANGED <<cur, canceled, transport, startPc, msg, alive>> /\ recPc[r] # "idle"
  BY DEF RecStep, ErrCheck, RecAcquire, RecProceed, CallbackReturns, RecRecheck, TryReconnect,
     AttemptFailed, AttemptSucceeded, Retry, Wake, RecSucceeded, RecSignals, RecFailed,
     WindowElapses, CallbackStops
<1>2. RestartEmptyInv'
  BY <1>1 DEF RestartEmptyInv
<1>3. ~alive => recPc[r] \notin {"lock", "wait", "callback", "lock2", "attemptStart", "signalOk",
                                 "reconnected"}
  BY DEF RestartAliveInv, StrongHolders
<1>4. ASSUME NEW q \in Errors, q # r
      PROVE  recPc'[q] = recPc[q] /\ recCts'[q] = recCts[q]
  BY <1>4 DEF RecStep, ErrCheck, RecAcquire, RecProceed, CallbackReturns, RecRecheck, TryReconnect,
     AttemptFailed, AttemptSucceeded, Retry, Wake, RecSucceeded, RecSignals, RecFailed,
     WindowElapses, CallbackStops

\* Steps that leave the connection alone.
<1>5. ASSUME UNCHANGED <<connState, startCompleted, stopPc, recCts>>,
             \/ UNCHANGED recPc
             \/ recPc[r] \notin Ours /\ recPc'[r] \notin Ours
             \/ recPc[r] \in {"callback", "lock2"} /\ recPc'[r] \in {"lock2", "done"}
             \/ recPc[r] \in Trying /\ recPc'[r] \in Trying,
             ~alive => recPc'[r] \notin {"lock", "wait", "callback", "lock2", "attemptStart",
                                         "signalOk", "reconnected"}
      PROVE  Places'
  <2>1. RestartStartInv' /\ RestartStopInv' /\ RestartCancelInv'
    BY <1>1, <1>5 DEF RestartStartInv, RestartStopInv, RestartCancelInv
  <2>2. RestartEventInv'
    BY <1>1, <1>4, <1>5 DEF RestartEventInv, Ours, Trying
  <2>3. RestartAliveInv'
    BY <1>1, <1>4, <1>5 DEF RestartAliveInv, StrongHolders
  <2>4. RestartRecInv'
    BY <1>1, <1>4, <1>5 DEF RestartRecInv, Ours, Trying
  <2> QED
    BY <1>2, <2>1, <2>2, <2>3, <2>4 DEF Places
<1>6. CASE ErrCheck(r) \/ RecAcquire(r) \/ CallbackReturns(r)
  <2>1. /\ UNCHANGED <<connState, startCompleted, stopPc, recCts>>
        /\ \/ recPc[r] = "error" /\ recPc'[r] \in {"lock", "done"} /\ (alive \/ recPc'[r] = "done")
           \/ recPc[r] = "lock" /\ recPc'[r] = "wait"
           \/ recPc[r] = "callback" /\ recPc'[r] = "lock2"
           \/ recPc[r] = "reconnected" /\ recPc'[r] = "done"
    BY <1>6 DEF ErrCheck, RecAcquire, CallbackReturns
  <2> QED
    BY <1>3, <1>5, <2>1 DEF Ours, Trying
<1>7. CASE TryReconnect(r) \/ AttemptFailed(r) \/ AttemptSucceeded(r) \/ Retry(r) \/ Wake(r)
  <2>1. /\ UNCHANGED <<connState, startCompleted, stopPc, recCts>>
        /\ recPc[r] \in Trying /\ recPc'[r] \in Trying
        /\ alive \/ recPc'[r] # "attemptStart"
    BY <1>7 DEF TryReconnect, AttemptFailed, AttemptSucceeded, Retry, Wake, Trying
  <2> QED
    BY <1>5, <2>1 DEF Trying
<1>8. CASE WindowElapses(r)
  BY <1>3, <1>5, <1>8 DEF WindowElapses

\* Steps that do not.
<1>9. ASSUME NEW c \in AppStops, CallbackStops(r, c)
      PROVE  Places'
  <2>1. /\ UNCHANGED <<connState, startCompleted, recPc, recCts>> /\ alive
        /\ c \in Stops /\ stopPc[c] = "idle" /\ stopPc' = [stopPc EXCEPT ![c] = "lock"]
    BY <1>3, <1>9 DEF CallbackStops, StopGoto, Stops
  <2>2. RestartStopInv' /\ RestartCancelInv'
    BY <1>1, <2>1 DEF RestartStopInv, RestartCancelInv
  <2>3. RestartStartInv' /\ RestartRecInv'
    BY <1>1, <2>1 DEF RestartStartInv, RestartRecInv
  <2>4. RestartEventInv' /\ RestartAliveInv'
    BY <1>1, <2>1 DEF RestartEventInv, RestartAliveInv
  <2> QED
    BY <1>2, <2>2, <2>3, <2>4 DEF Places
<1>10. CASE RecProceed(r)
  <2>1. startCompleted /\ recPc[r] = "wait" /\ alive /\ UNCHANGED <<startCompleted, stopPc>>
    BY <1>3, <1>10 DEF RecProceed
  <2>2. CASE connState # "connected"
    <3>1. UNCHANGED <<connState, recCts>> /\ recPc'[r] = "done"
      BY <1>10, <2>2 DEF RecProceed
    <3> QED
      BY <1>5, <2>1, <3>1 DEF Ours, Trying
  <2>3. CASE connState = "connected"
    <3>1. connState' = "reconnecting" /\ recCts'[r] = cur /\ recPc'[r] = "callback"
      BY <1>10, <2>3 DEF RecProceed
    <3>2. \A q \in Errors : recPc[q] \in Ours => recCts[q] # cur
      BY <2>1, <2>3 DEF RestartRecInv, Ours
    <3>3. \A s \in Sessions : startPc[s] \in Idle
      BY <2>1 DEF RestartStartInv
    <3>4. \A q \in Errors : recPc[q] \notin Trying \cup {"signalOk"}
      BY <2>1 DEF RestartRecInv
    <3>5. cur \in Nat
      BY ConstAssumption DEF ConstAssumption, Sessions
    <3>6. RestartRecInv'
      BY <1>1, <1>4, <2>1, <3>1, <3>2, <3>3, <3>4, <3>5 DEF RestartRecInv, Ours, Trying
    <3>7. RestartStartInv' /\ RestartStopInv' /\ RestartCancelInv'
      BY <1>1, <2>1, <2>3, <3>1 DEF RestartStartInv, RestartStopInv, RestartCancelInv
    <3>8. RestartEventInv' /\ RestartAliveInv'
      BY <1>1, <2>1 DEF RestartEventInv, RestartAliveInv
    <3> QED
      BY <1>2, <3>6, <3>7, <3>8 DEF Places
  <2> QED
    BY <2>2, <2>3
<1>11. CASE RecRecheck(r)
  <2>1. recPc[r] = "lock2" /\ alive /\ UNCHANGED <<connState, stopPc, recCts>>
    BY <1>3, <1>11 DEF RecRecheck
  <2>2. CASE recPc'[r] = "done" /\ UNCHANGED startCompleted
    BY <1>5, <2>1, <2>2
  <2>3. CASE recPc'[r] = "attemptStart"
    <3>1. connState = "reconnecting" /\ recCts[r] \notin canceled /\ ~startCompleted'
      BY <1>11, <2>1, <2>3 DEF RecRecheck, ResetEvent
    <3>2. recCts[r] = cur
      BY <2>1, <3>1 DEF RestartRecInv
    <3>3. RestartRecInv'
      BY <1>1, <1>4, <2>1, <2>3, <3>1, <3>2 DEF RestartRecInv, Ours, Trying
    <3>4. RestartStartInv' /\ RestartStopInv' /\ RestartCancelInv'
      BY <1>1, <2>1, <3>1 DEF RestartStartInv, RestartStopInv, RestartCancelInv
    <3>5. RestartEventInv' /\ RestartAliveInv'
      BY <1>1, <2>1, <2>3 DEF RestartEventInv, RestartAliveInv, Trying
    <3> QED
      BY <1>2, <3>3, <3>4, <3>5 DEF Places
  <2> QED
    BY <1>11, <2>1, <2>2, <2>3 DEF RecRecheck
<1>12. CASE RecSucceeded(r)
  <2>1. recPc[r] = "ok" /\ UNCHANGED <<startCompleted, stopPc, recCts>>
    BY <1>12 DEF RecSucceeded
  <2>2. CASE ~alive
    <3>1. recPc'[r] = "done" /\ UNCHANGED connState /\ startCompleted
      BY <1>12, <2>1, <2>2 DEF RecSucceeded, RestartAliveInv
    <3>2. RestartStartInv' /\ RestartStopInv' /\ RestartCancelInv'
      BY <1>1, <2>1, <3>1 DEF RestartStartInv, RestartStopInv, RestartCancelInv
    <3>3. RestartEventInv' /\ RestartAliveInv'
      BY <1>1, <1>4, <2>1, <3>1 DEF RestartEventInv, RestartAliveInv, StrongHolders
    <3>4. RestartRecInv'
      BY <1>1, <1>4, <2>1, <3>1 DEF RestartRecInv, Ours, Trying
    <3> QED
      BY <1>2, <3>2, <3>3, <3>4 DEF Places
  <2>3. CASE alive
    <3>1. /\ recCts[r] = cur /\ connState = "reconnecting" /\ ~startCompleted
          /\ \A s \in Sessions : startPc[s] \in Idle
      BY <2>1, <2>3 DEF RestartRecInv, Trying, Ours
    <3>2. recPc'[r] = "signalOk" /\ connState' = "connected"
      BY <1>12, <2>1, <2>3, <3>1 DEF RecSucceeded
    <3>3. \A q \in Errors : q # r => recPc[q] \notin Ours \/ recCts[q] # cur
      BY <2>1, <3>1 DEF RestartRecInv, Trying, Ours
    <3>4. \A q \in Errors : q # r => recPc[q] \notin Trying \cup {"signalOk"}
      BY <2>3, <3>3 DEF RestartRecInv, Ours
    <3>5. RestartRecInv'
      BY <1>1, <1>4, <2>1, <3>1, <3>2, <3>3, <3>4 DEF RestartRecInv, Ours, Trying
    <3>6. RestartStartInv' /\ RestartStopInv' /\ RestartCancelInv'
      BY <1>1, <2>1, <3>1, <3>2 DEF RestartStartInv, RestartStopInv, RestartCancelInv
    <3>7. RestartEventInv' /\ RestartAliveInv'
      BY <1>1, <1>4, <2>1, <2>3, <3>2 DEF RestartEventInv, RestartAliveInv, Trying
    <3> QED
      BY <1>2, <3>5, <3>6, <3>7 DEF Places
  <2> QED
    BY <2>2, <2>3
<1>13. CASE RecSignals(r) \/ RecFailed(r)
  <2>1. /\ recPc[r] \in {"signalOk", "fail"} /\ UNCHANGED <<connState, recCts>>
        /\ recPc'[r] \in {"reconnected", "done"} /\ (alive \/ recPc'[r] = "done")
        /\ alive => startCompleted'
        /\ ~alive => UNCHANGED <<startCompleted, stopPc>>
        /\ \/ stopPc' = stopPc
           \/ alive /\ stopPc[r] = "idle" /\ stopPc' = [stopPc EXCEPT ![r] = "lock"]
    BY <1>3, <1>13 DEF RecSignals, RecFailed, RecStops, StopGoto
  <2>2. alive => recCts[r] = cur /\ \A s \in Sessions : startPc[s] \in Idle
    BY <2>1 DEF RestartRecInv, Trying, Ours
  <2>3. \A q \in Errors : q # r /\ alive => recPc[q] \notin Trying \cup {"signalOk"}
    BY <2>1, <2>2 DEF RestartRecInv, Trying, Ours
  <2>4. \A q \in Errors : ~alive => recPc[q] # "signalOk"
    BY DEF RestartAliveInv, StrongHolders
  <2>5. RestartRecInv'
    BY <1>1, <1>4, <2>1, <2>3, <2>4 DEF RestartRecInv, Ours, Trying
  <2>6. r \in Stops
    BY DEF Stops
  <2>7. RestartStopInv' /\ RestartCancelInv'
    BY <1>1, <2>1, <2>6 DEF RestartStopInv, RestartCancelInv
  <2>8. RestartStartInv'
    BY <1>1, <2>1, <2>2 DEF RestartStartInv
  <2>9. RestartAliveInv'
    BY <1>1, <1>4, <2>1 DEF RestartAliveInv, StrongHolders
  <2>10. RestartEventInv'
    BY <1>1, <2>1 DEF RestartEventInv, RestartAliveInv
  <2> QED
    BY <1>2, <2>5, <2>7, <2>8, <2>9, <2>10 DEF Places
<1> QED
  BY <1>6, <1>7, <1>8, <1>9, <1>10, <1>11, <1>12, <1>13 DEF RecStep

\* The destructor runs when nobody is connecting or tearing down.
LEMMA RestartDestroy ==
  ASSUME RestartInv, Destroy
  PROVE  Places' /\ connState \notin {"connecting", "disconnecting"}
<1> USE DEF RestartInv, TokenInv, TypeInv, TypeOK, OneStart, dataVars, startVars, recVars
<1>1. /\ connState' = "disconnected" /\ transport' = 0 /\ ~alive' /\ alive /\ startCompleted'
      /\ UNCHANGED <<cur, startPc, msg, stopPc, recPc, recCts>>
      /\ canceled \subseteq canceled' /\ canceled' \subseteq canceled \cup {cur}
      /\ ~StrongHolders
  BY DEF Destroy
<1>2. /\ \A s \in Sessions : startPc[s] \in {"idle", "done"} /\ msg[s] = "none"
      /\ \A c \in Stops : stopPc[c] \in {"idle", "done"}
      /\ \A r \in Errors : recPc[r] \notin {"lock", "wait", "callback", "lock2", "attemptStart",
                                           "signalOk", "reconnected"}
  BY <1>1 DEF StrongHolders
<1>3. connState \notin {"connecting", "disconnecting"}
  BY <1>2 DEF RestartStartInv, RestartStopInv
<1>4. RestartStartInv' /\ RestartStopInv'
  BY <1>1, <1>2 DEF RestartStartInv, RestartStopInv, Idle
<1>5. RestartCancelInv'
  <2>1. ASSUME NEW s \in canceled'
        PROVE  s <= cur
    <3>1. cur \in Nat /\ \A t \in canceled : t \in Nat /\ t <= cur
      BY ConstAssumption DEF RestartCancelInv, ConstAssumption, Sessions
    <3>2. s \in canceled \/ s = cur
      BY <1>1
    <3>3. s \in Nat
      BY <3>1, <3>2
    <3> QED
      BY <3>1, <3>2, <3>3
  <2> QED
    BY <1>1, <2>1 DEF RestartCancelInv
<1>6. RestartRecInv' /\ RestartEventInv' /\ RestartEmptyInv'
  BY <1>1, <1>2 DEF RestartRecInv, RestartEventInv, RestartEmptyInv
<1>7. RestartAliveInv'
  BY <1>1 DEF RestartAliveInv, StrongHolders
<1> QED
  BY <1>3, <1>4, <1>5, <1>6, <1>7 DEF Places

\* Every step of a connection that is not free keeps the invariant.
LEMMA RestartNext ==
  ASSUME Usage # "free", RestartInv, [Next]_vars
  PROVE  RestartInv'
<1>1. TokenInv'
  BY TokenNext DEF RestartInv
<1>2. LockOwned' /\ FreshInv'
  BY LockNext, FreshNext DEF RestartInv, TokenInv, TypeInv
<1>3. ASSUME NEW s \in Sessions, StartStep(s)
      PROVE  Places'
  BY <1>3, RestartStart
<1>4. ASSUME NEW s \in Sessions,
             \/ WsOpen(s) \/ WsFail(s) \/ MsgArrive(s) \/ MsgApply(s) \/ DropTransport(s)
             \/ \E r \in Errors : LoopError(s, r)
      PROVE  Places'
  BY <1>4, RestartWire
<1>5. ASSUME NEW c \in Stops, StopStep(c) \/ (c \in AppStops /\ StopCall(c))
      PROVE  Places'
  BY <1>5, RestartStop
<1>6. ASSUME NEW r \in Errors,
             RecStep(r) \/ WindowElapses(r) \/ \E c \in AppStops : CallbackStops(r, c)
      PROVE  Places'
  BY <1>6, RestartRec
<1>7. UNCHANGED vars => Places'
  BY DEF vars, connVars, startVars, wireVars, recVars, RestartInv, Places, RestartStartInv,
     RestartStopInv, RestartCancelInv, RestartRecInv, RestartEventInv, RestartAliveInv,
     RestartEmptyInv, StrongHolders
<1>8. StartCall => Places'
  BY RestartStartCall
<1>9. Destroy => Places'
  BY RestartDestroy
<1>10. Places'
  BY <1>3, <1>4, <1>5, <1>6, <1>7, <1>8, <1>9 DEF Next, Stops
<1>11. RestartStartInv' /\ RestartStopInv' /\ RestartCancelInv' /\ RestartRecInv'
       /\ RestartEventInv' /\ RestartAliveInv' /\ RestartEmptyInv'
  BY <1>10 DEF Places
<1> QED
  BY <1>1, <1>2, <1>11 DEF RestartInv

\* A connection restarted any number of times satisfies the invariant.
LEMMA RestartHolds ==
  ASSUME Usage # "free"
  PROVE  Spec => []RestartInv
<1>1. ASSUME Init PROVE RestartInv
  <2>1. TokenInv
    BY <1>1, TypeInit DEF Init, TokenInv, OneStart, TokenOfThisSession, Sessions
  <2>2. LockOwned /\ FreshInv
    BY <1>1, ConstAssumption DEF Init, LockOwned, FreshInv, Stops, ConstAssumption, Sessions
  <2>3. RestartStartInv /\ RestartStopInv /\ RestartCancelInv
    BY <1>1, ConstAssumption DEF Init, RestartStartInv, RestartStopInv, RestartCancelInv, Sessions,
       Idle, ConstAssumption
  <2>4. RestartRecInv /\ RestartEventInv /\ RestartAliveInv /\ RestartEmptyInv
    BY <1>1 DEF Init, RestartRecInv, RestartEventInv, RestartAliveInv, RestartEmptyInv, Trying, Ours
  <2> QED
    BY <2>1, <2>2, <2>3, <2>4 DEF RestartInv
<1>2. RestartInv /\ [Next]_vars => RestartInv'
  BY RestartNext
<1> QED
  BY <1>1, <1>2, PTL DEF Spec

-----------------------------------------------------------------------------
(* What holds of it.                                                       *)

\* Each session begins without the transport of the one before.
THEOREM RestartBeginsClean ==
  ASSUME Usage # "free"
  PROVE  Spec => []DisconnectedHasNoTransport
<1>1. RestartInv => DisconnectedHasNoTransport
  BY DEF RestartInv, RestartStopInv, DisconnectedHasNoTransport
<1> QED
  BY <1>1, RestartHolds, PTL

\* Whatever stops and errors of earlier sessions are still under way, the start
\* request and the reconnect of a session find a transport.
THEOREM RestartRequestsHaveTransport ==
  ASSUME Usage # "free"
  PROVE  Spec => []RequestsHaveTransport
<1>1. ASSUME RestartInv, NEW r \in Errors, recPc[r] = "attemptStart"
      PROVE  transport # 0
  <2>1. alive
    BY <1>1 DEF RestartInv, RestartAliveInv, StrongHolders
  <2>2. connState = "reconnecting"
    BY <1>1, <2>1 DEF RestartInv, RestartRecInv, Trying
  <2> QED
    BY <1>1, <2>2 DEF RestartInv, RestartStopInv
<1>2. RestartInv => RequestsHaveTransport
  BY <1>1 DEF RestartInv, RestartStartInv, RequestsHaveTransport
<1> QED
  BY <1>2, RestartHolds, PTL

\* While the event is signaled nobody connects.
LEMMA SettledStart == RestartInv /\ startCompleted => connState # "connecting"
  BY DEF RestartInv, RestartStartInv, TokenInv, TypeInv, TypeOK, OneStart, Idle, Sessions

\* The event of an earlier session does not let a stop() pass a start() or a
\* reconnect attempt that is under way.
THEOREM RestartIsSettled ==
  ASSUME Usage # "free"
  PROVE  Spec => []SignaledIsSettled
<1>1. RestartInv => SignaledIsSettled
  BY SettledStart DEF RestartInv, RestartRecInv, Trying, SignaledIsSettled
<1> QED
  BY <1>1, RestartHolds, PTL

\* The assertions of start(), reconnect(), shutdown() and the destructor about
\* the state they find hold in every session.
THEOREM RestartAssertionsHold ==
  ASSUME Usage # "free"
  PROVE  Spec => []StateAssertions
<1>1. ASSUME RestartInv, NEW s \in Sessions, startPc[s] = "started"
      PROVE  connState = "connecting"
  BY <1>1 DEF RestartInv, RestartStartInv, TokenInv, OneStart
<1>2. ASSUME RestartInv, NEW r \in Errors, recPc[r] = "ok", alive
      PROVE  connState = "reconnecting"
  BY <1>2 DEF RestartInv, RestartRecInv, Trying
<1>3. ASSUME RestartInv, ~StrongHolders
      PROVE  connState # "disconnecting"
  BY <1>3 DEF RestartInv, RestartStopInv, StrongHolders
<1>4. RestartInv => ShutdownAssertion
  BY SettledStart DEF RestartInv, RestartStopInv, TokenInv, TypeInv, TypeOK, ConnStates,
     ShutdownAssertion
<1>5. RestartInv => StateAssertions
  BY <1>1, <1>2, <1>3, <1>4 DEF StateAssertions, TransitionAssertions
<1> QED
  BY <1>5, RestartHolds, PTL

\* Nobody waits for the event in vain: while it is unsignaled, a start() or a
\* reconnect attempt is under way that will signal it, unless an attempt threw,
\* which one of a connection restarted with errors may.
THEOREM RestartWaitsForSomeone ==
  ASSUME Usage # "free"
  PROVE  Spec => [](WaitIsForSomeone \/ \E r \in Errors : recPc[r] = "threw")
<1>1. ASSUME RestartInv, stopLock # NoOp
      PROVE  cur # 0
  <2>1. CASE \E c \in Stops : stopPc[c] = "wait"
    <3>1. PICK c \in Stops : stopPc[c] = "wait"
      BY <2>1
    <3>2. cur \in canceled
      BY <1>1, <3>1 DEF RestartInv, RestartStopInv
    <3> QED
      BY <1>1, <3>2, ConstAssumption DEF RestartInv, TokenInv, TypeInv, TypeOK, Sessions,
         ConstAssumption
  <2>2. CASE \E r \in Errors : recPc[r] = "wait"
    BY <1>1, <2>2 DEF RestartInv, RestartEmptyInv
  <2> QED
    BY <1>1, <2>1, <2>2 DEF RestartInv, LockOwned
<1>2. RestartInv => WaitIsForSomeone \/ \E r \in Errors : recPc[r] = "threw"
  BY <1>1 DEF RestartInv, RestartEventInv, WaitIsForSomeone, Idle, Trying
<1> QED
  BY <1>2, RestartHolds, PTL

\* A connection started once never waits in vain.
THEOREM WaitsForSomeone ==
  ASSUME Usage = "once"
  PROVE  Spec => []WaitIsForSomeone
<1>1. Spec => [](WaitIsForSomeone \/ \E r \in Errors : recPc[r] = "threw")
  BY RestartWaitsForSomeone
<1>2. ReconnectNeverThrows /\ (WaitIsForSomeone \/ \E r \in Errors : recPc[r] = "threw") =>
         WaitIsForSomeone
  BY DEF ReconnectNeverThrows
<1> QED
  BY <1>1, <1>2, ReconnectIsQuiet, PTL

-----------------------------------------------------------------------------
(* Every session goes through the steps of Lifecycle.                      *)

\* start() begins a session nobody has asked to stop, and ends connecting.
LEMMA RestartLifeStart ==
  ASSUME RestartInv, StartCall \/ \E s \in Sessions : StartStep(s)
  PROVE  [Life!Next]_(Life!life)
<1> USE DEF RestartInv, TokenInv, TypeInv, TypeOK, StartGoto, connVars
<1>1. CASE StartCall
  <2>1. connState = "disconnected" /\ connState' = "connecting"
        /\ cur' = cur + 1 /\ UNCHANGED canceled
    BY <1>1 DEF StartCall
  <2>2. cur' \notin canceled'
    BY <2>1 DEF RestartCancelInv, Sessions
  <2> QED
    BY <2>1, <2>2 DEF Life!Next, Life!BeginStart
<1>2. ASSUME NEW s \in Sessions, StartStep(s)
      PROVE  [Life!Next]_(Life!life)
  <2>1. s = cur => (startPc[s] \notin {"signal", "done"} => connState = "connecting")
    BY DEF RestartStartInv
  <2>2. startPc[s] \notin Idle => s = cur
    BY DEF OneStart, Idle
  <2>3. CASE StartSucceeded(s)
    BY <2>1, <2>2, <2>3 DEF StartSucceeded, Idle, Life!Next, Life!StartOk
  <2>4. CASE StartDisconnects(s)
    BY <2>1, <2>2, <2>4 DEF StartDisconnects, Idle, Life!Next, Life!StartFail
  <2>5. StartCanceled(s) \/ Negotiate(s) \/ RejectNegotiation(s) \/ ConnectTransport(s) =>
           UNCHANGED <<connState, cur, canceled>>
    BY DEF StartCanceled, Negotiate, RejectNegotiation, ConnectTransport
  <2>6. ConnectTimeout(s) \/ SetTransport(s) \/ StartRequest(s) \/ StartResponse(s) =>
           UNCHANGED <<connState, cur, canceled>>
    BY DEF ConnectTimeout, SetTransport, StartRequest, StartResponse
  <2>7. StartDropsTransport(s) \/ StartSignals(s) => UNCHANGED <<connState, cur, canceled>>
    BY DEF StartDropsTransport, StartSignals
  <2> QED
    BY <1>2, <2>3, <2>4, <2>5, <2>6, <2>7, LifeStutter DEF StartStep
<1> QED
  BY <1>1, <1>2

\* stop() asks the last session to stop, and disconnects it once it has been.
LEMMA RestartLifeStop ==
  ASSUME RestartInv, NEW c \in Stops, StopStep(c) \/ (c \in AppStops /\ StopCall(c))
  PROVE  [Life!Next]_(Life!life)
<1> USE DEF RestartInv, TokenInv, TypeInv, TypeOK, ConnStates, StopGoto, connVars
<1>1. CASE StopAcquire(c)
  <2>1. CASE connState \in {"disconnected", "disconnecting"}
    BY <1>1, <2>1, LifeStutter DEF StopAcquire
  <2>2. CASE connState \notin {"disconnected", "disconnecting"}
    <3>1. cur' \in canceled' /\ connState' = connState
      BY <1>1, <2>2 DEF StopAcquire, CancelSession
    <3> QED
      BY <2>2, <3>1 DEF Life!Next, Life!RequestStop
  <2> QED
    BY <2>1, <2>2
<1>2. CASE StopProceed(c)
  <2>1. CASE connState = "disconnected"
    BY <1>2, <2>1, LifeStutter DEF StopProceed
  <2>2. CASE connState # "disconnected"
    <3>1. connState' = "disconnecting" /\ stopPc[c] = "wait" /\ startCompleted
          /\ UNCHANGED <<cur, canceled>>
      BY <1>2, <2>2 DEF StopProceed
    <3>2. cur \in canceled /\ connState # "disconnecting"
      BY <3>1 DEF RestartStopInv
    <3>3. connState # "connecting"
      BY <3>1, <3>2 DEF RestartStartInv, OneStart, Idle, Sessions
    <3> QED
      BY <2>2, <3>1, <3>2, <3>3 DEF Life!Next, Life!BeginDisconnect
  <2> QED
    BY <2>1, <2>2
<1>3. CASE StopDisconnect(c) \/ StopCall(c)
  BY <1>3, LifeStutter DEF StopDisconnect, StopCall
<1>4. CASE StopFinish(c)
  <2>1. CASE connState = "disconnecting"
    BY <1>4, <2>1 DEF StopFinish, CloseConnection, Life!Next, Life!EndDisconnect
  <2>2. CASE connState # "disconnecting"
    BY <1>4, <2>2, LifeStutter DEF StopFinish
  <2> QED
    BY <2>1, <2>2
<1> QED
  BY <1>1, <1>2, <1>3, <1>4 DEF StopStep

\* reconnect() declares a session lost only while it holds the lock, and so
\* while no stop() of that session has been taken and not yet gone on.
LEMMA RestartLifeRec ==
  ASSUME RestartInv, NEW r \in Errors,
         RecStep(r) \/ WindowElapses(r) \/ \E c \in AppStops : CallbackStops(r, c)
  PROVE  [Life!Next]_(Life!life)
<1> USE DEF RestartInv, TokenInv, TypeInv, TypeOK, RecGoto, connVars
<1>1. CASE RecProceed(r)
  <2>1. CASE connState = "connected"
    <3>1. connState' = "reconnecting" /\ recPc[r] = "wait" /\ UNCHANGED <<cur, canceled>>
      BY <1>1, <2>1 DEF RecProceed
    <3>2. \A c \in Stops : stopPc[c] # "wait"
      BY <3>1 DEF LockOwned
    <3>3. cur \notin canceled
      BY <2>1, <3>2 DEF RestartCancelInv
    <3> QED
      BY <2>1, <3>1, <3>3 DEF Life!Next, Life!Lost
  <2>2. CASE connState # "connected"
    BY <1>1, <2>2, LifeStutter DEF RecProceed
  <2> QED
    BY <2>1, <2>2
<1>2. CASE RecSucceeded(r)
  <2>1. CASE alive /\ connState = "reconnecting"
    BY <1>2, <2>1 DEF RecSucceeded, Life!Next, Life!Resume
  <2>2. CASE ~(alive /\ connState = "reconnecting")
    BY <1>2, <2>2, LifeStutter DEF RecSucceeded
  <2> QED
    BY <2>1, <2>2
<1>3. ErrCheck(r) \/ RecAcquire(r) \/ CallbackReturns(r) \/ RecRecheck(r) \/ TryReconnect(r) =>
         UNCHANGED <<connState, cur, canceled>>
  BY DEF ErrCheck, RecAcquire, CallbackReturns, RecRecheck, TryReconnect
<1>4. AttemptFailed(r) \/ AttemptSucceeded(r) \/ Retry(r) \/ Wake(r) \/ RecSignals(r) =>
         UNCHANGED <<connState, cur, canceled>>
  BY DEF AttemptFailed, AttemptSucceeded, Retry, Wake, RecSignals
<1>5. RecFailed(r) \/ WindowElapses(r) \/ (\E c \in AppStops : CallbackStops(r, c)) =>
         UNCHANGED <<connState, cur, canceled>>
  BY DEF RecFailed, WindowElapses, CallbackStops
<1> QED
  BY <1>1, <1>2, <1>3, <1>4, <1>5, LifeStutter DEF RecStep

\* Every step is a step of the lifecycle or leaves it alone.
LEMMA RestartLifeNext ==
  ASSUME RestartInv, [Next]_vars
  PROVE  [Life!Next]_(Life!life)
<1>1. StartCall \/ (\E s \in Sessions : StartStep(s)) => [Life!Next]_(Life!life)
  BY RestartLifeStart
<1>2. ASSUME NEW s \in Sessions,
             \/ WsOpen(s) \/ WsFail(s) \/ MsgArrive(s) \/ MsgApply(s) \/ DropTransport(s)
             \/ \E r \in Errors : LoopError(s, r)
      PROVE  [Life!Next]_(Life!life)
  BY <1>2, LifeStutter DEF WsOpen, WsFail, MsgArrive, MsgApply, DropTransport, LoopError, connVars
<1>3. ASSUME NEW c \in Stops, StopStep(c) \/ (c \in AppStops /\ StopCall(c))
      PROVE  [Life!Next]_(Life!life)
  BY <1>3, RestartLifeStop
<1>4. ASSUME NEW r \in Errors,
             RecStep(r) \/ WindowElapses(r) \/ \E c \in AppStops : CallbackStops(r, c)
      PROVE  [Life!Next]_(Life!life)
  BY <1>4, RestartLifeRec
<1>5. CASE Destroy
  <2>1. connState \in {"disconnected", "connected", "reconnecting"}
    BY <1>5, RestartDestroy DEF RestartInv, TokenInv, TypeInv, TypeOK, ConnStates
  <2>2. CASE connState = "disconnected"
    BY <1>5, <2>2, LifeStutter DEF Destroy
  <2>3. CASE connState # "disconnected"
    BY <1>5, <2>1, <2>3 DEF Destroy, Life!Next, Life!Drop
  <2> QED
    BY <2>2, <2>3
<1>6. CASE UNCHANGED vars
  BY <1>6, LifeStutter DEF vars, connVars
<1> QED
  BY <1>1, <1>2, <1>3, <1>4, <1>5, <1>6 DEF Next, Stops

\* A connection restarted any number of times implements its lifecycle: each
\* session begins unasked to stop, one that is asked is never declared lost, and
\* only a request to stop leads to disconnecting, though stops and reconnects of
\* earlier sessions are still under way.
THEOREM RestartImplementsLifecycle ==
  ASSUME Usage # "free"
  PROVE  Spec => LifecycleSpec
<1>1. Init => Life!Init
  BY DEF Init, Life!Init
<1>2. RestartInv /\ [Next]_vars => [Life!Next]_(Life!life)
  BY RestartLifeNext
<1> QED
  BY <1>1, <1>2, RestartHolds, PTL DEF Spec, LifecycleSpec, Life!Spec

-----------------------------------------------------------------------------
(* Without transport errors the application has waited for every stop()    *)
(* before it starts again, so that no teardown outlives its session.       *)

\* One stop() disconnects; others past the event find the work done.
TeardownInv ==
    /\ \A c \in Stops : stopPc[c] = "abort" => connState = "disconnecting"
    /\ \A c \in Stops : stopPc[c] = "finish" => connState \in {"disconnecting", "disconnected"}
    /\ \A c, d \in Stops :
          /\ connState = "disconnecting"
          /\ stopPc[c] \in {"abort", "finish"}
          /\ stopPc[d] \in {"abort", "finish"}
          => c = d

\* The steps of stop() keep it.
LEMMA TeardownStop ==
  ASSUME RestartInv, TeardownInv, NEW c \in Stops,
         StopStep(c) \/ (c \in AppStops /\ StopCall(c))
  PROVE  TeardownInv'
<1> USE DEF RestartInv, TokenInv, TypeInv, TypeOK, ConnStates, TeardownInv, StopGoto, connVars
<1>1. CASE StopCall(c)
  BY <1>1 DEF StopCall
<1>2. CASE StopAcquire(c)
  BY <1>2 DEF StopAcquire, RefuseStop
<1>3. CASE StopProceed(c)
  <2>1. stopPc[c] = "wait" /\ connState # "disconnecting"
    BY <1>3 DEF StopProceed, RestartStopInv
  <2>2. CASE connState = "disconnected"
    BY <1>3, <2>1, <2>2 DEF StopProceed
  <2>3. CASE connState # "disconnected"
    <3>1. \A d \in Stops : stopPc[d] \notin {"abort", "finish"}
      BY <2>1, <2>3
    <3>2. connState' = "disconnecting" /\ stopPc' = [stopPc EXCEPT ![c] = "abort"]
      BY <1>3, <2>3 DEF StopProceed
    <3> QED
      BY <3>1, <3>2
  <2> QED
    BY <2>2, <2>3
<1>4. CASE StopDisconnect(c)
  BY <1>4 DEF StopDisconnect
<1>5. CASE StopFinish(c)
  BY <1>5 DEF StopFinish, CloseConnection
<1> QED
  BY <1>1, <1>2, <1>3, <1>4, <1>5 DEF StopStep

\* The steps of start() keep it: the next one finds every stop() done.
LEMMA TeardownStart ==
  ASSUME Usage = "awaited", Errors = {}, RestartInv, TeardownInv,
         StartCall \/ \E s \in Sessions : StartStep(s)
  PROVE  TeardownInv'
<1> USE DEF RestartInv, TokenInv, TypeInv, TypeOK, TeardownInv, StartGoto, connVars
<1>1. CASE StartCall
  <2>1. \A c \in Stops : stopPc[c] \in {"idle", "done"}
    BY <1>1 DEF StartCall, MayStart, Stops
  <2> QED
    BY <1>1, <2>1 DEF StartCall
<1>2. ASSUME NEW s \in Sessions, StartStep(s)
      PROVE  TeardownInv'
  <2>1. UNCHANGED stopPc
    BY <1>2 DEF StartStep, StartCanceled, Negotiate, RejectNegotiation, ConnectTransport,
       ConnectTimeout, SetTransport, StartRequest, StartResponse, StartSucceeded,
       StartDropsTransport, StartDisconnects, StartSignals
  <2>2. CASE StartSucceeded(s) \/ StartDisconnects(s)
    <3>1. connState = "connecting"
      BY <2>2 DEF StartSucceeded, StartDisconnects, RestartStartInv, OneStart
    <3> QED
      BY <2>1, <3>1
  <2>3. CASE UNCHANGED connState
    BY <2>1, <2>3
  <2>4. StartStep(s) => StartSucceeded(s) \/ StartDisconnects(s) \/ UNCHANGED connState
    BY DEF StartStep, StartCanceled, Negotiate, RejectNegotiation, ConnectTransport,
       ConnectTimeout, SetTransport, StartRequest, StartResponse, StartDropsTransport,
       StartSignals
  <2> QED
    BY <1>2, <2>2, <2>3, <2>4
<1> QED
  BY <1>1, <1>2

\* So does every other step.
LEMMA TeardownNext ==
  ASSUME Usage = "awaited", Errors = {}, RestartInv, TeardownInv, [Next]_vars
  PROVE  TeardownInv'
<1>1. StartCall \/ (\E s \in Sessions : StartStep(s)) => TeardownInv'
  BY TeardownStart
<1>2. ASSUME NEW c \in Stops, StopStep(c) \/ (c \in AppStops /\ StopCall(c))
      PROVE  TeardownInv'
  BY <1>2, TeardownStop
<1>3. UNCHANGED <<connState, stopPc>> => TeardownInv'
  BY DEF TeardownInv
<1>4. ASSUME NEW s \in Sessions,
             WsOpen(s) \/ WsFail(s) \/ MsgArrive(s) \/ MsgApply(s) \/ DropTransport(s)
      PROVE  UNCHANGED <<connState, stopPc>>
  BY <1>4 DEF WsOpen, WsFail, MsgArrive, MsgApply, DropTransport, connVars
<1>5. Destroy => TeardownInv'
  BY DEF Destroy, StrongHolders, TeardownInv
<1> QED
  BY <1>1, <1>2, <1>3, <1>4, <1>5 DEF Next, Stops, vars, connVars

\* A connection that meets no transport error dereferences m_transport only
\* while there is one, however often it is started and stopped.
THEOREM RestartHasTransport ==
  ASSUME Usage = "awaited", Errors = {}
  PROVE  Spec => []NoNullTransport
<1>1. Init => TeardownInv
  BY DEF Init, TeardownInv
<1>2. RestartInv /\ TeardownInv /\ [Next]_vars => TeardownInv'
  BY TeardownNext
<1>3. RestartInv /\ TeardownInv /\ RequestsHaveTransport => NoNullTransport
  BY DEF RestartInv, RestartStopInv, TeardownInv, NoNullTransport
<1>4. Spec => []RestartInv /\ []RequestsHaveTransport
  BY RestartHolds, RestartRequestsHaveTransport
<1> QED
  BY <1>1, <1>2, <1>3, <1>4, PTL DEF Spec

===============================================================================
