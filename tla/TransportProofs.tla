--------------------------- MODULE TransportProofs ----------------------------
(***************************************************************************)
(* Theorems about WebsocketTransport for any number of connects, messages  *)
(* and disconnect() calls.                                                 *)
(***************************************************************************)
EXTENDS WebsocketTransport, TLAPS

-----------------------------------------------------------------------------
(* Types.  TypeOK alone is not inductive: disconnect() closes the last     *)
(* client, so a source that is not canceled must have one.                 *)

\* The connects made so far are those up to last.
Numbered ==
    /\ \A k \in Connects : loopPc[k] # "none" <=> k <= last
    /\ \A k \in Connects : tce[k] # "none" <=> k <= last
    /\ \A k \in Connects : loopPc[k] = "wait" => reads[k] # 0
    /\ 0 \in canceled
    /\ \A k \in canceled : k <= last

TypeInv == TypeOK /\ Numbered

\* The message after one that is not the last is a message.
LEMMA NextMessage ==
  ASSUME NEW t \in 0 .. MaxMsgs, NEW s \in 0 .. MaxMsgs, t < s
  PROVE  t + 1 \in Msgs
  BY ConstAssumption DEF Msgs

\* The constructor's state is typed.
LEMMA TypeInit == Init => TypeInv
  BY ConstAssumption DEF Init, TypeInv, TypeOK, Numbered, Connects, Msgs

\* Every step keeps every variable in its type.
LEMMA TypeStep ==
  ASSUME TypeInv, [Next]_vars
  PROVE  TypeInv'
<1> USE ConstAssumption DEF TypeInv, TypeOK, Numbered, Connects, Msgs, loopVars, sockVars, discVars
<1>1. CASE Connect
  BY <1>1 DEF Connect, NotConnected
<1>2. ASSUME NEW k \in Connects, Connected(k) PROVE TypeInv'
  BY <1>2 DEF Connected, LoopGoto
<1>3. ASSUME NEW k \in Connects, ConnectFails(k) PROVE TypeInv'
  BY <1>3 DEF ConnectFails, LoopGoto
<1>4. ASSUME NEW k \in Connects, ConnectCompletes(k) PROVE TypeInv'
  BY <1>4 DEF ConnectCompletes
<1>5. ASSUME NEW k \in Connects, Receive(k) PROVE TypeInv'
  <2>1. loopPc[k] \in {"opened", "again"} /\ last \in Connects
    BY <1>5 DEF Receive, LoopGoto
  <2>2. loopPc' = [loopPc EXCEPT ![k] = "wait"] /\ reads' = [reads EXCEPT ![k] = last]
    BY <1>5 DEF Receive, LoopGoto
  <2>3. UNCHANGED <<last, canceled, tce, reported, socket, sent, taken, handled,
                    discPc, closes, alive>>
    BY <1>5 DEF Receive
  <2>4. TypeOK'
    BY <2>1, <2>2, <2>3
  <2>5. Numbered'
    BY <2>1, <2>2, <2>3
  <2> QED
    BY <2>4, <2>5
<1>6. ASSUME NEW k \in Connects, TakeMessage(k) PROVE TypeInv'
  <2>1. loopPc[k] = "wait" /\ reads[k] \in Connects
    BY <1>6 DEF TakeMessage
  <2>2. taken[reads[k]] + 1 \in Msgs
    <3>1. HasMessage(reads[k])
      BY <1>6 DEF TakeMessage
    <3>2. taken[reads[k]] \in 0 .. MaxMsgs /\ sent[reads[k]] \in 0 .. MaxMsgs
      BY <2>1
    <3>3. taken[reads[k]] < sent[reads[k]]
      BY <3>1 DEF HasMessage
    <3> QED
      BY <3>2, <3>3, NextMessage
  <2>3. taken' \in [Connects -> 0 .. MaxMsgs]
    <3>1. taken' = [taken EXCEPT ![reads[k]] = @ + 1]
      BY <1>6 DEF TakeMessage
    <3>2. taken[reads[k]] + 1 \in 0 .. MaxMsgs
      BY <2>2
    <3> QED
      BY <3>1, <3>2, <2>1
  <2>4. handled' \in [Connects -> Seq(Msgs)]
    <3>1. Append(handled[reads[k]], taken[reads[k]] + 1) \in Seq(Msgs)
      BY <2>1, <2>2
    <3> QED
      BY <1>6, <2>1, <3>1 DEF TakeMessage
  <2>5. \/ loopPc' = [loopPc EXCEPT ![k] = "process"]
        \/ loopPc' = [loopPc EXCEPT ![k] = "ended"]
    BY <1>6 DEF TakeMessage, LoopGoto
  <2> QED
    BY <1>6, <2>1, <2>3, <2>4, <2>5 DEF TakeMessage
<1>7. ASSUME NEW k \in Connects, ProcessReturns(k) PROVE TypeInv'
  BY <1>7 DEF ProcessReturns, LoopGoto
<1>8. ASSUME NEW k \in Connects, ReceiveFails(k) PROVE TypeInv'
  BY <1>8 DEF ReceiveFails, LoopFails, LoopGoto, HasMessage
<1>9. ASSUME NEW k \in Connects, MessageUnreadable(k) PROVE TypeInv'
  BY <1>9 DEF MessageUnreadable, LoopFails, LoopGoto
<1>10. ASSUME NEW k \in Connects, ReportError(k) PROVE TypeInv'
  BY <1>10 DEF ReportError, LoopGoto
<1>11. ASSUME NEW k \in Connects, ErrorReturns(k) PROVE TypeInv'
  BY <1>11 DEF ErrorReturns, LoopGoto
<1>12. ASSUME NEW k \in Connects, SocketOpens(k) PROVE TypeInv'
  BY <1>12 DEF SocketOpens
<1>13. ASSUME NEW k \in Connects, SocketFails(k) PROVE TypeInv'
  BY <1>13 DEF SocketFails
<1>14. ASSUME NEW k \in Connects, SocketBreaks(k) PROVE TypeInv'
  BY <1>14 DEF SocketBreaks
<1>15. ASSUME NEW k \in Connects, ServerSends(k) PROVE TypeInv'
  <2>1. sent[k] + 1 \in 0 .. MaxMsgs
    BY <1>15 DEF ServerSends
  <2> QED
    BY <1>15, <2>1 DEF ServerSends
<1>16. ASSUME NEW d \in Disconnects, Disconnect(d) PROVE TypeInv'
  <2>1. CASE last \in canceled
    BY <1>16, <2>1 DEF Disconnect, NothingToClose
  <2>2. CASE last \notin canceled
    <3>1. last \in Connects
      BY <2>2
    <3>2. /\ canceled' = canceled \cup {last}
          /\ discPc' = [discPc EXCEPT ![d] = "close"]
          /\ closes' = [closes EXCEPT ![d] = last]
      BY <1>16, <2>2 DEF Disconnect, NothingToClose, CancelLoop, BeginClose
    <3>3. UNCHANGED <<last, tce, loopPc, reads, reported, socket, sent, taken,
                      handled, alive>>
      BY <1>16 DEF Disconnect
    <3>6. /\ discPc' \in [Disconnects -> {"idle", "close", "done"}]
          /\ closes' \in [Disconnects -> Connects \cup {0}]
      BY <3>1, <3>2
    <3>7. \A e \in Disconnects : discPc'[e] = "close" => closes'[e] # 0
      BY <3>1, <3>2
    <3>4. TypeOK'
      BY <3>1, <3>2, <3>3, <3>6, <3>7
    <3>5. Numbered'
      BY <3>1, <3>2, <3>3
    <3> QED
      BY <3>4, <3>5
  <2> QED
    BY <2>1, <2>2
<1>17. ASSUME NEW d \in Disconnects, CloseCompletes(d) PROVE TypeInv'
  BY <1>17 DEF CloseCompletes, CloseSocket
<1>18. CASE Destroy
  <2>1. CASE last \in canceled
    BY <1>18, <2>1 DEF Destroy, NothingToClose
  <2>2. CASE last \notin canceled
    <3>1. last \in Connects
      BY <2>2
    <3>2. /\ canceled' = canceled \cup {last}
          /\ socket' = [socket EXCEPT ![last] = "closed"]
          /\ alive' = FALSE
      BY <1>18, <2>2 DEF Destroy, NothingToClose, CancelLoop
    <3>3. UNCHANGED <<last, tce, loopPc, reads, reported, sent, taken, handled,
                      discPc, closes>>
      BY <1>18 DEF Destroy
    <3>4. TypeOK'
      BY <3>1, <3>2, <3>3
    <3>5. Numbered'
      BY <3>1, <3>2, <3>3
    <3> QED
      BY <3>4, <3>5
  <2> QED
    BY <2>1, <2>2
<1>19. CASE UNCHANGED vars
  BY <1>19 DEF vars
<1> QED
  BY <1>1, <1>2, <1>3, <1>4, <1>5, <1>6, <1>7, <1>8, <1>9, <1>10, <1>11,
     <1>12, <1>13, <1>14, <1>15, <1>16, <1>17, <1>18, <1>19 DEF Next,
     LoopStep

\* However often the transport is connected and disconnected, its variables
\* keep their types, and no disconnect() closes a client that is not there.
THEOREM TransportTypeCorrect == Spec => []TypeOK
<1>1. Spec => []TypeInv
  BY TypeInit, TypeStep, PTL DEF Spec
<1> QED
  BY <1>1, PTL DEF TypeInv

-----------------------------------------------------------------------------
(* One live loop, and TransportLink.                                       *)

LiveInv == TypeInv /\ OneLiveLoop

\* connect() only begins a loop when the last one was canceled.
LEMMA LiveStep ==
  ASSUME LiveInv, [Next]_vars
  PROVE  OneLiveLoop'
<1> USE ConstAssumption DEF LiveInv, TypeInv, TypeOK, Numbered, OneLiveLoop, Connects, loopVars, sockVars, discVars
<1>1. CASE Connect
  BY <1>1 DEF Connect, NotConnected
<1>2. ASSUME NEW k \in Connects, Connected(k) PROVE OneLiveLoop'
  BY <1>2 DEF Connected, LoopGoto
<1>3. ASSUME NEW k \in Connects, ConnectFails(k) PROVE OneLiveLoop'
  BY <1>3 DEF ConnectFails, LoopGoto
<1>4. ASSUME NEW k \in Connects, ConnectCompletes(k) PROVE OneLiveLoop'
  BY <1>4 DEF ConnectCompletes
<1>5. ASSUME NEW k \in Connects, Receive(k) PROVE OneLiveLoop'
  BY <1>5 DEF Receive, LoopGoto
<1>6. ASSUME NEW k \in Connects, TakeMessage(k) PROVE OneLiveLoop'
  BY <1>6 DEF TakeMessage, LoopGoto, HasMessage, HandsOver
<1>7. ASSUME NEW k \in Connects, ProcessReturns(k) PROVE OneLiveLoop'
  BY <1>7 DEF ProcessReturns, LoopGoto
<1>8. ASSUME NEW k \in Connects, ReceiveFails(k) PROVE OneLiveLoop'
  BY <1>8 DEF ReceiveFails, LoopFails, LoopGoto, HasMessage
<1>9. ASSUME NEW k \in Connects, MessageUnreadable(k) PROVE OneLiveLoop'
  BY <1>9 DEF MessageUnreadable, LoopFails, LoopGoto
<1>10. ASSUME NEW k \in Connects, ReportError(k) PROVE OneLiveLoop'
  BY <1>10 DEF ReportError, LoopGoto
<1>11. ASSUME NEW k \in Connects, ErrorReturns(k) PROVE OneLiveLoop'
  BY <1>11 DEF ErrorReturns, LoopGoto
<1>12. ASSUME NEW k \in Connects, SocketOpens(k) PROVE OneLiveLoop'
  BY <1>12 DEF SocketOpens
<1>13. ASSUME NEW k \in Connects, SocketFails(k) PROVE OneLiveLoop'
  BY <1>13 DEF SocketFails
<1>14. ASSUME NEW k \in Connects, SocketBreaks(k) PROVE OneLiveLoop'
  BY <1>14 DEF SocketBreaks
<1>15. ASSUME NEW k \in Connects, ServerSends(k) PROVE OneLiveLoop'
  BY <1>15 DEF ServerSends
<1>16. ASSUME NEW d \in Disconnects, Disconnect(d) PROVE OneLiveLoop'
  BY <1>16 DEF Disconnect, NothingToClose, CancelLoop, BeginClose
<1>17. ASSUME NEW d \in Disconnects, CloseCompletes(d) PROVE OneLiveLoop'
  BY <1>17 DEF CloseCompletes, CloseSocket
<1>18. CASE Destroy
  BY <1>18 DEF Destroy, NothingToClose, CancelLoop, StrongHolders
<1>19. CASE UNCHANGED vars
  BY <1>19 DEF vars
<1> QED
  BY <1>1, <1>2, <1>3, <1>4, <1>5, <1>6, <1>7, <1>8, <1>9, <1>10, <1>11,
     <1>12, <1>13, <1>14, <1>15, <1>16, <1>17, <1>18, <1>19 DEF Next,
     LoopStep

\* At most one receive loop is not canceled, and it is the one disconnect()
\* cancels, whatever the caller does.
THEOREM LoopIsUnique == Spec => []OneLiveLoop
<1>1. Init => OneLiveLoop
  BY DEF Init, OneLiveLoop
<1>2. LiveInv /\ [Next]_vars => LiveInv'
  BY TypeStep, LiveStep DEF LiveInv
<1>3. Spec => []LiveInv
  BY TypeInit, <1>1, <1>2, PTL DEF Spec, LiveInv
<1> QED
  BY <1>3, PTL DEF LiveInv

\* The link as WebsocketTransport defines it.
LinkOf ==
    IF last = 0 THEN "off"
    ELSE IF loopPc[last] = "connect"
         THEN IF last \in canceled THEN "closing" ELSE "connecting"
         ELSE IF last \in canceled THEN "off" ELSE "live"

\* Taking a message does not show on the link.
LEMMA TakeKeepsLink ==
  ASSUME TypeInv, NEW k \in Connects, TakeMessage(k)
  PROVE  LinkOf' = LinkOf
<1>1. /\ loopPc[k] = "wait"
      /\ UNCHANGED <<canceled, last>>
  BY DEF TakeMessage
<1>2. PICK pc \in {"process", "ended"} : loopPc' = [loopPc EXCEPT ![k] = pc]
  BY DEF TakeMessage, LoopGoto
<1>3. last \in Connects /\ last # 0
  <2>1. k <= last /\ k \in Nat /\ k # 0
    BY <1>1 DEF TypeInv, Numbered, Connects
  <2> QED
    BY <2>1 DEF TypeInv, TypeOK, Connects
<1>4. DOMAIN loopPc = Connects
  BY DEF TypeInv, TypeOK
<1>5. loopPc'[last] = "connect" <=> loopPc[last] = "connect"
  BY <1>1, <1>2, <1>3, <1>4
<1> QED
  BY <1>1, <1>3, <1>5 DEF LinkOf

\* Every step of the transport is a step of the link, or none.
LEMMA LinkStep ==
  ASSUME LiveInv, LiveInv', [Next]_vars
  PROVE  [Link!Next]_LinkOf
<1> USE ConstAssumption DEF LiveInv, TypeInv, TypeOK, Numbered, OneLiveLoop, Connects, LinkOf, Link!Next, Link!Connect, Link!Open, Link!Fail, Link!Break, Link!Disconnect, loopVars, sockVars, discVars
<1>1. CASE Connect
  BY <1>1 DEF Connect, NotConnected
<1>2. ASSUME NEW k \in Connects, Connected(k) PROVE [Link!Next]_LinkOf
  BY <1>2 DEF Connected, LoopGoto
<1>3. ASSUME NEW k \in Connects, ConnectFails(k) PROVE [Link!Next]_LinkOf
  BY <1>3 DEF ConnectFails, LoopGoto
<1>4. ASSUME NEW k \in Connects, ConnectCompletes(k) PROVE [Link!Next]_LinkOf
  BY <1>4 DEF ConnectCompletes
<1>5. ASSUME NEW k \in Connects, Receive(k) PROVE [Link!Next]_LinkOf
  BY <1>5 DEF Receive, LoopGoto
<1>6. ASSUME NEW k \in Connects, TakeMessage(k) PROVE [Link!Next]_LinkOf
  BY <1>6, TakeKeepsLink
<1>7. ASSUME NEW k \in Connects, ProcessReturns(k) PROVE [Link!Next]_LinkOf
  BY <1>7 DEF ProcessReturns, LoopGoto
<1>8. ASSUME NEW k \in Connects, ReceiveFails(k) PROVE [Link!Next]_LinkOf
  BY <1>8 DEF ReceiveFails, LoopFails, LoopGoto, HasMessage
<1>9. ASSUME NEW k \in Connects, MessageUnreadable(k) PROVE [Link!Next]_LinkOf
  BY <1>9 DEF MessageUnreadable, LoopFails, LoopGoto
<1>10. ASSUME NEW k \in Connects, ReportError(k) PROVE [Link!Next]_LinkOf
  BY <1>10 DEF ReportError, LoopGoto
<1>11. ASSUME NEW k \in Connects, ErrorReturns(k) PROVE [Link!Next]_LinkOf
  BY <1>11 DEF ErrorReturns, LoopGoto
<1>12. ASSUME NEW k \in Connects, SocketOpens(k) PROVE [Link!Next]_LinkOf
  BY <1>12 DEF SocketOpens
<1>13. ASSUME NEW k \in Connects, SocketFails(k) PROVE [Link!Next]_LinkOf
  BY <1>13 DEF SocketFails
<1>14. ASSUME NEW k \in Connects, SocketBreaks(k) PROVE [Link!Next]_LinkOf
  BY <1>14 DEF SocketBreaks
<1>15. ASSUME NEW k \in Connects, ServerSends(k) PROVE [Link!Next]_LinkOf
  BY <1>15 DEF ServerSends
<1>16. ASSUME NEW d \in Disconnects, Disconnect(d) PROVE [Link!Next]_LinkOf
  BY <1>16 DEF Disconnect, NothingToClose, CancelLoop, BeginClose
<1>17. ASSUME NEW d \in Disconnects, CloseCompletes(d) PROVE [Link!Next]_LinkOf
  BY <1>17 DEF CloseCompletes, CloseSocket
<1>18. CASE Destroy
  BY <1>18 DEF Destroy, NothingToClose, CancelLoop, StrongHolders
<1>19. CASE UNCHANGED vars
  BY <1>19 DEF vars
<1> QED
  BY <1>1, <1>2, <1>3, <1>4, <1>5, <1>6, <1>7, <1>8, <1>9, <1>10, <1>11,
     <1>12, <1>13, <1>14, <1>15, <1>16, <1>17, <1>18, <1>19 DEF Next,
     LoopStep

\* The transport implements TransportLink, whatever the caller does.
THEOREM ImplementsLink == Spec => LinkSpec
<1>1. Init => Link!Init
  BY DEF Init, Link!Init
<1>2. Spec => []LiveInv
  <2>1. Init => OneLiveLoop
    BY DEF Init, OneLiveLoop
  <2>2. LiveInv /\ [Next]_vars => LiveInv'
    BY TypeStep, LiveStep DEF LiveInv
  <2> QED
    BY TypeInit, <2>1, <2>2, PTL DEF Spec, LiveInv
<1>3. LiveInv /\ LiveInv' /\ [Next]_vars => [Link!Next]_LinkOf
  BY LinkStep
<1> QED
  BY <1>1, <1>2, <1>3, PTL DEF Spec, LinkSpec, Link!Spec, LinkOf

-----------------------------------------------------------------------------
(* The socket of a canceled loop.                                          *)

\* A connect that was made has a client, and a loop that is not canceled waits
\* for a message of its own: m_websocket_client is replaced by a connect() only
\* once that loop is canceled.
ClientInv ==
    /\ \A k \in Connects : tce[k] # "none" => socket[k] # "none"
    /\ \A k \in Connects : loopPc[k] = "wait" /\ k \notin canceled => reads[k] = k

SocketInv == LiveInv /\ ClientInv /\ CanceledHasNoSocket

\* A loop is canceled by a disconnect(), which then closes its socket, by the
\* destructor, which does so at once, or because its own socket failed.
LEMMA SocketStep ==
  ASSUME SocketInv, [Next]_vars
  PROVE  ClientInv' /\ CanceledHasNoSocket'
<1> DEFINE Goal == ClientInv' /\ CanceledHasNoSocket'
<1> USE ConstAssumption DEF SocketInv, LiveInv, TypeInv, TypeOK, Numbered, OneLiveLoop, ClientInv,
         CanceledHasNoSocket, Connects, loopVars, sockVars, discVars
<1>1. CASE Connect
  BY <1>1 DEF Connect, NotConnected
<1>2. ASSUME NEW k \in Connects, Connected(k) PROVE Goal
  BY <1>2 DEF Connected, LoopGoto
<1>3. ASSUME NEW k \in Connects, ConnectFails(k) PROVE Goal
  BY <1>3 DEF ConnectFails, LoopGoto
<1>4. ASSUME NEW k \in Connects, ConnectCompletes(k) PROVE Goal
  BY <1>4 DEF ConnectCompletes
<1>5. ASSUME NEW k \in Connects, Receive(k) PROVE Goal
  <2>1. /\ loopPc[k] \in {"opened", "again"}
        /\ loopPc' = [loopPc EXCEPT ![k] = "wait"] /\ reads' = [reads EXCEPT ![k] = last]
        /\ UNCHANGED <<last, canceled, tce, socket, discPc, closes>>
    BY <1>5 DEF Receive, LoopGoto
  <2>2. k \notin canceled => k = last
    BY <2>1
  <2> QED
    BY <2>1, <2>2
<1>6. ASSUME NEW k \in Connects, TakeMessage(k) PROVE Goal
  <2>1. \E to \in {"process", "ended"} : loopPc' = [loopPc EXCEPT ![k] = to]
    BY <1>6 DEF TakeMessage, LoopGoto
  <2>2. UNCHANGED <<last, canceled, tce, reads, socket, discPc, closes>>
    BY <1>6 DEF TakeMessage
  <2> QED
    BY <2>1, <2>2
<1>7. ASSUME NEW k \in Connects, ProcessReturns(k) PROVE Goal
  BY <1>7 DEF ProcessReturns, LoopGoto
<1>8. ASSUME NEW k \in Connects, ReceiveFails(k) PROVE Goal
  BY <1>8 DEF ReceiveFails, LoopFails, LoopGoto, HasMessage
<1>9. ASSUME NEW k \in Connects, MessageUnreadable(k) PROVE Goal
  BY <1>9 DEF MessageUnreadable, LoopFails, LoopGoto
<1>10. ASSUME NEW k \in Connects, ReportError(k) PROVE Goal
  BY <1>10 DEF ReportError, LoopGoto
<1>11. ASSUME NEW k \in Connects, ErrorReturns(k) PROVE Goal
  BY <1>11 DEF ErrorReturns, LoopGoto
<1>12. ASSUME NEW k \in Connects, SocketOpens(k) PROVE Goal
  BY <1>12 DEF SocketOpens
<1>13. ASSUME NEW k \in Connects, SocketFails(k) PROVE Goal
  BY <1>13 DEF SocketFails
<1>14. ASSUME NEW k \in Connects, SocketBreaks(k) PROVE Goal
  BY <1>14 DEF SocketBreaks
<1>15. ASSUME NEW k \in Connects, ServerSends(k) PROVE Goal
  BY <1>15 DEF ServerSends
<1>16. ASSUME NEW d \in Disconnects, Disconnect(d) PROVE Goal
  <2>1. UNCHANGED <<last, tce, loopPc, reads, socket>> /\ discPc[d] = "idle"
    BY <1>16 DEF Disconnect
  <2>2. CASE last \in canceled
    <3>1. canceled' = canceled /\ closes' = closes /\ discPc' = [discPc EXCEPT ![d] = "done"]
      BY <1>16, <2>2 DEF Disconnect, NothingToClose
    <3> QED
      BY <2>1, <3>1
  <2>3. CASE last \notin canceled
    <3>1. /\ canceled' = canceled \cup {last}
          /\ discPc' = [discPc EXCEPT ![d] = "close"] /\ closes' = [closes EXCEPT ![d] = last]
      BY <1>16, <2>3 DEF Disconnect, NothingToClose, CancelLoop, BeginClose
    <3>2. ClientInv'
      BY <2>1, <3>1
    <3>3. discPc'[d] = "close" /\ closes'[d] = last
      BY <1>16, <3>1
    <3>4. \A e \in Disconnects : discPc[e] = "close" => discPc'[e] = "close" /\ closes'[e] = closes[e]
      BY <2>1, <3>1
    <3>5. CanceledHasNoSocket'
      BY <1>16, <2>1, <3>1, <3>3, <3>4
    <3> QED
      BY <3>2, <3>5
  <2> QED
    BY <2>2, <2>3
<1>17. ASSUME NEW d \in Disconnects, CloseCompletes(d) PROVE Goal
  BY <1>17 DEF CloseCompletes, CloseSocket
<1>18. CASE Destroy
  <2>1. UNCHANGED <<last, tce, loopPc, reads, discPc, closes>>
    BY <1>18 DEF Destroy
  <2>2. CASE last \in canceled
    BY <1>18, <2>1, <2>2 DEF Destroy, NothingToClose
  <2>3. CASE last \notin canceled
    <3>1. canceled' = canceled \cup {last} /\ socket' = [socket EXCEPT ![last] = "closed"]
      BY <1>18, <2>3 DEF Destroy, NothingToClose, CancelLoop
    <3>2. last \in Connects
      BY <2>3
    <3> QED
      BY <2>1, <3>1, <3>2
  <2> QED
    BY <2>2, <2>3
<1>19. CASE UNCHANGED vars
  BY <1>19 DEF vars
<1> QED
  BY <1>1, <1>2, <1>3, <1>4, <1>5, <1>6, <1>7, <1>8, <1>9, <1>10, <1>11,
     <1>12, <1>13, <1>14, <1>15, <1>16, <1>17, <1>18, <1>19 DEF Next,
     LoopStep

\* Whatever the caller does, the socket of a canceled loop is gone or being
\* closed.
THEOREM CanceledSocketsGo == Spec => []CanceledHasNoSocket
<1>1. Init => SocketInv
  BY TypeInit DEF Init, SocketInv, LiveInv, OneLiveLoop, ClientInv, CanceledHasNoSocket
<1>2. SocketInv /\ [Next]_vars => SocketInv'
  BY TypeStep, LiveStep, SocketStep DEF SocketInv, LiveInv
<1> QED
  BY <1>1, <1>2, PTL DEF Spec, SocketInv

-----------------------------------------------------------------------------
(* The transport of a connection.                                          *)

\* A connection connects again only when the last loop is over: it has nothing
\* left to do but return from the error callback.
OverInv ==
    /\ \A k \in Connects : tce[k] = "failed" => loopPc[k] = "ended"
    /\ \A k \in reported : loopPc[k] \in {"error", "ended"}
    /\ \A k \in Connects : k < last => loopPc[k] \in {"error", "ended"}
    /\ ~alive => last \in canceled

UseInv == TypeInv /\ OneLiveLoop /\ OverInv /\ LoopReadsOwnSocket

\* Every step of a transport used by a connection keeps to that.
LEMMA UseStep ==
  ASSUME Usage = "connection", UseInv, [Next]_vars
  PROVE  OverInv' /\ LoopReadsOwnSocket'
<1> USE ConstAssumption DEF UseInv, TypeInv, TypeOK, Numbered, OneLiveLoop, OverInv, LoopReadsOwnSocket, Connects, MayConnect, loopVars, sockVars, discVars
<1>1. CASE Connect
  BY <1>1 DEF Connect, NotConnected
<1>2. ASSUME NEW k \in Connects, Connected(k) PROVE OverInv' /\ LoopReadsOwnSocket'
  BY <1>2 DEF Connected, LoopGoto
<1>3. ASSUME NEW k \in Connects, ConnectFails(k) PROVE OverInv' /\ LoopReadsOwnSocket'
  BY <1>3 DEF ConnectFails, LoopGoto
<1>4. ASSUME NEW k \in Connects, ConnectCompletes(k) PROVE OverInv' /\ LoopReadsOwnSocket'
  BY <1>4 DEF ConnectCompletes
<1>5. ASSUME NEW k \in Connects, Receive(k) PROVE OverInv' /\ LoopReadsOwnSocket'
  <2>1. loopPc[k] \in {"opened", "again"} /\ k = last
    <3>1. loopPc[k] \in {"opened", "again"}
      BY <1>5 DEF Receive, LoopGoto
    <3>2. k <= last
      BY <3>1
    <3>3. ~(k < last)
      BY <3>1
    <3> QED
      BY <3>1, <3>2, <3>3
  <2>2. loopPc' = [loopPc EXCEPT ![k] = "wait"] /\ reads' = [reads EXCEPT ![k] = last]
    BY <1>5 DEF Receive, LoopGoto
  <2> QED
    BY <1>5, <2>1, <2>2 DEF Receive
<1>6. ASSUME NEW k \in Connects, TakeMessage(k) PROVE OverInv' /\ LoopReadsOwnSocket'
  BY <1>6 DEF TakeMessage, LoopGoto, HasMessage, HandsOver
<1>7. ASSUME NEW k \in Connects, ProcessReturns(k) PROVE OverInv' /\ LoopReadsOwnSocket'
  BY <1>7 DEF ProcessReturns, LoopGoto
<1>8. ASSUME NEW k \in Connects, ReceiveFails(k) PROVE OverInv' /\ LoopReadsOwnSocket'
  BY <1>8 DEF ReceiveFails, LoopFails, LoopGoto, HasMessage
<1>9. ASSUME NEW k \in Connects, MessageUnreadable(k) PROVE OverInv' /\ LoopReadsOwnSocket'
  BY <1>9 DEF MessageUnreadable, LoopFails, LoopGoto
<1>10. ASSUME NEW k \in Connects, ReportError(k) PROVE OverInv' /\ LoopReadsOwnSocket'
  BY <1>10 DEF ReportError, LoopGoto
<1>11. ASSUME NEW k \in Connects, ErrorReturns(k) PROVE OverInv' /\ LoopReadsOwnSocket'
  BY <1>11 DEF ErrorReturns, LoopGoto
<1>12. ASSUME NEW k \in Connects, SocketOpens(k) PROVE OverInv' /\ LoopReadsOwnSocket'
  BY <1>12 DEF SocketOpens
<1>13. ASSUME NEW k \in Connects, SocketFails(k) PROVE OverInv' /\ LoopReadsOwnSocket'
  BY <1>13 DEF SocketFails
<1>14. ASSUME NEW k \in Connects, SocketBreaks(k) PROVE OverInv' /\ LoopReadsOwnSocket'
  BY <1>14 DEF SocketBreaks
<1>15. ASSUME NEW k \in Connects, ServerSends(k) PROVE OverInv' /\ LoopReadsOwnSocket'
  BY <1>15 DEF ServerSends
<1>16. ASSUME NEW d \in Disconnects, Disconnect(d) PROVE OverInv' /\ LoopReadsOwnSocket'
  BY <1>16 DEF Disconnect, NothingToClose, CancelLoop, BeginClose
<1>17. ASSUME NEW d \in Disconnects, CloseCompletes(d) PROVE OverInv' /\ LoopReadsOwnSocket'
  BY <1>17 DEF CloseCompletes, CloseSocket
<1>18. CASE Destroy
  BY <1>18 DEF Destroy, NothingToClose, CancelLoop, StrongHolders
<1>19. CASE UNCHANGED vars
  BY <1>19 DEF vars
<1> QED
  BY <1>1, <1>2, <1>3, <1>4, <1>5, <1>6, <1>7, <1>8, <1>9, <1>10, <1>11,
     <1>12, <1>13, <1>14, <1>15, <1>16, <1>17, <1>18, <1>19 DEF Next,
     LoopStep

\* A message is appended as it is taken, by the loop of its own socket.
LEMMA HandledStep ==
  ASSUME UseInv, AllMessagesHandled, [Next]_vars
  PROVE  AllMessagesHandled'
<1> USE ConstAssumption DEF UseInv, TypeInv, TypeOK, Numbered, OneLiveLoop, OverInv, LoopReadsOwnSocket, AllMessagesHandled, Connects, loopVars, sockVars, discVars
<1>1. CASE Connect
  BY <1>1 DEF Connect, NotConnected
<1>2. ASSUME NEW k \in Connects, Connected(k) PROVE AllMessagesHandled'
  BY <1>2 DEF Connected, LoopGoto
<1>3. ASSUME NEW k \in Connects, ConnectFails(k) PROVE AllMessagesHandled'
  BY <1>3 DEF ConnectFails, LoopGoto
<1>4. ASSUME NEW k \in Connects, ConnectCompletes(k) PROVE AllMessagesHandled'
  BY <1>4 DEF ConnectCompletes
<1>5. ASSUME NEW k \in Connects, Receive(k) PROVE AllMessagesHandled'
  BY <1>5 DEF Receive, LoopGoto
<1>6. ASSUME NEW k \in Connects, TakeMessage(k) PROVE AllMessagesHandled'
  <2>1. CASE HandsOver(k) /\ k \notin canceled
    <3>1. reads[k] = k /\ taken[k] \in Nat
      BY <1>6 DEF TakeMessage, LoopReadsOwnSocket
    <3>2. handled[k] = [i \in 1 .. taken[k] |-> i]
      BY <2>1 DEF AllMessagesHandled
    <3>3. Append(handled[k], taken[k] + 1) = [i \in 1 .. taken[k] + 1 |-> i]
      BY <3>1, <3>2
    <3>4. /\ handled' = [handled EXCEPT ![k] = Append(handled[k], taken[k] + 1)]
          /\ taken' = [taken EXCEPT ![k] = taken[k] + 1]
          /\ canceled' = canceled
      BY <1>6, <2>1, <3>1 DEF TakeMessage
    <3> QED
      BY <3>1, <3>3, <3>4 DEF AllMessagesHandled
  <2>2. CASE ~(HandsOver(k) /\ k \notin canceled)
    <3>1. k \in canceled
      BY <2>2, <1>6 DEF HandsOver, TakeMessage, LoopGoto
    <3>2. /\ \A j \in Connects : j # k => handled'[j] = handled[j] /\ taken'[j] = taken[j]
          /\ canceled' = canceled
      BY <2>2, <3>1, <1>6 DEF TakeMessage, HandsOver, LoopReadsOwnSocket
    <3> QED
      BY <3>1, <3>2 DEF AllMessagesHandled
  <2> QED
    BY <2>1, <2>2
<1>7. ASSUME NEW k \in Connects, ProcessReturns(k) PROVE AllMessagesHandled'
  BY <1>7 DEF ProcessReturns, LoopGoto
<1>8. ASSUME NEW k \in Connects, ReceiveFails(k) PROVE AllMessagesHandled'
  BY <1>8 DEF ReceiveFails, LoopFails, LoopGoto, HasMessage
<1>9. ASSUME NEW k \in Connects, MessageUnreadable(k) PROVE AllMessagesHandled'
  BY <1>9 DEF MessageUnreadable, LoopFails, LoopGoto
<1>10. ASSUME NEW k \in Connects, ReportError(k) PROVE AllMessagesHandled'
  BY <1>10 DEF ReportError, LoopGoto
<1>11. ASSUME NEW k \in Connects, ErrorReturns(k) PROVE AllMessagesHandled'
  BY <1>11 DEF ErrorReturns, LoopGoto
<1>12. ASSUME NEW k \in Connects, SocketOpens(k) PROVE AllMessagesHandled'
  BY <1>12 DEF SocketOpens
<1>13. ASSUME NEW k \in Connects, SocketFails(k) PROVE AllMessagesHandled'
  BY <1>13 DEF SocketFails
<1>14. ASSUME NEW k \in Connects, SocketBreaks(k) PROVE AllMessagesHandled'
  BY <1>14 DEF SocketBreaks
<1>15. ASSUME NEW k \in Connects, ServerSends(k) PROVE AllMessagesHandled'
  BY <1>15 DEF ServerSends
<1>16. ASSUME NEW d \in Disconnects, Disconnect(d) PROVE AllMessagesHandled'
  BY <1>16 DEF Disconnect, NothingToClose, CancelLoop, BeginClose
<1>17. ASSUME NEW d \in Disconnects, CloseCompletes(d) PROVE AllMessagesHandled'
  BY <1>17 DEF CloseCompletes, CloseSocket
<1>18. CASE Destroy
  BY <1>18 DEF Destroy, NothingToClose, CancelLoop, StrongHolders
<1>19. CASE UNCHANGED vars
  BY <1>19 DEF vars
<1> QED
  BY <1>1, <1>2, <1>3, <1>4, <1>5, <1>6, <1>7, <1>8, <1>9, <1>10, <1>11,
     <1>12, <1>13, <1>14, <1>15, <1>16, <1>17, <1>18, <1>19 DEF Next,
     LoopStep

\* What follows holds of the transport of a connection, in every state.
LEMMA UseHolds ==
  ASSUME Usage = "connection"
  PROVE  Spec => [](LoopReadsOwnSocket /\ AllMessagesHandled)
<1>1. Init => UseInv /\ AllMessagesHandled
  <2>1. Init => TypeInv
    BY TypeInit
  <2>2. Init => AllMessagesHandled
    BY DEF Init, AllMessagesHandled
  <2>3. Init => OneLiveLoop /\ OverInv /\ LoopReadsOwnSocket
    BY ConstAssumption DEF Init, OneLiveLoop, OverInv, LoopReadsOwnSocket, Connects
  <2> QED
    BY <2>1, <2>2, <2>3 DEF UseInv
<1>2. UseInv /\ AllMessagesHandled /\ [Next]_vars => (UseInv /\ AllMessagesHandled)'
  <2>1. UseInv => LiveInv
    BY DEF UseInv, LiveInv
  <2> QED
    BY <2>1, TypeStep, LiveStep, UseStep, HandledStep DEF UseInv, LiveInv
<1> QED
  BY <1>1, <1>2, PTL DEF Spec, UseInv

\* The transport of a connection reads a socket only in the loop of its own
\* connect(), whatever disconnects come in between.
THEOREM SocketsAreOwn ==
  ASSUME Usage = "connection"
  PROVE  Spec => []LoopReadsOwnSocket
  BY UseHolds, PTL

\* As long as that loop is not canceled, every message the socket returned is
\* handled once and in order.
THEOREM MessagesAreHandled ==
  ASSUME Usage = "connection"
  PROVE  Spec => []AllMessagesHandled
  BY UseHolds, PTL

=============================================================================
