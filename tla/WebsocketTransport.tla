-------------------------- MODULE WebsocketTransport --------------------------
(***************************************************************************)
(* signalr::websocket_transport: connect(), disconnect(), the receive loop *)
(* and the destructor of one transport, on sockets (websocket_client) that *)
(* open, fail, deliver messages and break as they please.                  *)
(*                                                                         *)
(* The k-th connect() creates a websocket_client, a source for its receive *)
(* loop and a connect_tce, so all three are named k; 0 is the source the   *)
(* constructor cancels.  m_receive_loop_cts and m_websocket_client are     *)
(* set together under m_start_stop_lock, so `last` stands for both.        *)
(*                                                                         *)
(* One action is one stretch of code between two points where another      *)
(* thread can interfere: a task boundary, a critical section, or the step  *)
(* from the check of a source to the receive() that follows it.            *)
(***************************************************************************)
EXTENDS Naturals, Sequences

CONSTANTS
    MaxConnects,    \* bound on the number of accepted connect() calls
    MaxMsgs,        \* bound on the messages a server sends on one socket
    Disconnects,    \* the disconnect() calls that may be made
    Usage           \* what the caller keeps to: see MayConnect

ASSUME ConstAssumption ==
    /\ MaxConnects \in Nat \ {0}
    /\ MaxMsgs \in Nat

ASSUME UsageAssumption == Usage \in {"connection", "awaited", "free"}

Connects == 1 .. MaxConnects
Msgs     == 1 .. MaxMsgs

VARIABLES
    last,       \* the last connect(), or 0
    canceled,   \* the connects whose receive_loop_cts is canceled
    tce,        \* connect_tce
    loopPc,     \* where the continuation of connect() and its loop are
    reads,      \* the socket the loop has called receive() on
    reported,   \* the connects whose loop called the error callback
    socket,     \* the websocket_client of each connect
    sent,       \* how many messages the server sent on a socket
    taken,      \* how many of them receive() has returned
    handled,    \* those given to process_response(), in order
    discPc,     \* where a disconnect() is
    closes,     \* the socket it closes
    alive       \* the transport object exists

loopVars == <<tce, loopPc, reads, reported>>
sockVars == <<socket, sent, taken>>
discVars == <<discPc, closes>>
vars     == <<last, canceled, loopVars, sockVars, handled, discVars, alive>>

TypeOK ==
    /\ last \in Connects \cup {0}
    /\ canceled \subseteq Connects \cup {0}
    /\ tce \in [Connects -> {"none", "pending", "set", "failed"}]
    /\ loopPc \in [Connects -> {"none", "connect", "opened", "wait", "process",
                                "again", "report", "error", "ended"}]
    /\ reads \in [Connects -> Connects \cup {0}]
    /\ reported \subseteq Connects
    /\ socket \in [Connects -> {"none", "connecting", "open", "failed", "closed"}]
    /\ sent \in [Connects -> 0 .. MaxMsgs]
    /\ taken \in [Connects -> 0 .. MaxMsgs]
    /\ handled \in [Connects -> Seq(Msgs)]
    /\ discPc \in [Disconnects -> {"idle", "close", "done"}]
    /\ closes \in [Disconnects -> Connects \cup {0}]
    /\ \A d \in Disconnects : discPc[d] = "close" => closes[d] # 0
    /\ alive \in BOOLEAN

Init ==
    /\ last = 0
    /\ canceled = {0}
    /\ tce = [k \in Connects |-> "none"]
    /\ loopPc = [k \in Connects |-> "none"]
    /\ reads = [k \in Connects |-> 0]
    /\ reported = {}
    /\ socket = [k \in Connects |-> "none"]
    /\ sent = [k \in Connects |-> 0]
    /\ taken = [k \in Connects |-> 0]
    /\ handled = [k \in Connects |-> <<>>]
    /\ discPc = [d \in Disconnects |-> "idle"]
    /\ closes = [d \in Disconnects |-> 0]
    /\ alive = TRUE

LoopGoto(k, from, to) ==
    /\ loopPc[k] = from
    /\ loopPc' = [loopPc EXCEPT ![k] = to]

-----------------------------------------------------------------------------
(* connect()                                                               *)

\* A connection connects its transport again when the error callback was
\* called or the last attempt failed, and never once it disconnects it.  An
\* "awaited" caller connects again whenever its disconnects completed, one
\* that is "free" whenever connect() does not throw.
MayConnect ==
    \/ Usage = "free"
    \/ Usage = "awaited" /\ \A d \in Disconnects : discPc[d] # "close"
    \/ /\ Usage = "connection"
       /\ \A d \in Disconnects : discPc[d] = "idle"
       /\ last # 0 => tce[last] = "failed" \/ last \in reported

\* connect() throws unless the last receive loop was canceled.
AlwaysConnects == TRUE
NotConnected   == last \in canceled

Connect ==
    /\ alive
    /\ MayConnect
    /\ last < MaxConnects
    /\ NotConnected
    /\ last' = last + 1
    /\ tce' = [tce EXCEPT ![last + 1] = "pending"]
    /\ loopPc' = [loopPc EXCEPT ![last + 1] = "connect"]
    /\ socket' = [socket EXCEPT ![last + 1] = "connecting"]
    /\ UNCHANGED <<canceled, reads, reported, sent, taken, handled, discVars,
                   alive>>

\* The continuation on the client's connect task starts the loop, whether its
\* source is canceled or not.
Connected(k) ==
    /\ socket[k] \in {"open", "closed"}
    /\ LoopGoto(k, "connect", "opened")
    /\ UNCHANGED <<last, canceled, tce, reads, reported, sockVars, handled,
                   discVars, alive>>

\* The source is canceled, so that connect() can be called again.
ConnectFails(k) ==
    /\ socket[k] = "failed"
    /\ LoopGoto(k, "connect", "ended")
    /\ canceled' = canceled \cup {k}
    /\ tce' = [tce EXCEPT ![k] = "failed"]
    /\ UNCHANGED <<last, reads, reported, sockVars, handled, discVars, alive>>

\* connect_tce is set after the first receive() was called.
ConnectCompletesUnlessCanceled(k) ==
    /\ k \notin canceled
    /\ tce[k] = "pending"
    /\ loopPc[k] \notin {"none", "connect", "opened"}
    /\ tce' = [tce EXCEPT ![k] = "set"]
    /\ UNCHANGED <<last, canceled, loopPc, reads, reported, sockVars, handled,
                   discVars, alive>>

ConnectCompletes(k) ==
    /\ tce[k] = "pending"
    /\ loopPc[k] \notin {"none", "connect", "opened"}
    /\ tce' = [tce EXCEPT ![k] = "set"]
    /\ UNCHANGED <<last, canceled, loopPc, reads, reported, sockVars, handled,
                   discVars, alive>>

-----------------------------------------------------------------------------
(* receive_loop()                                                          *)

\* receive() is called on the client m_websocket_client then holds.
Receive(k) ==
    /\ \/ LoopGoto(k, "opened", "wait")
       \/ LoopGoto(k, "again", "wait")
    /\ reads' = [reads EXCEPT ![k] = last]
    /\ UNCHANGED <<last, canceled, tce, reported, sockVars, handled, discVars,
                   alive>>

\* The continuation is skipped when the source is canceled, and does nothing
\* when the transport is gone.
HandsOver(k) == k \notin canceled /\ alive

HasMessage(c) == taken[c] < sent[c]

TakeMessage(k) ==
    LET c == reads[k]
    IN  /\ loopPc[k] = "wait"
        /\ HasMessage(c)
        /\ taken' = [taken EXCEPT ![c] = @ + 1]
        /\ IF HandsOver(k)
           THEN /\ LoopGoto(k, "wait", "process")
                /\ handled' = [handled EXCEPT ![c] = Append(@, taken[c] + 1)]
           ELSE LoopGoto(k, "wait", "ended") /\ UNCHANGED handled
        /\ UNCHANGED <<last, canceled, tce, reads, reported, socket, sent,
                       discVars, alive>>

\* process_response() is done: go on unless the source was canceled meanwhile.
ProcessReturns(k) ==
    /\ LoopGoto(k, "process", IF k \in canceled THEN "ended" ELSE "again")
    /\ UNCHANGED <<last, canceled, tce, reads, reported, sockVars, handled,
                   discVars, alive>>

\* What the loop does with a receive() that failed, before the error callback.
LoopFails(k) ==
    /\ LoopGoto(k, "wait", "report")
    /\ canceled' = canceled \cup {k}
    /\ socket' = [socket EXCEPT ![reads[k]] = "closed"]
    /\ UNCHANGED <<last, tce, reads, reported, sent, taken, handled, discVars,
                   alive>>

\* The socket is closed and has no more messages.
ReceiveFails(k) ==
    /\ loopPc[k] = "wait"
    /\ socket[reads[k]] = "closed"
    /\ ~HasMessage(reads[k])
    /\ LoopFails(k)

\* The message is none that receive() can return.
MessageUnreadable(k) ==
    /\ loopPc[k] = "wait"
    /\ socket[reads[k]] = "open"
    /\ LoopFails(k)

ReportError(k) ==
    /\ LoopGoto(k, "report", IF alive THEN "error" ELSE "ended")
    /\ reported' = IF alive THEN reported \cup {k} ELSE reported
    /\ UNCHANGED <<last, canceled, tce, reads, sockVars, handled, discVars,
                   alive>>

\* The loop ends with the error it reported.
ErrorGoesOn(k) ==
    /\ LoopGoto(k, "error", "again")
    /\ UNCHANGED <<last, canceled, tce, reads, reported, sockVars, handled,
                   discVars, alive>>

ErrorReturns(k) ==
    /\ LoopGoto(k, "error", "ended")
    /\ UNCHANGED <<last, canceled, tce, reads, reported, sockVars, handled,
                   discVars, alive>>

-----------------------------------------------------------------------------
(* The sockets.                                                            *)

SocketOpens(k) ==
    /\ socket[k] = "connecting"
    /\ socket' = [socket EXCEPT ![k] = "open"]
    /\ UNCHANGED <<last, canceled, loopVars, sent, taken, handled, discVars,
                   alive>>

SocketFails(k) ==
    /\ socket[k] = "connecting"
    /\ socket' = [socket EXCEPT ![k] = "failed"]
    /\ UNCHANGED <<last, canceled, loopVars, sent, taken, handled, discVars,
                   alive>>

SocketBreaks(k) ==
    /\ socket[k] = "open"
    /\ socket' = [socket EXCEPT ![k] = "closed"]
    /\ UNCHANGED <<last, canceled, loopVars, sent, taken, handled, discVars,
                   alive>>

ServerSends(k) ==
    /\ socket[k] = "open"
    /\ sent[k] < MaxMsgs
    /\ sent' = [sent EXCEPT ![k] = @ + 1]
    /\ UNCHANGED <<last, canceled, loopVars, socket, taken, handled, discVars,
                   alive>>

-----------------------------------------------------------------------------
(* disconnect() and the destructor                                         *)

AlwaysClose    == FALSE
NothingToClose == last \in canceled

CancelLoop == canceled' = canceled \cup {last}

\* The client that is closed is the one found under the lock.
SkipClose(d)  == discPc' = [discPc EXCEPT ![d] = "done"] /\ closes' = closes
BeginClose(d) == /\ discPc' = [discPc EXCEPT ![d] = "close"]
                 /\ closes' = [closes EXCEPT ![d] = last]

Disconnect(d) ==
    /\ alive
    /\ discPc[d] = "idle"
    /\ IF NothingToClose
       THEN /\ discPc' = [discPc EXCEPT ![d] = "done"]
            /\ UNCHANGED <<canceled, closes>>
       ELSE CancelLoop /\ BeginClose(d)
    /\ UNCHANGED <<last, loopVars, sockVars, handled, alive>>

\* close() closes an open socket; of one that is connecting it closes what
\* comes of it.
CloseSocket(c) == socket' = [socket EXCEPT ![c] = IF @ = "open" THEN "closed" ELSE @]

CloseCompletes(d) ==
    /\ discPc[d] = "close"
    /\ socket[closes[d]] # "connecting"
    /\ discPc' = [discPc EXCEPT ![d] = "done"]
    /\ CloseSocket(closes[d])
    /\ UNCHANGED <<last, canceled, loopVars, sent, taken, handled, closes,
                   alive>>

\* The continuation of connect() and a loop that runs hold the transport; one
\* that waits for a message does not.
StrongHolders ==
    \E k \in Connects :
        \/ tce[k] = "pending"
        \/ loopPc[k] \in {"process", "again", "error"}

Destroy ==
    /\ alive
    /\ ~StrongHolders
    /\ alive' = FALSE
    /\ IF NothingToClose
       THEN UNCHANGED <<canceled, socket>>
       ELSE /\ CancelLoop
            /\ socket' = [socket EXCEPT ![last] = "closed"]
    /\ UNCHANGED <<last, loopVars, sent, taken, handled, discVars>>

-----------------------------------------------------------------------------
LoopStep(k) ==
    \/ Connected(k)    \/ ConnectFails(k)   \/ Receive(k)
    \/ TakeMessage(k)  \/ ProcessReturns(k) \/ ReceiveFails(k)
    \/ ReportError(k)  \/ ErrorReturns(k)

Next ==
    \/ Connect
    \/ \E k \in Connects :
          \/ LoopStep(k)      \/ ConnectCompletes(k)  \/ MessageUnreadable(k)
          \/ SocketOpens(k)   \/ SocketFails(k)
          \/ SocketBreaks(k)  \/ ServerSends(k)
    \/ \E d \in Disconnects : Disconnect(d) \/ CloseCompletes(d)
    \/ Destroy

Spec == Init /\ [][Next]_vars

\* Tasks are scheduled, a socket opens or fails, close() completes.  Nothing
\* obliges a server to send or a socket to break.
Fairness ==
    /\ \A k \in Connects :
          /\ WF_vars(LoopStep(k))
          /\ WF_vars(ConnectCompletes(k))
          /\ WF_vars(SocketOpens(k) \/ SocketFails(k))
    /\ \A d \in Disconnects : WF_vars(CloseCompletes(d))

FairSpec == Spec /\ Fairness

-----------------------------------------------------------------------------
(* Properties.                                                             *)

\* At most one loop is not canceled, and it is the one disconnect() cancels.
OneLiveLoop ==
    \A k \in Connects : tce[k] # "none" /\ k \notin canceled => k = last

\* receive() of a socket is only called by the loop of its own connect(), so
\* that a loop that was disconnected takes no message from the next one.
LoopReadsOwnSocket ==
    \A k \in Connects : loopPc[k] = "wait" => reads[k] = k

\* As long as a loop is not canceled, every message its socket returned was
\* handed over, each once and in the order of arrival.
AllMessagesHandled ==
    \A k \in Connects :
        k \notin canceled => handled[k] = [i \in 1 .. taken[k] |-> i]

\* Whatever canceled a loop, its socket is gone or a disconnect() is closing it:
\* no client is left open that nobody will ever close, or connects in vain.
CanceledHasNoSocket ==
    \A k \in Connects :
        k \in canceled /\ tce[k] # "none" =>
            \/ socket[k] \in {"failed", "closed"}
            \/ \E d \in Disconnects : discPc[d] = "close" /\ closes[d] = k

\* The tasks connect() and disconnect() return complete, whichever of the two
\* came first and whatever became of the socket.
TransportCallsComplete ==
    /\ \A k \in Connects : tce[k] = "pending" ~> tce[k] \in {"set", "failed"}
    /\ \A d \in Disconnects : discPc[d] = "close" ~> discPc[d] = "done"

\* A loop that was canceled ends, and does not keep its socket.
CanceledLoopEnds ==
    \A k \in Connects : k \in canceled /\ tce[k] # "none" ~> loopPc[k] = "ended"

\* What the transport is to the connection.
Link == INSTANCE TransportLink WITH
    link <- IF last = 0 THEN "off"
            ELSE IF loopPc[last] = "connect"
                 THEN IF last \in canceled THEN "closing" ELSE "connecting"
                 ELSE IF last \in canceled THEN "off" ELSE "live"
LinkSpec == Link!Spec

=============================================================================
