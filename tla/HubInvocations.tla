---------------------------- MODULE HubInvocations ----------------------------
(***************************************************************************)
(* signalr::hub_connection_impl and its callback_manager: how the result   *)
(* of a hub method finds the task that invoke_json() or invoke_void()      *)
(* returned, while the connection underneath starts, is lost, stops and    *)
(* goes away.  The connection is Lifecycle, with what the hub hooks into   *)
(* it; sessions are numbered, and a session's messages are processed one   *)
(* at a time.                                                              *)
(*                                                                         *)
(* The callback of an invocation has the invocation's name: m_id numbers   *)
(* callbacks with an int that does not come round while one of them is     *)
(* pending.  A critical section of m_map_lock is one action; what a task   *)
(* completion event is given first is its outcome.                         *)
(***************************************************************************)
EXTENDS Naturals

CONSTANTS
    Invocations,   \* the invoke_json() and invoke_void() calls
    HubStops,      \* the stop() calls of the application
    MaxSessions,   \* bound on the number of start() calls that begin
    Usage          \* what the application keeps to: see MayInvoke

ASSUME ConstAssumption == MaxSessions \in Nat \ {0}

ASSUME UsageAssumption == Usage \in {"quiet", "free"}

Sessions == 1 .. MaxSessions
NoMsg    == [of |-> 0, kind |-> "none"]

VARIABLES
    phase,          \* m_connection_state
    stopRequested,  \* the connection has been asked to stop
    session,        \* the last session
    recPc,          \* where the reconnect() of a session is
    callbacks,      \* m_callbacks
    pc,             \* where an invocation is
    carrier,        \* the session whose transport an invocation is sent on
    outcome,        \* what the task of an invocation completed with
    replied,        \* the invocations whose result message arrived
    rx,             \* the callback process_message() found, per session
    stopPc,         \* where a stop() is
    hubAlive        \* the hub_connection_impl object exists

connVars   == <<phase, stopRequested, session, recPc>>
invokeVars == <<pc, carrier>>
vars       == <<connVars, callbacks, invokeVars, outcome, replied, rx, stopPc,
                hubAlive>>

Life == INSTANCE Lifecycle

Outcomes == {"none", "result", "sendError", "stopped", "lost", "dropped"}

TypeOK ==
    /\ phase \in {"disconnected", "connecting", "connected", "reconnecting",
                  "disconnecting"}
    /\ stopRequested \in BOOLEAN
    /\ session \in Sessions \cup {0}
    /\ recPc \in [Sessions -> {"idle", "call", "attempt", "over"}]
    /\ callbacks \subseteq Invocations
    /\ pc \in [Invocations -> {"idle", "registered", "checked", "sent",
                               "failed", "remove", "done"}]
    /\ carrier \in [Invocations -> Sessions \cup {0}]
    /\ \A i \in Invocations : pc[i] \in {"checked", "sent"} => carrier[i] # 0
    /\ outcome \in [Invocations -> Outcomes]
    /\ replied \subseteq Invocations
    /\ rx \in [Sessions -> {NoMsg} \cup [of : Invocations,
                                         kind : {"progress", "result"}]]
    /\ stopPc \in [HubStops -> {"idle", "request", "wait", "done"}]
    /\ hubAlive \in BOOLEAN

Init ==
    /\ Life!Init
    /\ session = 0
    /\ recPc = [s \in Sessions |-> "idle"]
    /\ callbacks = {}
    /\ pc = [i \in Invocations |-> "idle"]
    /\ carrier = [i \in Invocations |-> 0]
    /\ outcome = [i \in Invocations |-> "none"]
    /\ replied = {}
    /\ rx = [s \in Sessions |-> NoMsg]
    /\ stopPc = [c \in HubStops |-> "idle"]
    /\ hubAlive = TRUE

-----------------------------------------------------------------------------
(* A "quiet" application makes no call while a stop() of its own is in     *)
(* progress; one that is "free" calls at any time.                         *)

MayInvoke ==
    Usage = "quiet" => \A c \in HubStops : stopPc[c] \in {"idle", "done"}

-----------------------------------------------------------------------------
(* callback_manager                                                        *)

\* A task_completion_event keeps the first outcome it is given.
Settled(is, with) ==
    [i \in Invocations |-> IF i \in is /\ outcome[i] = "none" THEN with
                                                              ELSE outcome[i]]

ClearQuietly(with) == callbacks' = {} /\ outcome' = outcome

Clear(with) ==
    /\ callbacks' = {}
    /\ outcome' = Settled(callbacks, with)

\* Callbacks must not be removed for progress updates, and must for an answer.
RemoveFound(m)    == callbacks' = callbacks \ {m.of}
RemoveLate(m)     == callbacks' = callbacks
RemoveAnswered(m) == callbacks' = IF m.kind = "result" THEN callbacks \ {m.of}
                                                       ELSE callbacks

-----------------------------------------------------------------------------
(* invoke_json(), invoke_void() and invoke_hub_method()                    *)

InvokeGoto(i, from, to) ==
    /\ pc[i] = from
    /\ pc' = [pc EXCEPT ![i] = to]

Register(i) ==
    /\ hubAlive
    /\ MayInvoke
    /\ InvokeGoto(i, "idle", "registered")
    /\ callbacks' = callbacks \cup {i}
    /\ UNCHANGED <<connVars, carrier, outcome, replied, rx, stopPc, hubAlive>>

\* connection_impl::send() refuses unless the connection is connected.
MaySendAlways     == TRUE
MaySendUnlessDown == phase # "disconnected"
MaySend           == phase = "connected"

CheckState(i) ==
    /\ IF MaySend
       THEN /\ InvokeGoto(i, "registered", "checked")
            /\ carrier' = [carrier EXCEPT ![i] = session]
       ELSE /\ InvokeGoto(i, "registered", "failed")
            /\ UNCHANGED carrier
    /\ UNCHANGED <<connVars, callbacks, outcome, replied, rx, stopPc, hubAlive>>

SendSucceeds(i) ==
    /\ carrier[i] = session
    /\ phase # "disconnected"
    /\ InvokeGoto(i, "checked", "sent")
    /\ UNCHANGED <<connVars, callbacks, carrier, outcome, replied, rx, stopPc,
                   hubAlive>>

SendFails(i) ==
    /\ InvokeGoto(i, "checked", "failed")
    /\ UNCHANGED <<connVars, callbacks, carrier, outcome, replied, rx, stopPc,
                   hubAlive>>

\* The continuation of send(): the task fails, then the callback is removed.
FailInvocation(i) ==
    /\ InvokeGoto(i, "failed", "remove")
    /\ outcome' = Settled({i}, "sendError")
    /\ UNCHANGED <<connVars, callbacks, carrier, replied, rx, stopPc, hubAlive>>

RemoveNothing(i)  == callbacks' = callbacks
RemoveCallback(i) == callbacks' = IF hubAlive THEN callbacks \ {i} ELSE callbacks

ForgetInvocation(i) ==
    /\ InvokeGoto(i, "remove", "done")
    /\ RemoveCallback(i)
    /\ UNCHANGED <<connVars, carrier, outcome, replied, rx, stopPc, hubAlive>>

InvokeStep(i) ==
    \/ CheckState(i)      \/ SendSucceeds(i)  \/ SendFails(i)
    \/ FailInvocation(i)  \/ ForgetInvocation(i)

-----------------------------------------------------------------------------
(* process_message() and invoke_callback()                                 *)

\* The server answers an invocation once, after any progress it reports.  A
\* message is ignored once the session was asked to stop; the callback is
\* looked up under m_map_lock.
MessageArrives(s, i, kind) ==
    LET m == [of |-> i, kind |-> kind]
    IN  /\ hubAlive
        /\ s = session
        /\ phase \in {"connected", "reconnecting"}
        /\ ~stopRequested
        /\ rx[s] = NoMsg
        /\ pc[i] = "sent"
        /\ carrier[i] = s
        /\ i \notin replied
        /\ replied' = IF kind = "result" THEN replied \cup {i} ELSE replied
        /\ IF i \in callbacks
           THEN /\ rx' = [rx EXCEPT ![s] = m]
                /\ RemoveAnswered(m)
           ELSE UNCHANGED <<rx, callbacks>>
        /\ UNCHANGED <<connVars, invokeVars, outcome, stopPc, hubAlive>>

\* The callback is called, with no lock.
CallBack(s) ==
    /\ rx[s] # NoMsg
    /\ rx' = [rx EXCEPT ![s] = NoMsg]
    /\ outcome' = IF rx[s].kind = "result" THEN Settled({rx[s].of}, "result")
                                           ELSE outcome
    /\ UNCHANGED <<connVars, callbacks, invokeVars, replied, stopPc, hubAlive>>

-----------------------------------------------------------------------------
(* start(), stop() and the destructor of the hub connection                *)

Start ==
    /\ hubAlive
    /\ MayInvoke
    /\ session < MaxSessions
    /\ Life!BeginStart
    /\ session' = session + 1
    /\ UNCHANGED <<recPc, callbacks, invokeVars, outcome, replied, rx,
                   stopPc, hubAlive>>

\* stop() clears the callbacks before it stops the connection.
StopClears(c) ==
    /\ hubAlive
    /\ stopPc[c] = "idle"
    /\ stopPc' = [stopPc EXCEPT ![c] = "request"]
    /\ Clear("stopped")
    /\ UNCHANGED <<connVars, invokeVars, replied, rx, hubAlive>>

StopRequests(c) ==
    /\ stopPc[c] = "request"
    /\ \/ /\ Life!RequestStop
          /\ stopPc' = [stopPc EXCEPT ![c] = "wait"]
       \/ /\ phase \in {"disconnected", "disconnecting"}
          /\ stopPc' = [stopPc EXCEPT ![c] = "done"]
          /\ UNCHANGED <<phase, stopRequested>>
    /\ UNCHANGED <<session, recPc, callbacks, invokeVars, outcome, replied,
                   rx, hubAlive>>

StopReturns(c) ==
    /\ phase = "disconnected"
    /\ stopPc[c] = "wait"
    /\ stopPc' = [stopPc EXCEPT ![c] = "done"]
    /\ UNCHANGED <<connVars, callbacks, invokeVars, outcome, replied, rx,
                   hubAlive>>

\* Nothing that runs holds the hub; what is still pending is told so.
DestroyHub ==
    /\ hubAlive
    /\ \A c \in HubStops : stopPc[c] # "request"
    /\ \A i \in Invocations : pc[i] # "registered"
    /\ \A s \in Sessions : rx[s] = NoMsg
    /\ hubAlive' = FALSE
    /\ Clear("dropped")
    /\ UNCHANGED <<connVars, invokeVars, replied, rx, stopPc>>

-----------------------------------------------------------------------------
(* The connection.                                                         *)

\* A start ends, a stop goes through; or nothing holds the connection.
ConnectionStep ==
    /\ \/ Life!StartOk
       \/ Life!StartFail
       \/ Life!BeginDisconnect
       \/ Life!EndDisconnect
       \/ ~hubAlive /\ Life!Drop
    /\ UNCHANGED <<session, recPc, callbacks, invokeVars, outcome, replied,
                   rx, stopPc, hubAlive>>

Lost ==
    /\ Life!Lost
    /\ recPc' = [recPc EXCEPT ![session] = "call"]
    /\ UNCHANGED <<session, callbacks, invokeVars, outcome, replied, rx, stopPc,
                   hubAlive>>

\* reconnect() calls what set_reconnecting() set, with no lock: whatever the
\* connection did since, every callback is told of the loss.
LostCall(s) ==
    /\ recPc[s] = "call"
    /\ recPc' = [recPc EXCEPT ![s] = "attempt"]
    /\ IF hubAlive THEN Clear("lost") ELSE UNCHANGED <<callbacks, outcome>>
    /\ UNCHANGED <<phase, stopRequested, session, invokeVars, replied, rx,
                   stopPc, hubAlive>>

\* Reconnecting begins after that call; it succeeds, or stops the connection.
ReconnectEnds ==
    /\ phase = "reconnecting"
    /\ recPc[session] = "attempt"
    /\ \/ Life!Resume /\ recPc' = [recPc EXCEPT ![session] = "idle"]
       \/ Life!RequestStop /\ recPc' = [recPc EXCEPT ![session] = "over"]
    /\ UNCHANGED <<session, callbacks, invokeVars, outcome, replied, rx, stopPc,
                   hubAlive>>

-----------------------------------------------------------------------------
Next ==
    \/ \E i \in Invocations :
          \/ Register(i)
          \/ InvokeStep(i)
          \/ \E s \in Sessions, kind \in {"progress", "result"} :
                MessageArrives(s, i, kind)
    \/ \E s \in Sessions : CallBack(s) \/ LostCall(s)
    \/ \E c \in HubStops : StopClears(c) \/ StopRequests(c) \/ StopReturns(c)
    \/ Start \/ ConnectionStep \/ Lost \/ ReconnectEnds \/ DestroyHub

Spec == Init /\ [][Next]_vars

\* A send succeeds or fails, a callback that was found is called.
Fairness ==
    /\ \A i \in Invocations : WF_vars(InvokeStep(i))
    /\ \A s \in Sessions : WF_vars(CallBack(s))

FairSpec == Spec /\ Fairness

-----------------------------------------------------------------------------
(* Properties.                                                             *)

\* The callback of the invocation is about to be called with its result.
AboutToAnswer(i) == \E s \in Sessions : rx[s] = [of |-> i, kind |-> "result"]

Pending(i) == outcome[i] = "none" /\ ~AboutToAnswer(i)

\* The message of stop(): when the connection is down, no invocation that was
\* sent still waits for a result that cannot come.
NothingPendingWhenDown ==
    phase = "disconnected" => \A i \in Invocations : pc[i] = "sent" => ~Pending(i)

\* When reconnecting begins, every invocation sent on the lost connection was
\* told so: its result will never arrive on the next one.
NothingPendingAfterLoss ==
    phase = "reconnecting" /\ recPc[session] # "call" =>
        \A i \in Invocations : pc[i] = "sent" => ~Pending(i)

\* A result that arrived completes its invocation, whatever clears or removes
\* callbacks meanwhile.
RepliesAnswer == \A i \in replied : ~Pending(i)

\* A callback is kept as long as its invocation is pending, and no longer.
CallbacksArePending ==
    hubAlive =>
        \A i \in Invocations :
            /\ pc[i] # "idle" /\ Pending(i) => i \in callbacks
            /\ i \in callbacks => Pending(i) \/ pc[i] = "remove"

\* What was started completes once the connection is down.
AnsweredWhenDown ==
    \A i \in Invocations :
        pc[i] # "idle" /\ phase = "disconnected" ~>
            outcome[i] # "none" \/ phase # "disconnected"

\* The task of each invocation completes once, and one whose result has found
\* its callback with that result, whatever fails or clears callbacks before the
\* callback is called.
TaskOf(i) == IF outcome[i] # "none" THEN outcome[i]
             ELSE IF AboutToAnswer(i) THEN "answered"
             ELSE IF pc[i] = "idle" THEN "idle" ELSE "pending"
Task(i) == INSTANCE InvocationTask WITH task <- TaskOf(i)
TasksCompleteOnce ==
    [][\A i \in Invocations : Task(i)!Next \/ UNCHANGED TaskOf(i)]_vars

\* The error "connection has been lost" is given to an invocation only while
\* the connection is lost: it was not restarted and connected again.
LostOnlyWhenLost ==
    [][\A i \in Invocations :
          outcome[i] = "none" /\ outcome'[i] = "lost" => phase # "connected"]_vars

=============================================================================
