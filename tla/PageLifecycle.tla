----------------------------- MODULE PageLifecycle ------------------------------
(* What the page's connection promises the page: only a start that succeeded   *)
(* connects, a start is rejected or resolved while its session is connecting,  *)
(* and a page that was connected once is never without a session again:        *)
(* whatever ends one, also before it was connected, begins the next in the     *)
(* same step.  It does not promise that each start settles with the session    *)
(* that it began: a session may be stopped while its start is pending, which   *)
(* is then left to whatever session connects next.  JsConnection implements    *)
(* this specification.                                                         *)

VARIABLES
    state,     \* connection.state
    promise,   \* what start() returned for the session
    left,      \* an earlier start() is pending, although its session was stopped
    engaged    \* the page was connected

life == <<state, promise, left, engaged>>

Init == state = "disconnected" /\ promise = "none" /\ ~left /\ ~engaged

Begin ==
    /\ state = "disconnected" /\ ~engaged
    /\ state' = "connecting" /\ promise' = "pending"
    /\ UNCHANGED <<left, engaged>>

(* Every start that is pending is settled by it, also the one that was left.   *)
Connect ==
    /\ state = "connecting" /\ promise = "pending"
    /\ state' = "connected" /\ promise' = "resolved"
    /\ ~left' /\ engaged'

(* A server that cannot be used; the session goes on until it is stopped.      *)
Refuse ==
    /\ state = "connecting" /\ promise = "pending"
    /\ promise' = "rejected"
    /\ UNCHANGED <<state, left, engaged>>

Lose ==
    /\ state = "connected"
    /\ state' = "reconnecting"
    /\ UNCHANGED <<promise, left, engaged>>

Resume ==
    /\ state = "reconnecting"
    /\ state' = "connected"
    /\ UNCHANGED <<promise, left, engaged>>

(* Only a start that is pending can be left, by the end of its session.        *)
End ==
    /\ state # "disconnected"
    /\ IF engaged THEN state' = "connecting" /\ promise' = "pending"
                  ELSE state' = "disconnected" /\ promise' = "none"
    /\ left => left'
    /\ left' => left \/ promise = "pending"
    /\ UNCHANGED engaged

Next == Begin \/ Connect \/ Refuse \/ Lose \/ Resume \/ End

Spec == Init /\ [][Next]_life
================================================================================
