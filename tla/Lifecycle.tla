------------------------------ MODULE Lifecycle -------------------------------
(***************************************************************************)
(* What a connection promises its user: the states connection_state names, *)
(* the transitions between them, and that a request to stop is final: once *)
(* it has been taken, the connection is never again declared lost and its  *)
(* reconnecting never starts, so it can only go down.  Connection          *)
(* implements this specification.                                          *)
(***************************************************************************)

VARIABLES
    phase,          \* what get_connection_state() returns
    stopRequested   \* the current session has been asked to stop

life == <<phase, stopRequested>>

Init == phase = "disconnected" /\ stopRequested = FALSE

BeginStart ==
    /\ phase = "disconnected"
    /\ phase' = "connecting"
    /\ stopRequested' = FALSE

\* A start that is over when the request comes may still succeed.
StartOk ==
    /\ phase = "connecting"
    /\ phase' = "connected"
    /\ UNCHANGED stopRequested

StartFail ==
    /\ phase = "connecting"
    /\ phase' = "disconnected"
    /\ UNCHANGED stopRequested

Lost ==
    /\ phase = "connected"
    /\ ~stopRequested
    /\ phase' = "reconnecting"
    /\ UNCHANGED stopRequested

Resume ==
    /\ phase = "reconnecting"
    /\ phase' = "connected"
    /\ UNCHANGED stopRequested

RequestStop ==
    /\ phase \in {"connecting", "connected", "reconnecting"}
    /\ stopRequested' = TRUE
    /\ UNCHANGED phase

BeginDisconnect ==
    /\ phase \in {"connected", "reconnecting"}
    /\ stopRequested
    /\ phase' = "disconnecting"
    /\ UNCHANGED stopRequested

EndDisconnect ==
    /\ phase = "disconnecting"
    /\ phase' = "disconnected"
    /\ UNCHANGED stopRequested

\* The connection object goes away while nothing uses it.
Drop ==
    /\ phase \in {"connected", "reconnecting"}
    /\ phase' = "disconnected"
    /\ stopRequested' = TRUE

Next ==
    \/ BeginStart   \/ StartOk          \/ StartFail
    \/ Lost         \/ Resume           \/ Drop
    \/ RequestStop  \/ BeginDisconnect  \/ EndDisconnect

Spec == Init /\ [][Next]_life

\* A start in progress ends, and a requested stop goes through.
FairSpec == Spec /\ WF_life(StartOk \/ StartFail)
                 /\ WF_life(BeginDisconnect) /\ WF_life(EndDisconnect)

=============================================================================
