---------------------------- MODULE TransportLink -----------------------------
(***************************************************************************)
(* What a transport is to the connection that uses it: a link that is      *)
(* connected, works until it breaks or is disconnected, and can then be    *)
(* connected again.  A link that is disconnected while it connects ends by *)
(* itself, and need not be waited for.  WebsocketTransport implements this *)
(* specification; `loop` of Connection is this link for each session, seen *)
(* from the connection's side.                                             *)
(***************************************************************************)

VARIABLE link   \* "off", "connecting", "closing" or "live"

Init == link = "off"

Connect == link \in {"off", "closing"} /\ link' = "connecting"

Open ==
    \/ link = "connecting" /\ link' = "live"
    \/ link = "closing" /\ link' = "off"

Fail == link \in {"connecting", "closing"} /\ link' = "off"

Break == link = "live" /\ link' = "off"

Disconnect ==
    \/ link = "connecting" /\ link' = "closing"
    \/ link = "live" /\ link' = "off"

Next == Connect \/ Open \/ Fail \/ Break \/ Disconnect

Spec == Init /\ [][Next]_link

=============================================================================
