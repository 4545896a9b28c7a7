---------------------------- MODULE InvocationTask -----------------------------
(***************************************************************************)
(* What the task of a hub invocation promises its caller: it completes     *)
(* once, with the result if the server's answer came in time, and else     *)
(* with the reason why none will; nothing fails an invocation any more     *)
(* whose answer was accepted.  HubInvocations implements this              *)
(* specification for each invocation.                                      *)
(***************************************************************************)

VARIABLE task   \* "idle", "pending", "answered", or what it completed with

Failures == {"sendError", "stopped", "lost", "dropped"}

Init == task = "idle"

Invoke == task = "idle" /\ task' = "pending"

\* The answer has found the callback of the invocation.
Accept == task = "pending" /\ task' = "answered"

Complete == task = "answered" /\ task' = "result"

Fail == task = "pending" /\ task' \in Failures

Next == Invoke \/ Accept \/ Complete \/ Fail

Spec == Init /\ [][Next]_task

=============================================================================
