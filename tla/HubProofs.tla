------------------------------- MODULE HubProofs -------------------------------
(***************************************************************************)
(* Theorems about HubInvocations for any number of invocations, stop()     *)
(* calls and sessions.                                                     *)
(***************************************************************************)
EXTENDS HubInvocations, TLAPS

-----------------------------------------------------------------------------
(* Types.                                                                  *)

\* A connection that is not down is in a session.
TypeInv == TypeOK /\ (phase # "disconnected" => session # 0)

\* The constructor's state is typed.
LEMMA TypeInit == Init => TypeInv
<1> SUFFICES ASSUME Init
             PROVE  TypeInv
  OBVIOUS
<1>1. phase = "disconnected" /\ stopRequested = FALSE
  BY DEF Init, Life!Init
<1>2. rx \in [Sessions -> {NoMsg} \cup [of : Invocations, kind : {"progress", "result"}]]
  BY DEF Init
<1> QED
  BY <1>1, <1>2 DEF Init, TypeInv, TypeOK, Outcomes

\* What Settled() gives is an outcome for each invocation.
LEMMA SettledType ==
  ASSUME TypeOK, NEW is, NEW with \in Outcomes
  PROVE  Settled(is, with) \in [Invocations -> Outcomes]
  BY DEF TypeOK, Settled, Outcomes

\* Every step keeps every variable in its type.
LEMMA TypeStep ==
  ASSUME TypeInv, [Next]_vars
  PROVE  TypeInv'
<1> USE ConstAssumption DEF TypeInv, TypeOK, Sessions, connVars, invokeVars
<1>1. ASSUME NEW i \in Invocations, Register(i) PROVE TypeInv'
  BY <1>1 DEF Register, InvokeGoto
<1>2. ASSUME NEW i \in Invocations, CheckState(i) PROVE TypeInv'
  <2>1. CASE MaySend
    BY <1>2, <2>1 DEF CheckState, InvokeGoto, MaySend
  <2>2. CASE ~MaySend
    BY <1>2, <2>2 DEF CheckState, InvokeGoto
  <2> QED
    BY <2>1, <2>2
<1>3. ASSUME NEW i \in Invocations, SendSucceeds(i) PROVE TypeInv'
  BY <1>3 DEF SendSucceeds, InvokeGoto
<1>4. ASSUME NEW i \in Invocations, SendFails(i) PROVE TypeInv'
  BY <1>4 DEF SendFails, InvokeGoto
<1>5. ASSUME NEW i \in Invocations, FailInvocation(i) PROVE TypeInv'
  <2>1. outcome' \in [Invocations -> Outcomes]
    BY <1>5, SettledType DEF FailInvocation, Outcomes
  <2> QED
    BY <1>5, <2>1 DEF FailInvocation, InvokeGoto
<1>6. ASSUME NEW i \in Invocations, ForgetInvocation(i) PROVE TypeInv'
  BY <1>6 DEF ForgetInvocation, RemoveCallback, InvokeGoto
<1>7. ASSUME NEW i \in Invocations, NEW s \in Sessions, NEW kind \in {"progress", "result"},
             MessageArrives(s, i, kind)
      PROVE  TypeInv'
  <2>1. callbacks' \subseteq Invocations /\ replied' \subseteq Invocations
    BY <1>7 DEF MessageArrives, RemoveAnswered
  <2>2. rx' \in [Sessions -> {NoMsg} \cup [of : Invocations, kind : {"progress", "result"}]]
    BY <1>7 DEF MessageArrives
  <2> QED
    BY <1>7, <2>1, <2>2 DEF MessageArrives
<1>8. ASSUME NEW s \in Sessions, CallBack(s) PROVE TypeInv'
  <2>1. outcome' \in [Invocations -> Outcomes]
    BY <1>8, SettledType DEF CallBack, Outcomes
  <2> QED
    BY <1>8, <2>1 DEF CallBack
<1>9. ASSUME NEW s \in Sessions, LostCall(s) PROVE TypeInv'
  <2>1. outcome' \in [Invocations -> Outcomes] /\ callbacks' \subseteq Invocations
    BY <1>9, SettledType DEF LostCall, Clear, Outcomes
  <2> QED
    BY <1>9, <2>1 DEF LostCall
<1>10. ASSUME NEW c \in HubStops, StopClears(c) PROVE TypeInv'
  <2>1. outcome' \in [Invocations -> Outcomes] /\ callbacks' \subseteq Invocations
    BY <1>10, SettledType DEF StopClears, Clear, Outcomes
  <2> QED
    BY <1>10, <2>1 DEF StopClears
<1>11. ASSUME NEW c \in HubStops, StopRequests(c) PROVE TypeInv'
  BY <1>11 DEF StopRequests, Life!RequestStop
<1>12. ASSUME NEW c \in HubStops, StopReturns(c) PROVE TypeInv'
  BY <1>12 DEF StopReturns
<1>13. CASE Start
  <2>1. session' \in Sessions
    BY <1>13 DEF Start
  <2>2. phase' = "connecting" /\ stopRequested' = FALSE
    BY <1>13 DEF Start, Life!BeginStart
  <2>3. UNCHANGED <<recPc, callbacks, pc, carrier, outcome, replied, rx, stopPc, hubAlive>>
    BY <1>13 DEF Start
  <2>4. session' # 0
    BY <2>1
  <2> QED
    BY <2>1, <2>2, <2>3, <2>4
<1>14. CASE ConnectionStep
  BY <1>14 DEF ConnectionStep, Life!StartOk, Life!StartFail, Life!BeginDisconnect,
     Life!EndDisconnect, Life!Drop
<1>15. CASE Lost
  BY <1>15 DEF Lost, Life!Lost
<1>16. CASE ReconnectEnds
  BY <1>16 DEF ReconnectEnds, Life!Resume, Life!RequestStop
<1>17. CASE DestroyHub
  <2>1. outcome' \in [Invocations -> Outcomes] /\ callbacks' \subseteq Invocations
    BY <1>17, SettledType DEF DestroyHub, Clear, Outcomes
  <2> QED
    BY <1>17, <2>1 DEF DestroyHub
<1>18. CASE UNCHANGED vars
  BY <1>18 DEF vars
<1> HIDE DEF TypeInv, TypeOK, Sessions, connVars, invokeVars
<1> QED
  BY <1>1, <1>2, <1>3, <1>4, <1>5, <1>6, <1>7, <1>8, <1>9, <1>10, <1>11, <1>12,
     <1>13, <1>14, <1>15, <1>16, <1>17, <1>18 DEF Next, InvokeStep

\* Whatever the application does, the hub's variables keep their types, and an
\* invocation is sent on the transport of a session there was.
THEOREM HubTypeCorrect == Spec => []TypeOK
<1>1. Spec => []TypeInv
  BY TypeInit, TypeStep, PTL DEF Spec
<1> QED
  BY <1>1, PTL DEF TypeInv

-----------------------------------------------------------------------------
(* Answers.  CallbacksArePending and RepliesAnswer are kept together with  *)
(* where an invocation can be while its answer is on its way.              *)

Answering == {i \in Invocations : AboutToAnswer(i)}
Waiting   == {i \in Invocations : outcome[i] = "none" /\ i \notin Answering}

\* An invocation is answered only while it is sent, and its callback is gone.
OnItsWay == \A i \in Answering : hubAlive /\ pc[i] = "sent" /\ i \notin callbacks

\* One that failed was told so, one that did not begin has nothing yet.
AtRest ==
    \A i \in Invocations :
        /\ pc[i] \in {"remove", "done"} => outcome[i] # "none"
        /\ pc[i] = "idle" => outcome[i] = "none" /\ i \notin callbacks

\* Those that wait have a callback, unless the hub is gone and nobody waits.
Kept ==
    \A i \in Invocations :
        /\ pc[i] # "idle" /\ i \in Waiting => hubAlive /\ i \in callbacks
        /\ hubAlive /\ i \in callbacks => i \in Waiting \/ pc[i] = "remove"

Answered == replied \cap Waiting = {}

AnswerInv == TypeInv /\ OnItsWay /\ AtRest /\ Kept /\ Answered

\* A step that handles no message changes nothing about the answers.
LEMMA SameAnswering == rx' = rx => Answering' = Answering
  BY DEF Answering, AboutToAnswer

\* A result whose callback is found is one more answer on its way.
LEMMA MoreAnswering ==
  ASSUME TypeOK, NEW s \in Sessions, NEW i \in Invocations, NEW kind \in {"progress", "result"},
         MessageArrives(s, i, kind)
  PROVE  Answering' = IF kind = "result" /\ i \in callbacks THEN Answering \cup {i} ELSE Answering
<1>1. CASE i \in callbacks
  <2>1. rx' = [rx EXCEPT ![s] = [of |-> i, kind |-> kind]] /\ rx[s] = NoMsg
    BY <1>1 DEF MessageArrives
  <2>2. DOMAIN rx = Sessions
    BY DEF TypeOK
  <2>3. \A j \in Invocations : rx[s] # [of |-> j, kind |-> "result"]
    BY <2>1 DEF NoMsg
  <2>4. \A j \in Invocations : AboutToAnswer(j) => AboutToAnswer(j)'
    BY <2>1, <2>2, <2>3 DEF AboutToAnswer
  <2>5. \A j \in Invocations :
           AboutToAnswer(j)' /\ ~AboutToAnswer(j) => j = i /\ kind = "result"
    <3> SUFFICES ASSUME NEW j \in Invocations, AboutToAnswer(j)', ~AboutToAnswer(j)
                 PROVE  j = i /\ kind = "result"
      OBVIOUS
    <3>1. [of |-> i, kind |-> kind] = [of |-> j, kind |-> "result"]
      BY <2>1, <2>2 DEF AboutToAnswer
    <3> QED
      BY <3>1
  <2>6. kind = "result" => AboutToAnswer(i)'
    BY <2>1, <2>2 DEF AboutToAnswer
  <2> QED
    BY <1>1, <2>4, <2>5, <2>6 DEF Answering
<1>2. CASE i \notin callbacks
  BY <1>2, SameAnswering DEF MessageArrives
<1> QED
  BY <1>1, <1>2

\* A callback that is called has settled its invocation.
LEMMA LessAnswering ==
  ASSUME TypeOK, NEW s \in Sessions, CallBack(s)
  PROVE  /\ Answering' \subseteq Answering
         /\ \A j \in Answering \ Answering' : outcome'[j] # "none"
         /\ \A j \in Invocations : outcome'[j] = outcome[j] \/ j \in Answering
<1>1. rx' = [rx EXCEPT ![s] = NoMsg] /\ DOMAIN rx = Sessions /\ rx[s] # NoMsg
  BY DEF CallBack, TypeOK
<1>2. \A j \in Invocations : NoMsg # [of |-> j, kind |-> "result"]
  BY DEF NoMsg
<1>3. \A j \in Invocations : AboutToAnswer(j)' => AboutToAnswer(j)
  BY <1>1, <1>2 DEF AboutToAnswer
<1>4. \A j \in Invocations :
         AboutToAnswer(j) /\ ~AboutToAnswer(j)' => rx[s] = [of |-> j, kind |-> "result"]
  BY <1>1 DEF AboutToAnswer
<1>5. ASSUME NEW j \in Invocations, rx[s] = [of |-> j, kind |-> "result"]
      PROVE  outcome'[j] # "none"
  <2>1. outcome' = Settled({j}, "result")
    BY <1>5 DEF CallBack
  <2> QED
    BY <2>1 DEF Settled
<1>6. ASSUME NEW j \in Invocations, outcome'[j] # outcome[j]
      PROVE  AboutToAnswer(j)
  <2>1. rx[s].kind = "result" /\ outcome' = Settled({rx[s].of}, "result")
    BY <1>6 DEF CallBack
  <2>2. j = rx[s].of
    BY <1>6, <2>1 DEF Settled
  <2>3. rx[s] = [of |-> j, kind |-> "result"]
    BY <1>1, <2>1, <2>2 DEF TypeOK
  <2> QED
    BY <2>3 DEF AboutToAnswer
<1> QED
  BY <1>3, <1>4, <1>5, <1>6 DEF Answering

\* Clearing the callbacks settles those that had one, and nobody else.
LEMMA ClearSettles ==
  ASSUME TypeOK, NEW with \in Outcomes \ {"none"}, Clear(with)
  PROVE  /\ callbacks' = {}
         /\ \A i \in Invocations :
               outcome'[i] = "none" <=> outcome[i] = "none" /\ i \notin callbacks
  BY DEF Clear, Settled

\* Clearing the callbacks leaves nobody waiting who has begun.
LEMMA ClearKeeps ==
  ASSUME AnswerInv, NEW with \in Outcomes \ {"none"}, Clear(with),
         hubAlive, pc' = pc, rx' = rx, replied' = replied,
         hubAlive' = hubAlive \/ Answering = {}
  PROVE  /\ OnItsWay' /\ AtRest' /\ Kept' /\ Answered'
         /\ Waiting' \subseteq Waiting
         /\ \A i \in Waiting' : pc[i] = "idle"
<1>1. Answering' = Answering
  BY SameAnswering
<1>2. /\ callbacks' = {}
      /\ \A i \in Invocations :
            outcome'[i] = "none" <=> outcome[i] = "none" /\ i \notin callbacks
  BY ClearSettles DEF AnswerInv, TypeInv
<1>3. Waiting' = Waiting \ callbacks
  BY <1>1, <1>2 DEF Waiting
<1>4. \A i \in Waiting' : pc[i] = "idle"
  BY <1>3 DEF AnswerInv, Kept, Waiting
<1>5. OnItsWay'
  BY <1>1, <1>2 DEF AnswerInv, OnItsWay
<1>6. AtRest'
  BY <1>2 DEF AnswerInv, AtRest
<1>7. Kept'
  BY <1>2, <1>4 DEF Kept
<1>8. Answered'
  BY <1>3 DEF AnswerInv, Answered
<1> QED
  BY <1>3, <1>4, <1>5, <1>6, <1>7, <1>8

\* Every step keeps the answers in order, and makes nobody wait who did not.
LEMMA AnswerStep ==
  ASSUME AnswerInv, [Next]_vars
  PROVE  OnItsWay' /\ AtRest' /\ Kept' /\ Answered' /\ Waiting' \subseteq Waiting
<1> DEFINE Goal == OnItsWay' /\ AtRest' /\ Kept' /\ Answered' /\ Waiting' \subseteq Waiting
<1> USE DEF AnswerInv, OnItsWay, AtRest, Kept, Answered, Waiting, connVars, invokeVars
<1>0. TypeOK /\ Answering \subseteq Invocations
  BY DEF TypeInv, Answering
<1>1. CASE UNCHANGED <<callbacks, pc, outcome, replied, rx, hubAlive>>
  BY <1>0, <1>1, SameAnswering
<1>2. ASSUME NEW i \in Invocations, Register(i) PROVE Goal
  <2>1. Answering' = Answering
    BY <1>2, SameAnswering DEF Register
  <2>2. /\ pc[i] = "idle" /\ hubAlive /\ pc' = [pc EXCEPT ![i] = "registered"]
        /\ callbacks' = callbacks \cup {i}
        /\ UNCHANGED <<outcome, replied, hubAlive>>
    BY <1>2 DEF Register, InvokeGoto
  <2>3. DOMAIN pc = Invocations
    BY <1>0 DEF TypeOK
  <2> QED
    BY <1>0, <2>1, <2>2, <2>3
<1>3. ASSUME NEW i \in Invocations, CheckState(i) \/ SendSucceeds(i) \/ SendFails(i)
      PROVE  Goal
  <2>1. Answering' = Answering
    BY <1>3, SameAnswering DEF CheckState, SendSucceeds, SendFails
  <2>2. /\ pc[i] \in {"registered", "checked"}
        /\ \E to \in {"checked", "sent", "failed"} : pc' = [pc EXCEPT ![i] = to]
        /\ UNCHANGED <<outcome, callbacks, replied, hubAlive>>
    BY <1>3 DEF CheckState, SendSucceeds, SendFails, InvokeGoto
  <2>3. DOMAIN pc = Invocations
    BY <1>0 DEF TypeOK
  <2> QED
    BY <1>0, <2>1, <2>2, <2>3
<1>4. ASSUME NEW i \in Invocations, FailInvocation(i) PROVE Goal
  <2>1. Answering' = Answering
    BY <1>4, SameAnswering DEF FailInvocation
  <2>2. /\ pc[i] = "failed" /\ pc' = [pc EXCEPT ![i] = "remove"]
        /\ UNCHANGED <<callbacks, replied, hubAlive>>
    BY <1>4 DEF FailInvocation, InvokeGoto
  <2>3. /\ outcome'[i] # "none"
        /\ \A j \in Invocations : j # i => outcome'[j] = outcome[j]
    BY <1>4 DEF FailInvocation, Settled
  <2>4. DOMAIN pc = Invocations
    BY <1>0 DEF TypeOK
  <2> QED
    BY <1>0, <2>1, <2>2, <2>3, <2>4
<1>5. ASSUME NEW i \in Invocations, ForgetInvocation(i) PROVE Goal
  <2>1. Answering' = Answering
    BY <1>5, SameAnswering DEF ForgetInvocation
  <2>2. /\ pc[i] = "remove" /\ pc' = [pc EXCEPT ![i] = "done"]
        /\ callbacks' \subseteq callbacks
        /\ hubAlive => callbacks' = callbacks \ {i}
        /\ \A j \in Invocations : j # i /\ j \in callbacks => j \in callbacks'
        /\ UNCHANGED <<outcome, replied, hubAlive>>
    BY <1>5 DEF ForgetInvocation, RemoveCallback, InvokeGoto
  <2>3. DOMAIN pc = Invocations
    BY <1>0 DEF TypeOK
  <2> QED
    BY <1>0, <2>1, <2>2, <2>3
<1>6. ASSUME NEW i \in Invocations, NEW s \in Sessions, NEW kind \in {"progress", "result"},
             MessageArrives(s, i, kind)
      PROVE  Goal
  <2>1. Answering' = IF kind = "result" /\ i \in callbacks THEN Answering \cup {i} ELSE Answering
    BY <1>0, <1>6, MoreAnswering
  <2>2. /\ hubAlive /\ pc[i] = "sent"
        /\ replied' = IF kind = "result" THEN replied \cup {i} ELSE replied
        /\ callbacks' = IF kind = "result" THEN callbacks \ {i} ELSE callbacks
        /\ UNCHANGED <<pc, outcome, hubAlive>>
    BY <1>6 DEF MessageArrives, RemoveAnswered
  <2> QED
    BY <1>0, <2>1, <2>2
<1>7. ASSUME NEW s \in Sessions, CallBack(s) PROVE Goal
  <2>1. /\ Answering' \subseteq Answering
        /\ \A j \in Answering \ Answering' : outcome'[j] # "none"
        /\ \A j \in Invocations : outcome'[j] = outcome[j] \/ j \in Answering
    BY <1>0, <1>7, LessAnswering
  <2>2. \A j \in Invocations : outcome'[j] = "none" => outcome[j] = "none"
    BY <1>7 DEF CallBack, Settled
  <2>3. UNCHANGED <<callbacks, pc, replied, hubAlive>>
    BY <1>7 DEF CallBack
  <2> QED
    BY <1>0, <2>1, <2>2, <2>3
<1>8. ASSUME NEW s \in Sessions, LostCall(s) PROVE Goal
  <2>1. CASE hubAlive
    BY <1>8, <2>1, ClearKeeps DEF LostCall, Outcomes
  <2>2. CASE ~hubAlive
    BY <1>1, <1>8, <2>2 DEF LostCall
  <2> QED
    BY <2>1, <2>2
<1>9. ASSUME NEW c \in HubStops, StopClears(c) PROVE Goal
  BY <1>9, ClearKeeps DEF StopClears, Outcomes
<1>10. CASE DestroyHub
  <2>1. Answering = {}
    BY <1>10 DEF DestroyHub, Answering, AboutToAnswer, NoMsg
  <2> QED
    BY <1>10, <2>1, ClearKeeps DEF DestroyHub, Outcomes
<1>11. ASSUME NEW c \in HubStops, StopRequests(c) \/ StopReturns(c) PROVE Goal
  BY <1>1, <1>11 DEF StopRequests, StopReturns
<1>12. CASE Start \/ ConnectionStep \/ Lost \/ ReconnectEnds
  BY <1>1, <1>12 DEF Start, ConnectionStep, Lost, ReconnectEnds
<1>13. CASE UNCHANGED vars
  BY <1>1, <1>13 DEF vars
<1> HIDE DEF AnswerInv, OnItsWay, AtRest, Kept, Answered, Waiting
<1> QED
  BY <1>2, <1>3, <1>4, <1>5, <1>6, <1>7, <1>8, <1>9, <1>10, <1>11, <1>12, <1>13
     DEF Next, InvokeStep

\* The constructor's state has no invocations.
LEMMA AnswerInit == Init => AnswerInv
<1> SUFFICES ASSUME Init
             PROVE  AnswerInv
  OBVIOUS
<1>1. TypeInv
  BY TypeInit
<1>2. Answering = {}
  BY DEF Init, Answering, AboutToAnswer, NoMsg
<1> QED
  BY <1>1, <1>2 DEF Init, AnswerInv, OnItsWay, AtRest, Kept, Answered

\* The answers are in order in every state.
LEMMA AnswersHold == Spec => []AnswerInv
<1>1. AnswerInv /\ [Next]_vars => AnswerInv'
  BY AnswerStep, TypeStep DEF AnswerInv
<1> QED
  BY <1>1, AnswerInit, PTL DEF Spec

\* What the invariant says of callbacks and replies.
LEMMA CallbacksAndReplies == Spec => [](CallbacksArePending /\ RepliesAnswer)
<1>1. \A i \in Invocations : Pending(i) <=> i \in Waiting
  BY DEF Pending, Waiting, Answering
<1>2. AnswerInv => CallbacksArePending /\ RepliesAnswer
  BY <1>1 DEF AnswerInv, Kept, Answered, TypeInv, TypeOK, CallbacksArePending, RepliesAnswer
<1> QED
  BY <1>2, AnswersHold, PTL

\* A pending invocation has its callback, which is the only one there is for
\* it: none leaks, whatever clears or removes callbacks.
THEOREM CallbacksAreKept == Spec => []CallbacksArePending
  BY CallbacksAndReplies, PTL

\* A result that arrived completes its invocation, whatever clears or removes
\* callbacks meanwhile.
THEOREM InvocationsAnswered == Spec => []RepliesAnswer
  BY CallbacksAndReplies, PTL

-----------------------------------------------------------------------------
(* Tasks.  Every invocation implements InvocationTask: what was said above *)
(* of answers on their way keeps its failures and its result apart.        *)

\* A task that is given no outcome, nor an answer, stays as it is.
LEMMA TaskStays ==
  ASSUME NEW j \in Invocations, outcome'[j] = outcome[j],
         j \in Answering' <=> j \in Answering, pc'[j] = "idle" <=> pc[j] = "idle"
  PROVE  UNCHANGED TaskOf(j)
  BY DEF TaskOf, Answering

\* A failure is for a task that is pending, or is too late.
LEMMA TaskFails ==
  ASSUME NEW j \in Invocations, NEW with \in {"sendError", "stopped", "lost", "dropped"},
         outcome'[j] = IF outcome[j] = "none" THEN with ELSE outcome[j],
         outcome[j] = "none" => j \notin Answering /\ pc[j] # "idle"
  PROVE  Task(j)!Next \/ UNCHANGED TaskOf(j)
<1>1. CASE outcome[j] = "none"
  <2>1. TaskOf(j) = "pending" /\ TaskOf(j)' = with
    BY <1>1 DEF TaskOf, Answering
  <2> QED
    BY <2>1 DEF Task!Next, Task!Fail, Task!Failures
<1>2. CASE outcome[j] # "none"
  BY <1>2 DEF TaskOf
<1> QED
  BY <1>1, <1>2

\* Clearing the callbacks fails the pending ones, and none that is answered.
LEMMA TaskCleared ==
  ASSUME AnswerInv, NEW j \in Invocations, NEW with \in {"stopped", "lost", "dropped"},
         Clear(with), UNCHANGED <<rx, pc>>
  PROVE  Task(j)!Next \/ UNCHANGED TaskOf(j)
<1>1. CASE j \in callbacks
  <2>1. outcome'[j] = IF outcome[j] = "none" THEN with ELSE outcome[j]
    BY <1>1 DEF Clear, Settled
  <2>2. j \notin Answering /\ pc[j] # "idle"
    BY <1>1 DEF AnswerInv, OnItsWay, AtRest
  <2> QED
    BY <2>1, <2>2, TaskFails
<1>2. CASE j \notin callbacks
  BY <1>2, SameAnswering, TaskStays DEF Clear, Settled
<1> QED
  BY <1>1, <1>2

\* An invocation is called, checked, sent and forgotten.
LEMMA TaskInvokes ==
  ASSUME AnswerInv, NEW i \in Invocations, Register(i) \/ InvokeStep(i), NEW j \in Invocations
  PROVE  Task(j)!Next \/ UNCHANGED TaskOf(j)
<1>1. pc \in [Invocations -> {"idle", "registered", "checked", "sent", "failed", "remove", "done"}]
  BY DEF AnswerInv, TypeInv, TypeOK
<1>2. Answering' = Answering
  BY SameAnswering DEF Register, InvokeStep, CheckState, SendSucceeds, SendFails, FailInvocation,
     ForgetInvocation
<1>3. CASE Register(i)
  <2>1. /\ outcome' = outcome /\ pc[i] = "idle" /\ pc' = [pc EXCEPT ![i] = "registered"]
    BY <1>3 DEF Register, InvokeGoto
  <2>2. CASE j = i
    <3>1. outcome[i] = "none" /\ i \notin Answering
      BY <2>1 DEF AnswerInv, OnItsWay, AtRest
    <3>2. TaskOf(i) = "idle" /\ TaskOf(i)' = "pending"
      BY <1>1, <1>2, <2>1, <3>1 DEF TaskOf, Answering
    <3> QED
      BY <2>2, <3>2 DEF Task!Next, Task!Invoke
  <2>3. CASE j # i
    BY <1>1, <1>2, <2>1, <2>3, TaskStays
  <2> QED
    BY <2>2, <2>3
<1>4. CASE CheckState(i) \/ SendSucceeds(i) \/ SendFails(i) \/ ForgetInvocation(i)
  <2>1. /\ outcome' = outcome /\ pc[i] # "idle"
        /\ \E to \in {"checked", "sent", "failed", "done"} : pc' = [pc EXCEPT ![i] = to]
    BY <1>4 DEF CheckState, SendSucceeds, SendFails, ForgetInvocation, InvokeGoto
  <2> QED
    BY <1>1, <1>2, <2>1, TaskStays
<1>5. CASE FailInvocation(i)
  <2>1. /\ outcome' = Settled({i}, "sendError") /\ pc[i] = "failed"
        /\ pc' = [pc EXCEPT ![i] = "remove"]
    BY <1>5 DEF FailInvocation, InvokeGoto
  <2>2. CASE j = i
    <3>1. i \notin Answering
      BY <2>1 DEF AnswerInv, OnItsWay
    <3>2. outcome'[i] = IF outcome[i] = "none" THEN "sendError" ELSE outcome[i]
      BY <2>1 DEF Settled
    <3> QED
      BY <2>1, <2>2, <3>1, <3>2, TaskFails
  <2>3. CASE j # i
    BY <1>1, <1>2, <2>1, <2>3, TaskStays DEF Settled
  <2> QED
    BY <2>2, <2>3
<1> QED
  BY <1>3, <1>4, <1>5 DEF InvokeStep

\* An answer is accepted by an invocation that is pending, and completes it.
LEMMA TaskIsAnswered ==
  ASSUME AnswerInv, NEW s \in Sessions, NEW j \in Invocations,
         \/ CallBack(s)
         \/ \E i \in Invocations, kind \in {"progress", "result"} : MessageArrives(s, i, kind)
  PROVE  Task(j)!Next \/ UNCHANGED TaskOf(j)
<1>1. TypeOK
  BY DEF AnswerInv, TypeInv
<1>2. CASE CallBack(s)
  <2>1. /\ Answering' \subseteq Answering
        /\ \A k \in Answering \ Answering' : outcome'[k] # "none"
        /\ \A k \in Invocations : outcome'[k] = outcome[k] \/ k \in Answering
    BY <1>1, <1>2, LessAnswering
  <2>2. outcome'[j] = outcome[j] \/ (outcome[j] = "none" /\ outcome'[j] = "result")
    BY <1>2 DEF CallBack, Settled
  <2>3. pc' = pc
    BY <1>2 DEF CallBack, invokeVars
  <2>4. CASE outcome'[j] = outcome[j]
    BY <2>1, <2>3, <2>4 DEF TaskOf, Answering
  <2>5. CASE outcome[j] = "none" /\ outcome'[j] = "result"
    <3>1. TaskOf(j) = "answered" /\ TaskOf(j)' = "result"
      BY <2>1, <2>5 DEF TaskOf, Answering
    <3> QED
      BY <3>1 DEF Task!Next, Task!Complete
  <2> QED
    BY <2>2, <2>4, <2>5
<1>3. ASSUME NEW i \in Invocations, NEW kind \in {"progress", "result"}, MessageArrives(s, i, kind)
      PROVE  Task(j)!Next \/ UNCHANGED TaskOf(j)
  <2>1. Answering' = IF kind = "result" /\ i \in callbacks THEN Answering \cup {i} ELSE Answering
    BY <1>1, <1>3, MoreAnswering
  <2>2. pc[i] = "sent" /\ UNCHANGED <<pc, outcome>>
    BY <1>3 DEF MessageArrives, invokeVars
  <2>3. CASE j = i /\ kind = "result" /\ i \in callbacks /\ outcome[i] = "none"
    <3>1. i \notin Answering
      BY <2>3 DEF AnswerInv, OnItsWay
    <3>2. TaskOf(i) = "pending" /\ TaskOf(i)' = "answered"
      BY <2>1, <2>2, <2>3, <3>1 DEF TaskOf, Answering
    <3> QED
      BY <2>3, <3>2 DEF Task!Next, Task!Accept
  <2>4. CASE ~(j = i /\ kind = "result" /\ i \in callbacks)
    BY <2>1, <2>2, <2>4, TaskStays
  <2>5. CASE outcome[j] # "none"
    BY <2>2, <2>5 DEF TaskOf
  <2> QED
    BY <2>3, <2>4, <2>5
<1> QED
  BY <1>2, <1>3

\* Whatever the application does and the connection goes through, the task of
\* each invocation completes once, and one whose answer was accepted completes
\* with it: a loss, a stop() or a failing send between the two does not fail it.
THEOREM TasksAreOnce == Spec => TasksCompleteOnce
<1> DEFINE Step(j) == Task(j)!Next \/ UNCHANGED TaskOf(j)
<1>1. ASSUME AnswerInv, Next, NEW j \in Invocations
      PROVE  Step(j)
  <2>1. ASSUME NEW i \in Invocations, Register(i) \/ InvokeStep(i)
        PROVE  Step(j)
    BY <1>1, <2>1, TaskInvokes
  <2>2. ASSUME NEW s \in Sessions,
               \/ CallBack(s)
               \/ \E i \in Invocations, kind \in {"progress", "result"} : MessageArrives(s, i, kind)
        PROVE  Step(j)
    BY <1>1, <2>2, TaskIsAnswered
  <2>3. CASE UNCHANGED <<outcome, rx, pc>>
    BY <2>3, SameAnswering, TaskStays
  <2>4. ASSUME NEW s \in Sessions, LostCall(s)
        PROVE  Step(j)
    BY <1>1, <2>3, <2>4, TaskCleared DEF LostCall, invokeVars
  <2>5. ASSUME NEW c \in HubStops, StopClears(c)
        PROVE  Step(j)
    BY <1>1, <2>5, TaskCleared DEF StopClears, invokeVars
  <2>6. CASE DestroyHub
    BY <1>1, <2>6, TaskCleared DEF DestroyHub, invokeVars
  <2>7. ASSUME NEW c \in HubStops, StopRequests(c) \/ StopReturns(c)
        PROVE  Step(j)
    BY <2>3, <2>7 DEF StopRequests, StopReturns, invokeVars
  <2>8. CASE Start \/ ConnectionStep \/ Lost \/ ReconnectEnds
    BY <2>3, <2>8 DEF Start, ConnectionStep, Lost, ReconnectEnds, invokeVars
  <2> HIDE DEF Step
  <2> QED
    BY <1>1, <2>1, <2>2, <2>4, <2>5, <2>6, <2>7, <2>8 DEF Next
<1>2. AnswerInv /\ [Next]_vars
        => [\A i \in Invocations : Task(i)!Next \/ UNCHANGED TaskOf(i)]_vars
  BY <1>1
<1> HIDE DEF Step
<1> QED
  BY <1>2, AnswersHold, PTL DEF Spec, TasksCompleteOnce

-----------------------------------------------------------------------------
(* What an invocation is told when the connection is lost or stopped.      *)

\* Nothing that was or is being sent waits.
Quiet == \A i \in Waiting : pc[i] \notin {"checked", "sent"}

\* A loss is first told to the callbacks; after that nothing waits.
LossInv ==
    phase = "reconnecting" =>
        /\ recPc[session] \in {"call", "attempt", "over"}
        /\ recPc[session] # "call" => Quiet

\* An invocation is being sent only if it was, or if the connection is
\* connected; a step adds to those that wait only if it registers one.
LEMMA QuietStep ==
  ASSUME AnswerInv, [Next]_vars, phase # "connected", Quiet
  PROVE  Quiet'
<1>1. Waiting' \subseteq Waiting
  BY AnswerStep
<1> DEFINE Sends == \A i \in Invocations :
                        pc'[i] \in {"checked", "sent"} => pc[i] \in {"checked", "sent"}
<1>2. Sends
  <2> USE DEF connVars, invokeVars
  <2>0. DOMAIN pc = Invocations
    BY DEF AnswerInv, TypeInv, TypeOK
  <2>1. ASSUME NEW j \in Invocations, InvokeStep(j) \/ Register(j) PROVE Sends
    BY <2>0, <2>1 DEF InvokeStep, Register, CheckState, MaySend, SendSucceeds, SendFails,
       FailInvocation, ForgetInvocation, InvokeGoto
  <2>2. CASE UNCHANGED pc
    BY <2>2
  <2>3. ASSUME NEW s \in Sessions, NEW i \in Invocations, NEW kind \in {"progress", "result"},
               MessageArrives(s, i, kind)
        PROVE  Sends
    BY <2>2, <2>3 DEF MessageArrives
  <2>4. (\E s \in Sessions : CallBack(s) \/ LostCall(s)) => UNCHANGED pc
    BY DEF CallBack, LostCall
  <2>5. (\E c \in HubStops : StopClears(c) \/ StopRequests(c) \/ StopReturns(c)) => UNCHANGED pc
    BY DEF StopClears, StopRequests, StopReturns
  <2>6. Start \/ ConnectionStep \/ Lost \/ ReconnectEnds \/ DestroyHub => UNCHANGED pc
    BY DEF Start, ConnectionStep, Lost, ReconnectEnds, DestroyHub
  <2> QED
    BY <2>1, <2>2, <2>3, <2>4, <2>5, <2>6 DEF Next, vars
<1>3. Waiting \subseteq Invocations
  BY DEF Waiting
<1> QED
  BY <1>1, <1>2, <1>3 DEF Quiet

\* Once the loss has been told, nothing waits until the connection is back.
LEMMA LossStep ==
  ASSUME AnswerInv, LossInv, [Next]_vars
  PROVE  LossInv'
<1> USE DEF connVars, invokeVars
<1>1. TypeOK /\ session \in Sessions \cup {0} /\ DOMAIN recPc = Sessions
  BY DEF AnswerInv, TypeInv, TypeOK
<1>2. ASSUME phase' = "reconnecting" => phase = "reconnecting", UNCHANGED <<recPc, session>>
      PROVE  LossInv'
  BY <1>2, QuietStep DEF LossInv
<1>3. CASE Lost
  <2>1. phase = "connected" /\ session \in Sessions
    BY <1>1, <1>3 DEF Lost, Life!Lost, AnswerInv, TypeInv
  <2>2. recPc'[session'] = "call"
    BY <1>1, <1>3, <2>1 DEF Lost
  <2> QED
    BY <2>2 DEF LossInv
<1>4. ASSUME NEW s \in Sessions, LostCall(s) PROVE LossInv'
  <2>1. /\ recPc[s] = "call" /\ recPc' = [recPc EXCEPT ![s] = "attempt"]
        /\ UNCHANGED <<phase, session, pc>>
    BY <1>4 DEF LostCall
  <2>2. CASE s = session
    <3>1. \A i \in Waiting' : pc[i] = "idle"
      <4>1. CASE hubAlive
        BY <1>4, <4>1, ClearKeeps DEF LostCall, Outcomes
      <4>2. CASE ~hubAlive
        BY <4>2, AnswerStep DEF AnswerInv, Kept, Waiting
      <4> QED
        BY <4>1, <4>2
    <3>2. Quiet'
      BY <2>1, <3>1 DEF Quiet
    <3> QED
      BY <1>1, <2>1, <2>2, <3>2 DEF LossInv
  <2>3. CASE s # session
    <3>1. recPc'[session] = recPc[session]
      BY <1>1, <2>1, <2>3
    <3> QED
      BY <2>1, <3>1, QuietStep DEF LossInv
  <2> QED
    BY <2>2, <2>3
<1>5. CASE ReconnectEnds
  <2>1. phase = "reconnecting" /\ recPc[session] = "attempt" /\ session' = session
    BY <1>5 DEF ReconnectEnds
  <2>2. Quiet'
    BY <2>1, QuietStep DEF LossInv
  <2>3. session \in Sessions
    BY <1>1, <2>1 DEF AnswerInv, TypeInv
  <2>4. phase' = "connected" \/ recPc'[session'] = "over"
    BY <1>1, <1>5, <2>1, <2>3 DEF ReconnectEnds, Life!Resume, Life!RequestStop
  <2> QED
    BY <2>2, <2>4 DEF LossInv
<1>6. CASE ConnectionStep
  BY <1>2, <1>6 DEF ConnectionStep, Life!StartOk, Life!StartFail, Life!BeginDisconnect,
     Life!EndDisconnect, Life!Drop
<1>7. CASE Start
  BY <1>7 DEF Start, Life!BeginStart, LossInv
<1>8. ASSUME NEW c \in HubStops, StopClears(c) \/ StopRequests(c) \/ StopReturns(c)
      PROVE  LossInv'
  BY <1>2, <1>8 DEF StopClears, StopRequests, StopReturns, Life!RequestStop
<1>9. ASSUME NEW i \in Invocations, Register(i) \/ InvokeStep(i) PROVE LossInv'
  BY <1>2, <1>9 DEF Register, InvokeStep, CheckState, SendSucceeds, SendFails,
     FailInvocation, ForgetInvocation
<1>10. ASSUME NEW i \in Invocations, NEW s \in Sessions, NEW kind \in {"progress", "result"},
              MessageArrives(s, i, kind)
       PROVE  LossInv'
  BY <1>2, <1>10 DEF MessageArrives
<1>11. ASSUME NEW s \in Sessions, CallBack(s) PROVE LossInv'
  BY <1>2, <1>11 DEF CallBack
<1>12. CASE DestroyHub
  BY <1>2, <1>12 DEF DestroyHub
<1>13. CASE UNCHANGED vars
  BY <1>2, <1>13 DEF vars
<1> QED
  BY <1>3, <1>4, <1>5, <1>6, <1>7, <1>8, <1>9, <1>10, <1>11, <1>12, <1>13 DEF Next

\* Nothing is lost when the constructor returns.
LEMMA LossInit == Init => LossInv
  BY DEF Init, Life!Init, LossInv

\* When reconnecting begins, every invocation that was sent was told that the
\* connection was lost, or has its result, whatever the application does.
THEOREM LossIsTold == Spec => []NothingPendingAfterLoss
<1>1. LossInv /\ AnswerInv /\ [Next]_vars => LossInv'
  BY LossStep
<1>2. LossInv => NothingPendingAfterLoss
  BY DEF LossInv, Quiet, Waiting, Answering, Pending, NothingPendingAfterLoss
<1> QED
  BY <1>1, <1>2, LossInit, AnswersHold, PTL DEF Spec

\* A stop() that has cleared the callbacks leaves nothing that could wait.
Stopping ==
    \A c \in HubStops :
        stopPc[c] \in {"request", "wait"} => \A i \in Waiting : pc[i] = "idle"

\* The connection was asked to stop by a stop() that has not returned, or by
\* its own reconnecting.
Asked ==
    stopRequested =>
        \/ phase \in {"disconnected", "disconnecting"}
        \/ phase = "reconnecting" /\ recPc[session] = "over"
        \/ \E c \in HubStops : stopPc[c] = "wait"

NotUp == phase \in {"disconnected", "disconnecting", "connecting"} => Quiet

StopInv == Stopping /\ Asked /\ NotUp

\* A quiet application registers nothing while a stop() is in progress.
LEMMA StoppingStep ==
  ASSUME Usage = "quiet", AnswerInv, Stopping, [Next]_vars
  PROVE  Stopping'
<1> USE DEF connVars, invokeVars
<1>0. /\ DOMAIN pc = Invocations /\ DOMAIN stopPc = HubStops
      /\ Waiting \subseteq Invocations /\ Waiting' \subseteq Waiting
  BY AnswerStep DEF AnswerInv, TypeInv, TypeOK, Waiting
<1> DEFINE Stays == \A c \in HubStops :
                        stopPc'[c] \in {"request", "wait"} => stopPc[c] \in {"request", "wait"}
<1>1. ASSUME Stays, \A i \in Invocations : pc[i] = "idle" => pc'[i] = "idle"
      PROVE  Stopping'
  BY <1>0, <1>1 DEF Stopping
<1>2. ASSUME NEW i \in Invocations, Register(i) PROVE Stopping'
  BY <1>2 DEF Register, MayInvoke, Stopping
<1>3. ASSUME NEW i \in Invocations, InvokeStep(i) PROVE Stopping'
  BY <1>0, <1>1, <1>3 DEF InvokeStep, CheckState, SendSucceeds, SendFails, FailInvocation,
     ForgetInvocation, InvokeGoto
<1>4. ASSUME NEW c \in HubStops, StopClears(c) PROVE Stopping'
  <2>1. \A i \in Waiting' : pc[i] = "idle"
    BY <1>4, ClearKeeps DEF StopClears, Outcomes
  <2> QED
    BY <1>4, <2>1 DEF StopClears, Stopping
<1>5. ASSUME NEW c \in HubStops, StopRequests(c) \/ StopReturns(c) PROVE Stopping'
  <2>1. Stays
    BY <1>0, <1>5 DEF StopRequests, StopReturns
  <2> QED
    BY <1>1, <1>5, <2>1 DEF StopRequests, StopReturns
<1>6. CASE UNCHANGED <<pc, stopPc>>
  BY <1>1, <1>6
<1>7. ASSUME NEW i \in Invocations, NEW s \in Sessions, NEW kind \in {"progress", "result"},
             MessageArrives(s, i, kind)
      PROVE  Stopping'
  BY <1>6, <1>7 DEF MessageArrives
<1>8. ASSUME NEW s \in Sessions, CallBack(s) \/ LostCall(s) PROVE Stopping'
  BY <1>6, <1>8 DEF CallBack, LostCall
<1>9. CASE Start \/ ConnectionStep \/ Lost \/ ReconnectEnds \/ DestroyHub
  BY <1>6, <1>9 DEF Start, ConnectionStep, Lost, ReconnectEnds, DestroyHub
<1>10. CASE UNCHANGED vars
  BY <1>6, <1>10 DEF vars
<1> QED
  BY <1>2, <1>3, <1>4, <1>5, <1>7, <1>8, <1>9, <1>10 DEF Next

\* Who asked for the stop is still there until the connection is down.
LEMMA AskedStep ==
  ASSUME TypeInv, Asked, [Next]_vars
  PROVE  Asked'
<1> USE DEF connVars, invokeVars
<1>0. DOMAIN stopPc = HubStops /\ DOMAIN recPc = Sessions /\ (phase # "disconnected" => session \in Sessions)
  BY DEF TypeInv, TypeOK
<1>1. CASE UNCHANGED <<phase, stopRequested, session, recPc, stopPc>>
  BY <1>1 DEF Asked
<1>2. CASE Start
  BY <1>2 DEF Start, Life!BeginStart, Asked
<1>3. CASE Lost
  BY <1>3 DEF Lost, Life!Lost, Asked
<1>4. CASE ConnectionStep
  BY <1>4 DEF ConnectionStep, Life!StartOk, Life!StartFail, Life!BeginDisconnect,
     Life!EndDisconnect, Life!Drop, Asked
<1>5. CASE ReconnectEnds
  <2>1. phase = "reconnecting" /\ recPc[session] = "attempt" /\ UNCHANGED <<session, stopPc>>
    BY <1>5 DEF ReconnectEnds
  <2>2. CASE Life!Resume
    BY <2>1, <2>2 DEF Life!Resume, Asked
  <2>3. CASE Life!RequestStop /\ recPc' = [recPc EXCEPT ![session] = "over"]
    BY <1>0, <2>1, <2>3 DEF Life!RequestStop, Asked
  <2> QED
    BY <1>5, <2>2, <2>3 DEF ReconnectEnds
<1>6. ASSUME NEW s \in Sessions, LostCall(s) PROVE Asked'
  <2>1. \A t \in Sessions : recPc[t] = "over" => recPc'[t] = "over"
    BY <1>0, <1>6 DEF LostCall
  <2>2. UNCHANGED <<phase, stopRequested, session, stopPc>>
    BY <1>6 DEF LostCall
  <2> QED
    BY <1>0, <2>1, <2>2 DEF Asked
<1>7. ASSUME NEW c \in HubStops, StopClears(c) PROVE Asked'
  <2>1. \A e \in HubStops : stopPc[e] = "wait" => stopPc'[e] = "wait"
    BY <1>0, <1>7 DEF StopClears
  <2> QED
    BY <1>7, <2>1 DEF StopClears, Asked
<1>8. ASSUME NEW c \in HubStops, StopRequests(c) PROVE Asked'
  <2>1. UNCHANGED <<session, recPc>> /\ stopPc[c] = "request"
    BY <1>8 DEF StopRequests
  <2>2. stopPc'[c] = "wait" \/ phase' \in {"disconnected", "disconnecting"}
    BY <1>0, <1>8 DEF StopRequests
  <2> QED
    BY <2>2 DEF Asked
<1>9. ASSUME NEW c \in HubStops, StopReturns(c) PROVE Asked'
  BY <1>9 DEF StopReturns, Asked
<1>10. ASSUME NEW i \in Invocations, Register(i) \/ InvokeStep(i) PROVE Asked'
  BY <1>1, <1>10 DEF Register, InvokeStep, CheckState, SendSucceeds, SendFails,
     FailInvocation, ForgetInvocation
<1>11. ASSUME NEW i \in Invocations, NEW s \in Sessions, NEW kind \in {"progress", "result"},
              MessageArrives(s, i, kind)
       PROVE  Asked'
  BY <1>1, <1>11 DEF MessageArrives
<1>12. ASSUME NEW s \in Sessions, CallBack(s) PROVE Asked'
  BY <1>1, <1>12 DEF CallBack
<1>13. CASE DestroyHub
  BY <1>1, <1>13 DEF DestroyHub
<1>14. CASE UNCHANGED vars
  BY <1>1, <1>14 DEF vars
<1> QED
  BY <1>2, <1>3, <1>4, <1>5, <1>6, <1>7, <1>8, <1>9, <1>10, <1>11, <1>12, <1>13, <1>14 DEF Next

\* The connection goes down when a stop() has cleared the callbacks, when the
\* loss was told, or when the hub is gone: in each case nothing waits.
LEMMA NotUpStep ==
  ASSUME AnswerInv, LossInv, StopInv, [Next]_vars
  PROVE  NotUp'
<1> USE DEF connVars, invokeVars
<1>1. CASE phase \in {"disconnected", "disconnecting", "connecting"}
  BY <1>1, QuietStep DEF StopInv, NotUp
<1>2. ASSUME \A i \in Waiting : pc[i] = "idle", UNCHANGED pc
      PROVE  NotUp'
  BY <1>2, AnswerStep DEF NotUp, Quiet
<1>3. CASE ConnectionStep /\ phase \in {"connected", "reconnecting"}
  <2>1. pc' = pc /\ (~hubAlive \/ stopRequested)
    BY <1>3 DEF ConnectionStep, Life!StartOk, Life!StartFail, Life!BeginDisconnect,
       Life!EndDisconnect, Life!Drop
  <2>2. CASE ~hubAlive
    BY <1>2, <2>1, <2>2 DEF AnswerInv, Kept, Waiting
  <2>3. CASE \E c \in HubStops : stopPc[c] = "wait"
    BY <1>2, <2>1, <2>3 DEF StopInv, Stopping
  <2>4. CASE phase = "reconnecting" /\ recPc[session] = "over"
    BY <2>4, QuietStep DEF LossInv, NotUp
  <2> QED
    BY <1>3, <2>1, <2>2, <2>3, <2>4 DEF StopInv, Asked
<1>4. CASE phase' = phase \/ phase' \in {"connected", "reconnecting"}
  BY <1>1, <1>4 DEF NotUp
<1>5. Start => phase = "disconnected"
  BY DEF Start, Life!BeginStart
<1>6. Lost \/ ReconnectEnds => phase' = phase \/ phase' \in {"connected", "reconnecting"}
  BY DEF Lost, Life!Lost, ReconnectEnds, Life!Resume, Life!RequestStop
<1>7. DestroyHub \/ UNCHANGED vars => phase' = phase
  BY DEF DestroyHub, vars
<1>8. (\E c \in HubStops : StopClears(c) \/ StopRequests(c) \/ StopReturns(c)) => phase' = phase
  BY DEF StopClears, StopRequests, StopReturns, Life!RequestStop
<1>9. (\E s \in Sessions : CallBack(s) \/ LostCall(s)) => phase' = phase
  BY DEF CallBack, LostCall
<1>10. (\E i \in Invocations : Register(i) \/ InvokeStep(i)) => phase' = phase
  BY DEF Register, InvokeStep, CheckState, SendSucceeds, SendFails, FailInvocation,
     ForgetInvocation
<1>11. ASSUME NEW i \in Invocations, NEW s \in Sessions, NEW kind \in {"progress", "result"},
              MessageArrives(s, i, kind)
       PROVE  phase' = phase
  BY <1>11 DEF MessageArrives
<1>12. phase \in {"disconnected", "connecting", "connected", "reconnecting", "disconnecting"}
  BY DEF AnswerInv, TypeInv, TypeOK
<1> QED
  BY <1>1, <1>3, <1>4, <1>5, <1>6, <1>7, <1>8, <1>9, <1>10, <1>11, <1>12 DEF Next

\* What the message of stop() says: once the connection is down, no invocation
\* that was sent still waits for a result, if the application makes no call
\* while it stops the connection.
THEOREM StopIsTold ==
  ASSUME Usage = "quiet"
  PROVE  Spec => []NothingPendingWhenDown
<1> DEFINE I == AnswerInv /\ LossInv /\ StopInv
<1>1. Init => I
  <2>1. Init => StopInv
    BY DEF Init, Life!Init, StopInv, Stopping, Asked, NotUp, Quiet, Waiting
  <2> QED
    BY <2>1, AnswerInit, LossInit
<1>2. I /\ [Next]_vars => I'
  <2> SUFFICES ASSUME I, [Next]_vars
               PROVE  I'
    OBVIOUS
  <2>1. AnswerInv'
    BY AnswerStep, TypeStep DEF AnswerInv
  <2>2. LossInv' /\ NotUp'
    BY LossStep, NotUpStep
  <2>3. Stopping' /\ Asked'
    BY StoppingStep, AskedStep DEF StopInv, AnswerInv
  <2> QED
    BY <2>1, <2>2, <2>3 DEF StopInv
<1>3. I => NothingPendingWhenDown
  BY DEF StopInv, NotUp, Quiet, Waiting, Answering, Pending, NothingPendingWhenDown
<1> QED
  BY <1>1, <1>2, <1>3, PTL DEF Spec

=============================================================================
