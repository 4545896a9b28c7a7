# A verification project for a SignalR client and its pages

This directory models the connection logic of the ASP.NET SignalR C++ client kept in
this repository (`src/signalrclient`, version 1.0.0-beta1), the connection of its web page
(`htmlTest/Scripts/IdentitumClient.js` over `jquery.signalR-2.2.1.js`: see section 7 for which
version the page loads) and the fingerprint enrolment page (`htmlTest/Scripts/JS/BioCapture.js`), model-checks them with TLC
and proves their main safety properties with TLAPS.

Paths are relative to the repository root; bare names such as `connection_impl.cpp` are
files of `src/signalrclient/` or of `htmlTest/Scripts/`.

## 1. The system

The repository is a client library with the programs that use it. A user creates a
`connection` or a `hub_connection`, starts it, sends messages or invokes methods of server
hubs, and stops it. The library negotiates over HTTP, opens a websocket, reads messages in a
receive loop, reconnects when the websocket breaks, and tells the user about all of it with
callbacks. Everything is asynchronous: each operation is a chain of pplx task continuations
that run on pool threads, application threads call into the same object, and a connection may
be destroyed while its tasks are still running.

| Component | State it keeps | Operations | Hard behaviours |
|---|---|---|---|
| **connection_impl** (`connection_impl.cpp/.h`, `event.h`) | `m_connection_state`, `m_stop_lock`, `m_start_completed_event`, `m_disconnect_cts`, `m_transport`, `m_connection_token`, `m_message_id`, `m_groups_token`, user callbacks | `start`, `stop`, `send`, `reconnect` (from the error callback), `process_response`, setters, destructor | Stops, starts and reconnects overlap. The lock is held across waits. Continuations run after the session they belong to is over. |
| **websocket_transport** (`websocket_transport.cpp`) | `m_websocket_client`, `m_receive_loop_cts`, two mutexes | `connect`, `disconnect`, `send`, `receive_loop`, destructor | A loop may outlive its source. Error and message callbacks. Reuse by reconnect. |
| **callback_manager** and **hub_connection_impl** (`callback_manager.cpp`, `hub_connection_impl.cpp`) | `m_id`, `m_callbacks`, `m_map_lock`, `m_proxies` | `invoke_json/void`, `process_message`, `stop`, reconnecting hook, destructor, `create_hub_proxy` | An invocation races its response, its failing send, stop and connection loss. |
| **internal_hub_proxy**, **hub_proxy** | `m_subscriptions` | `on`, `invoke_event`, `invoke_*` | Checks the connection state, then changes the table. |
| **request_sender**, **http_sender**, **url_builder** | none | negotiate/start/abort requests, URLs | Pure functions and I/O. |
| **logger, trace_log_writer, signalr_client_config, web_request, transport factory, default_websocket_client, public facades, DLL** | configuration | forwarding, I/O | None of their own. |
| **SignalRService**, **HubConnnection**, **samples** (C#, C++) | the sample server's user tables (`SignalRService/RawConnection.cs`) | handlers of server events | Tables updated by concurrent handlers. |
| **page connection** (`IdentitumClient.js`, `jquery.signalR-2.2.1.js`) | `state`, the start promise, the init handler, the socket, five timers, `lastActiveAt`, invocation callbacks, the page's handlers and `localServiceReady` | `start`, `stop`, the transport's events, reconnect, heartbeat, ping, `invoke`, `connectHub` | Tasks of one session that run in the next. Handlers registered again at every reconnect, which start a session from inside `stop()`. A computer that sleeps. |
| **enrolment page** (`BioCapture.js`, `popup-window.js`) | captured fingers, absences, attempts, what each finger, menu and hand button still does, `fingersToCapture`, the dialogs | capture, absence of a finger or a hand, verification at INE, sending, the service's answers | Any order of clicks and answers; answers read against a global; decisions by the lengths of two arrays. |
| **other scripts of htmlTest** | | earlier copies, device pages, presentation | None of their own. |
| **vendored code** (`packages/`, gtest, jQuery) | | | Not modelled. |

Interactions. `hub_connection_impl` owns a `connection_impl` and gets its messages and its
reconnecting event through callbacks that hold weak pointers. `connection_impl` creates one
transport per start and gives it two callbacks: one for messages and one for errors, the
latter running `reconnect()`. All waiting is done on `m_start_completed_event`; all mutual
exclusion between `start`, `stop` and `reconnect` on `m_stop_lock`; "is this still my
session?" is asked of the cancellation source each chain captured.

The page's connection is the same protocol in another language: one thread, so that a task
runs to its end with every handler it triggers, but timers, requests and sockets of a session
that may answer after `stop()`. The enrolment page is a client of a hub of the local service;
it knows the connection only as calls that may throw.

## 2. Modules

| Module | What it is | Code |
|---|---|---|
| `Connection` | `start`, `stop`, the error callback with `reconnect`, `process_response` and the destructor of one connection object | `connection_impl.cpp` |
| `Lifecycle` | what a connection promises: its states, its transitions, and that a request to stop is final | `connection_impl.cpp`, implemented by `Connection` |
| `WebsocketTransport` | `connect`, `disconnect`, `receive_loop` and the destructor of one transport over its sockets | `websocket_transport.cpp` |
| `TransportLink` | what a transport is to the connection that uses it | implemented by `WebsocketTransport`; `loop` of `Connection` is this link, one for each session |
| `InvocationTask` | what the task of one invocation promises its caller: it completes once, and with the result if the answer found its callback | implemented by `HubInvocations`, for each invocation |
| `HubInvocations` | hub invocations, their callbacks, the messages that answer them, `stop` and the reconnecting hook, over a connection that is `Lifecycle` | `hub_connection_impl.cpp`, `callback_manager.cpp`, `connection_impl::send` |
| `JsConnection` | the page's connection: `start`, `stop`, the webSockets transport, reconnecting, heartbeat, ping, invocations, and the page's handlers | `jquery.signalR-2.2.1.js`, `IdentitumClient.js` |
| `PageLifecycle` | what the connection promises the page: only a start that succeeded connects, a start may be left pending only by the end of its session, and a page that was connected once never stays without a session | implemented by `JsConnection` |
| `FingerRegister` | what the page promises of an enrolment: a finger is decided once, and only a complete register with enough captured fingers is sent | followed by `Enrolment` until one of two orders of clicks spoils it (2.5) |
| `Enrolment` | the enrolment of the fingers of one person | `BioCapture.js`, `popup-window.js` |
| `ConnectionProofs`, `AnyUseProofs`, `RestartProofs`, `TransportProofs`, `HubProofs`, `JsProofs`, `EnrolmentProofs` | the theorems of section 6 | |
| `MCConnection`, `MCWebsocketTransport`, `MCHubInvocations`, `MCJsConnection`, `MCEnrolment` | the model values, symmetry sets and instances of the runs | |

The modules fit together by refinement. `Connection` knows a transport only as a *link* that
is off, connecting, live, or closing, and `LinkSpec` says that the detailed transport behaves as
such a link. That a connection asks no transport to connect that is connected still is
`ReconnectNeverThrows`, which does not hold of every use. `HubInvocations` knows the connection only as `Lifecycle`, and `LifecycleSpec` says
`Connection` implements it. `InvocationTask`, `PageLifecycle` and `FingerRegister` are what the
users of the three top modules may rely on: a caller of `invoke()`, the page, and the service that
keeps the fingers.

Some definitions have a neighbour that nothing uses, such as `RefuseStop` and `JoinStop`: the
second is the first as a plausible mistake would have it. Each property of each run was
checked to fail when the definition is replaced by such a neighbour (`mutants` in
`PROJECT.json`).

### 2.1 Connection

One action is a stretch of code between two points at which another thread can interfere:
taking `m_stop_lock`, a wait on `m_start_completed_event`, a task boundary, or two accesses of
shared state outside the lock.

| State | Code |
|---|---|
| `connState` | `m_connection_state` |
| `stopLock` | `m_stop_lock`: the operation that holds it |
| `startCompleted` | `m_start_completed_event` is signaled |
| `cur`, `canceled` | the session whose source `m_disconnect_cts` holds; the sessions whose source is canceled |
| `transport`, `token`, `cursor` | `m_transport`, `m_connection_token`, `m_message_id` with `m_groups_token`, each as the session it comes from |
| `startPc`, `tce` | the continuations of `start()`; `connect_request_tce` |
| `loop`, `msg` | the receive loop of each session's transport; the message it is processing |
| `stopPc`, `recPc`, `recSess`, `recCts`, `inner`, `expired` | where each `stop()` and each `reconnect()` is, what it captured, whether a callback it runs waits for a `stop()`, and whether the reconnect window is over |
| `alive` | the object exists |

* `start()`: `StartCall` is the part under the lock (lines 76-98). `Negotiate`,
  `RejectNegotiation`, `ConnectTransport`, `ConnectTimeout`, `SetTransport`, `StartRequest`,
  `StartResponse` are the chain of tasks (98-290). `StartSucceeded`, or `StartDropsTransport`,
  `StartDisconnects` and then `StartSignals`, are its last continuation (131-171); the failure
  path is three actions because nothing is locked there.
* `stop()`: `StopCall`, `StopAcquire`, `StopProceed`, `StopDisconnect` are `shutdown()`
  (450-510), `StopFinish` the continuation in `stop()` (415-446). The lock stays taken while
  `shutdown()` waits for the event, as in the code.
* The error callback and `reconnect()`: `LoopError`, `ErrCheck` (212-236), `RecAcquire`,
  `RecProceed` (512-540), `CallbackStops`/`CallbackReturns` for the user's callback, which may
  call `stop()` and wait, `RecRecheck` (562-594), then the attempts of `try_reconnect`
  (596-727) and the outcome.
* `Destroy` is the destructor, which runs when no operation holds a `shared_ptr`.

`Usage` says what the application keeps to: `once` starts the connection a single time;
`awaited` starts it again after the tasks of all its earlier calls completed; `free` calls
anything at any time, which the code permits and partly documents.

### 2.2 WebsocketTransport

The `k`-th `connect()` creates a client, a source for the receive loop and a `connect_tce`,
so all three are named `k`. `loopPc[k]` follows the continuation of `connect()` and
`receive_loop()`; `reads[k]` is the client the loop has called `receive()` on, which is the one
`m_websocket_client` holds *at that moment* (line 155), not the one of its own `connect()`.
`socket`, `sent` and `taken` are the clients and what the server does. Its actions are named
after the steps of the code. `Usage` is `connection` (connects again only after an error or a
failed connect, never after a disconnect, which is what `connection_impl` does), `awaited`, or
`free`.

### 2.3 HubInvocations

An invocation registers its callback (`Register`), then `connection_impl::send()` checks the
state (`CheckState`), and the send succeeds or fails; the continuation of a failed send first
fails the task and then removes the callback (`FailInvocation`, `ForgetInvocation`).
`MessageArrives` finds, and for a result removes, the callback under `m_map_lock`;
`CallBack` calls it without the lock. `stop()` is two actions, `StopClears` and `StopRequests`,
because the code clears the callbacks before it stops the connection. `LostCall` is the hook set
by `set_reconnecting`, run with no lock. `Usage` is `quiet` (the application makes no call while
one of its `stop()` calls is in progress) or `free`. `TaskOf(i)` maps an invocation to
`InvocationTask`: `answered` is the time between the removal of its callback by a result and the
call of it.

### 2.4 JsConnection

An action is one task of the browser: the answer of a request, an event of a socket, a timer or
a click, with all the handlers and nested calls it leads to. So `stop` is not an action of its
own but a part of every task that stops the connection, and it contains the whole of
`triggerDisconnect`: the hub's handler fails the invocations, then each disconnected handler of
the page calls `connectHub()`, the first of which starts the next session.

| State | Code |
|---|---|
| `state`, `promise`, `done`, `older` | `connection.state`; the deferral of `start()`, the done callbacks on it, and those on deferrals that a `stop()` left pending |
| `phase`, `completed` | what initialization waits for (negotiate, the transport's init message, the start request); `initHandler.startCompleted` |
| `socket`, `again`, `stale` | `connection.socket`, whether a reconnect started it (without callbacks), sockets let go whose close event is to come |
| `reconnectTimer`, `giveUpTimer`, `transportTimer` | the reconnect timeout, the disconnect timeout, the time limit of a connecting transport |
| `beats`, `owned`, `lastActive` | heartbeat timers that will fire, whether `beatHandle` is one of them, whether `lastActiveAt` is defined |
| `pinging`, `calls` | a ping under way; the kinds of invocations that have a callback |
| `handlers`, `ready`, `scripts` | the page's disconnected handlers; `localServiceReady`; loads of the hub script under way |

The page loads the hub script (`loadHub`), when it is loaded itself or the start button finds the
service not ready; when the script comes, `connectHub` runs on whatever the connection is by then,
and if it does not (`scriptFails`), `localServiceReady` becomes false. `connectHub` from a
disconnected handler is part of `triggerDisconnect`.

A session is negotiated (`negotiated`), its socket opens (`socketOpens`), the init message
arrives (`initReceived`), the start request succeeds (`started`). `started` resolves the
promise, and the promises of earlier sessions that were stopped while their transport was
connecting, because `onStart` handlers are never unbound; each done callback adds one handler.
A lost socket (`socketCloses`, or a heartbeat that finds the keep alive timed out) sets the
reconnect timeout, which starts another (`reconnectFires`) and the disconnect timeout
(`onReconnectTimeout`). `beatAfterSleep` is the heartbeat after the computer slept for longer
than `reconnectWindow`. For `PageLifecycle` the page was connected if it has a disconnected handler.

### 2.5 Enrolment

Clicks on fingers, menus, hand buttons, INE icons and *save* are actions
(`captureFingerprints`, `addAbsenceMenu`, `removeHandOptions`, `sendToIne`, `sendEnrollment`),
and so are the confirmations (`confirmAbsence`, `confirmHand`, `cancelConfirm`) and the answers
of the service (`addCapture`, `addcaptureIndex`, `addEnrollment`). `Idle` says when a click
reaches the panel: `waitingDialog` and the confirmations are modal. `addCapture` reads the
flags of its answer against `fingersToCapture`, whatever that holds by then. A finger on its
third failure becomes absent, which may end the enrolment and the loop over the flags
(`Aborts`, `Read`). What the page shows beyond what can be clicked is left out. The name of the
finger a verification is about (`posToIne`) is too, for the answer is not compared with it.

Clicks and answers come in any order the page permits. Two orders spoil the register, and two
history variables, which no guard reads, remember that they happened:

* `overlapped`: a capture was begun while a verification or an enrolment was not answered. A
  verification shows no waiting dialog, and its answer hides whichever there is, that of the
  capture too; a second capture then changes `fingersToCapture` before the answer of the first is
  read against it. This breaks `CaptureIsNamed`, and with it all the others below: what is
  recorded is about fingers nobody put on the device.
* `handLate`: a hand was given up after an absence. `confirmHand` records every finger of the
  hand as absent, also one that was, and `activateFingerEvent` puts every finger of the other hand
  back on the panel, also one that is absent (`BioCapture.js:780-795`). So a finger may be absent
  and captured, recorded twice as absent, or tried a fourth time; and as the absences counted twice
  fill the arrays early, the INE icons show and an incomplete enrolment may be sent. This
  breaks `RecordedOnce`, `TriedThrice`, `SentIsComplete` and `FollowsRegister`.

The properties say that these are the only ways: `AnswersMatch` is `CaptureIsNamed` unless
`overlapped`, and `FingerOnce`, `ThreeAttempts`, `SentIsComplete` and `FollowsRegister` make an
exception for both (`Spoilt`). The run `put_back` keeps the violation for the second order,
`Overtaken.cfg` the one for the first.

## 3. Runs

| Run | Question | Bounds | Distinct states |
|---|---|---|---|
| `one_shot` | A connection started once: assertions, transport, nobody waits with the lock held for an event that nobody will signal; under fairness, every call and the lifecycle complete | 1 start, 2 stops, 2 transport errors | 17,933 |
| `restart` | Safety and lifecycle when it is started again after the tasks of the calls before, while the errors, reconnects and stops of the last session may still be under way | 2 starts, 2 stops, 2 transport errors | 510,023 |
| `transport` | Messages handled once and in order by the right loop; connect, disconnect and canceled loops end | 2 connects, 2 messages each, 2 disconnects | 29,436 |
| `transport_reuse` | The transport is a `TransportLink` and the socket of a canceled loop is gone or about to be closed, whatever its callers do | 3 connects, 2 disconnects, no message | 119,197 |
| `hub` | No invocation left waiting after stop or loss; replies answer; no callback leaks; each task completes once (`InvocationTask`); completion | 2 invocations, 1 stop, 2 sessions | 303,563 |
| `js_connection` | Nothing of a session outlives it, a working session has what keeps it alive, attempts end, the page gets its `PageLifecycle`, whatever fires late | 3 heartbeat timers, 3 handlers, 2 loads of the hub script, sleeps | 29,248 |
| `enrolment` | Answers match, no finger is recorded twice or tried a fourth time, what is decided and sent is a `FingerRegister`, but for the two orders that spoil it | 4 fingers, 2 required, 2 captures, 1 verification and 1 enrolment in flight, 1 save handler, 4 attempts, 5 entries | 3,534,456 |
| `stolen_teardown`, `stale_error`, `stray_message`, `stale_loss`, `put_back` | Section 4 | smallest that shows it | |

Why the bounds are enough to be interesting. Two stops are needed for one to find the other
disconnecting, to wait behind it, or to be called by a callback while another is called by
the application; two errors for a reconnected connection to be lost again; two sessions for
anything late from the first to meet the second. With one start the second error can only come
from a loop that a reconnect reopened. Three connects of a transport let a loop survive two
later ones; two messages distinguish order and number. In `restart` two errors let the reconnect
of a session that was stopped meet the one of the next session. Two invocations let one be answered
while the other is cleared; the second session lets a result, a loss or a callback of the first
meet it. `NothingPendingAfterLoss`, `RepliesAnswer` and `CallbacksArePending` do not depend on
`Usage` (section 6). Beyond that, section 6 proves the safety of `one_shot`, of `hub` and of
the transport for every value of the constants, and that of `restart` for any number of
restarts, stops and errors; liveness rests on the runs.

`js_connection` has no bound on sessions, losses or stops: its state is finite except for what
is counted, and three is one more than what a rule about "one" or "the other" can confuse. Sleeps
add heartbeat timers, so that the computer sleeps only while there are fewer than three. The four
fingers of `enrolment` are both thumbs (a pair across the hands) and a pair of one hand, so that
each hand button and each case of `fingerToCapture` but the single finger, which is the simplest
one, has a meaning; two captures are what it takes for an answer to be read against the wrong one, and
a fourth attempt or a fifth entry is where a spoilt register shows, after which no capture is
begun. "10" and "5" of the code are the number of fingers of the panel and of the hand.
`EnrolmentProofs` has no such bounds.

Deadlock is not checked by TLC in the runs of the C++ client and of the enrolment: a system whose
calls have all been made, or an enrolment that is sent, may stop. That no call is stuck is what
the liveness properties say. `js_connection` checks it.

Fairness is assumed of task continuations and threads (they are scheduled), of a request,
a websocket connect and a `close()` (they end, one way or the other), and of the timers.
Nothing obliges the application to call, the server to send or the network to fail. Weak
fairness suffices: `m_stop_lock` has at most as many contenders as calls were made.
`m_start_completed_event` stays signaled once the last start or reconnect signaled it.
That a websocket connect ends is an assumption the code does not enforce for a reconnect
attempt, which has no timeout of its own (`connection_impl.cpp:672`). In `js_connection` the
browser answers or fails the negotiate and start requests, and its timers fire; sockets need not
open or close, for the time limit and the disconnect timeout end what waits for them. `stop()`
is not fair, so that a session may last for ever.

The symmetric runs (`restart`, `transport_reuse`) check safety only; the stops and the
disconnects are interchangeable in them. The others need none.

## 4. Where the code and what is said about it differ

Each of these is a configuration that TLC ends with a counterexample. `PROJECT.json` quotes, for
five of them, the comment, assertion, message or test concerned; the configurations `LateSignal`,
`LateInvoke`, `Sleep`, `DeadEnd` and `Overtaken` are to be run by hand.

* `LateSignal.cfg` (`MCConnection`): a failed `start()` enters `disconnected` and then signals the
  event, with no lock. A `start()` accepted between the two is signaled by the old one, and a
  `stop()` does not wait for it, against the assertion at line 488 (`ShutdownAssertion`).
* `stolen_teardown`: the continuation of a `stop()` that found the connection disconnected nulls
  the transport another `stop()` is about to use. It does not take an application that calls
  anything at any time, nor a `stop()` of a connection that was not started: the run has one that
  waits for each of its calls, and one transport error. A reconnect that fails calls `stop()`
  itself (`connection_impl.cpp:654`), nobody is given the task of that call, and so it may finish
  in the next session.
* `stale_error`: an error callback of a start that failed, for its source is never canceled, runs
  `reconnect()` on the next session, whose live transport throws *transport already connected*.
  It takes only an `awaited` application.
* `stray_message`: a message is found not stray and processed after `stop()` and `start()`, which
  leaves the stopped session's message id in the new one.
* `LateInvoke.cfg` (`MCHubInvocations`): an invocation made between the two steps of the hub's
  `stop()` is sent and waits for ever (`NothingPendingWhenDown`).
* `stale_loss`: the reconnecting hook of a stopped session fails an invocation of the next one,
  which works.
* `put_back`: the operator confirms that a finger is missing, and then gives up the other hand, which
  puts the finger back on the panel; it is captured, and is captured and absent. The confirmation
  of the absence had said that it cannot be reverted (`BioCapture.js:593`). Section 2.5 has what
  else follows.
* `Overtaken.cfg` (`MCEnrolment`): a verification asked for before every finger was done is answered
  during a capture and hides its dialog; the next click begins a second one, and the answer of
  the first is read against the second (`CaptureIsNamed`).
* `DeadEnd.cfg` (`MCEnrolment`): each finger of the panel is captured or absent and enough are captured, but no INE
  icon is shown, so that nothing can be verified and *save* stays disabled. `addCapture()` shows
  the icons when the two arrays together hold every finger, a manual absence only when it is the
  last one allowed, and giving up a hand never.
* `Sleep.cfg` (`MCJsConnection`): after the computer slept, `beat()` stops the connection, whose
  disconnected handlers start the next session, and then sets its timer again: `lastActiveAt` was
  deleted meanwhile, and the comparison with it is false. The heartbeat of the dead session beats
  on beside that of the new one (`HeartbeatOfSession`), against the comment at
  `jquery.signalR-2.2.1.js:1006`. The page is none the worse for it (`SessionHasHeartbeat`).

Smaller things met while modelling the pages, for which no property is kept: each verification
adds one more click handler to *save*, so that one click sends the enrolment several times; if all
ten fingers are required the INE icons have no handler; the abort of `addCapture` compares the
number of absences with the number of *required* fingers (`BioCapture.js:243`); a server of another
protocol version leaves the connection `connecting`; an invocation made while the socket is
closed is dropped silently and waits until the session ends; one that `send()` refuses leaves its
callback; `localServiceReady` stays true while the page is disconnected; a ping that is answered
late may stop the session after the one it belonged to.

`LoopReadsOwnSocket` also fails for `Usage` other than `connection`: a loop that was not canceled
when it looked calls `receive()` on the client of a later `connect()`. `connection_impl` never
uses a transport in that way, which is why no run is kept for it.

## 5. Properties

Safety of the connection: `NoNullTransport` (the unguarded dereferences of `m_transport`;
`RequestsHaveTransport` is the part about start and reconnect), `StateAssertions` (the assertions
of the code: `ShutdownAssertion` and `TransitionAssertions`), `DisconnectedHasNoTransport`,
`SignaledIsSettled` (what the event means to those who wait for it), `WaitIsForSomeone` (nobody
waits for it in vain with the lock held), `TeardownExcludesReconnect`, `ReconnectNeverThrows`,
`TokenOfThisSession`, `StoppedSessionIsSilent`; implementation of `Lifecycle` (`LifecycleSpec`,
`FairLifecycle`). Liveness: `CallsComplete` (every
`start()`, `stop()` and error callback).

Transport: `CanceledHasNoSocket` (every loop that is over has its socket closed, by somebody),
`LoopReadsOwnSocket`, `AllMessagesHandled`, `LinkSpec`; `TransportCallsComplete`,
`CanceledLoopEnds`. `OneLiveLoop` is proved.

Hub: `NothingPendingWhenDown`, `NothingPendingAfterLoss`, `RepliesAnswer`,
`CallbacksArePending`, `TasksCompleteOnce` (implementation of `InvocationTask`),
`LostOnlyWhenLost`; `AnsweredWhenDown`.

Page connection: `NothingOutlives` (sockets, timers and requests against the state),
`ConnectedIsStarted`, `SessionHasHeartbeat`, `SentCanBeAnswered`, `PageSpec` (implementation of
`PageLifecycle`); `AttemptsEnd`. `PageKeepsTrying`, which `PageSpec` says of steps, is proved of
states.

Enrolment: `AnswersMatch`, `FingerOnce`, `ThreeAttempts`, `FollowsRegister` (implementation of
`FingerRegister`, of which `SentIsComplete`, which is proved, is a part), each with its exceptions;
`AbsenceStands`, `CaptureIsNamed` and `CanBeFinished`, which fail.

## 6. Proofs

All theorems hold for every value of the constants that satisfies the modules' `ASSUME`s:
bounds that are positive naturals (or naturals), sets of calls that are disjoint where the
model tells them apart, any sets otherwise, finite or not.

| Theorem | Says |
|---|---|
| `TypeCorrect` | types of `Connection`, for any `Usage` |
| `LockIsOwned` | for any `Usage`: `m_stop_lock` is held by the one who waits for the event |
| `TransportIsThere`, `AssertionsHold`, `EventIsSettled`, `TeardownIsAlone`, `ReconnectIsQuiet`, `WaitsForSomeone` | the safety invariants of `one_shot` (and `SignaledIsSettled`), for `Usage = "once"` |
| `ImplementsLifecycle` | `Spec => LifecycleSpec`, for `Usage = "once"` |
| `TokenIsOwn`, `RestartBeginsClean`, `RestartRequestsHaveTransport`, `RestartIsSettled`, `RestartImplementsLifecycle` | the properties of `restart`, for any `Usage` but `free`, with any starts, stops and errors |
| `RestartAssertionsHold` | `StateAssertions`, under the same use |
| `RestartWaitsForSomeone` | `WaitIsForSomeone` as long as no reconnect attempt threw, under the same use |
| `RestartHasTransport` | `NoNullTransport`, for `Usage = "awaited"` and `Errors = {}` |
| `TransportTypeCorrect`, `LoopIsUnique`, `CanceledSocketsGo`, `ImplementsLink` | types, `OneLiveLoop`, `CanceledHasNoSocket`, `LinkSpec`, for any `Usage` |
| `SocketsAreOwn`, `MessagesAreHandled` | `LoopReadsOwnSocket`, `AllMessagesHandled`, for `Usage = "connection"` |
| `HubTypeCorrect`, `CallbacksAreKept`, `InvocationsAnswered`, `LossIsTold`, `TasksAreOnce` | types, `CallbacksArePending`, `RepliesAnswer`, `NothingPendingAfterLoss`, `TasksCompleteOnce`, for any `Usage` |
| `StopIsTold` | `NothingPendingWhenDown`, for `Usage = "quiet"` |
| `JsTypeCorrect`, `NothingIsLeft`, `ConnectedWasStarted`, `PageNeverGivesUp`, `HeartbeatIsThere`, `SentIsAnswerable`, `ImplementsPageLife` | the safety of `js_connection`, with `PageKeepsTrying` and `PageSpec`, for any bounds, with or without sleeps |
| `HeartbeatIsOne` | `HeartbeatOfSession`, if `MaySleep` is false |
| `EnrolmentTypeCorrect`, `AnswersAreMatched`, `FingersAreOnce`, `AttemptsAreThree`, `SentAreComplete`, `ImplementsRegister` | the safety of `enrolment`, with `SentIsComplete`, for any panel, minimum and order of clicks and answers |

*Connection.* `TypeOK` is not inductive: a `stop()` cancels session `cur`, so a connection that
is not disconnected must have one; `TypeInv` adds that. None of the safety invariants is
inductive either. `NoNullTransport`, say, rests on the connection staying `disconnecting` while
a stop tears it down, which rests on no other stop being in the same place, which rests on the
lock being held while it waited and on the event being unsignaled by whoever connects. `IInv`
states these dependencies as named parts: who holds the lock (`LockInv`), when the connection is
`connecting` and the event unsignaled (`StartInv`), when there is a transport (`TransportInv`),
that one stop at most tears down (`StopInv`), that a canceled session has a stop that waits
(`CancelInv`), that one `reconnect()` at most is active and the connection reconnecting while it
attempts (`RecInv`), that the loop is off until it reopens it (`LoopInv`). Each step is shown
to keep all parts, by group of actions; the theorems follow from `IInv`. For `ImplementsLifecycle`
the step that needs the invariant is the one to `reconnecting`: no stop has canceled the
session, because it would hold the lock that `reconnect()` holds.

*Any use.* Two facts need no rule for the application. `LockOwned`: between two steps the lock is
held by exactly the `stop()` or `reconnect()` that waits for the event. `FreshInv`: sessions
begin in order, and the transport of one whose `start()` has not connected it yet is off and not
the one `m_transport` names. `RestartProofs` builds on both.

*Restart.* A restarted connection needs another invariant, for stops, errors and reconnects of the
last session may be under way while the next one starts: an application that waits for its own
calls is not told when an error callback is over. `RestartInv` keeps the parts for any use and
adds: one start at most is under way, that of the last session (`OneStart`, which gives the token);
the state, the event and the transport follow from where that start is (`RestartStartInv`); who
waits has canceled the session, and while the connection is disconnecting somebody is to disconnect
it (`RestartStopInv`, `RestartCancelInv`); one reconnect at most is about the last session, those
of earlier ones have a canceled source by which the second locked section turns them away
(`RestartRecInv`); somebody is to signal an unsignaled event (`RestartEventInv`), and the destructor
came last. For the lifecycle, what the last session promises is independent of the rest.

With errors three properties of `one_shot` do not carry over, and TLC shows each failing:
`ReconnectNeverThrows` (`stale_error`), and so `WaitIsForSomeone`, for an attempt that threw never
signals; and the part of `NoNullTransport` about the abort request (`stolen_teardown`). Without
errors the latter holds: `TeardownInv` says that one `stop()` at most is past the event of a
connection that is not disconnected, for the next start awaits them all.

*Transport.* `Numbered` relates the numbering to the program counters (exactly the connects up
to `last` have begun, every source is that of one of them); with it `OneLiveLoop` is inductive,
and each step is a step of the link or a stutter. For a connection's use, `OverInv` says that
when `connect()` is called again every earlier loop is at its end, so that `m_websocket_client`
is the loop's own client whenever it is read. For `CanceledHasNoSocket` the invariant `ClientInv`
says that a connect that has begun has a client, and that a loop that is not canceled reads its
own: so the loop that a lost socket cancels is that of the lost socket, and not another one, whose
socket would stay open.

*Hub.* An invocation waits if its task has no outcome and no result is on its way. `AnswerInv`
states that those that wait have a callback, or the hub is gone and nobody waits (`Kept`); where
an invocation is while its result is on its way (`OnItsWay`); and that nothing that failed or
has not begun is answered (`AtRest`). It follows that a step never makes an invocation wait that
did not, except by registering it (`AnswerStep`, `QuietStep`). `LossInv` then says the loss has
been told before an attempt begins; `StopInv` that a `stop()` past its first step leaves nothing
waiting (`Stopping`, which is where `quiet` is needed), that whoever asked for the stop is still
there (`Asked`), and that nothing that is being sent waits while the connection is not up
(`NotUp`). A step can fail several invocations and answer none (`TaskCleared`), fail one, or
answer one; in each case those that wait are those whose task is `pending`, so that every task
takes a step of `InvocationTask` or none.

*Page connection.* The safety properties are together inductive with two additions: a heartbeat
handle that is live is of a timer that is counted (`OwnedIsCounted`), and only a started session has
the socket of a reconnect, which is not open while the state is `reconnecting`
(`ReconnectSocket`). The proof is about `stop()`: every task that stops the connection leaves
nothing of the old session and the beginning of the next (`StopLeavesNothing`), and the other
tasks change one part of the state. Types are split into flags (`Flags`), which every action
keeps for the same reason, and facts (`Facts`). For `PageSpec` two more facts are needed, that
somebody waits for a start that is not settled and that a page whose connection works has a
disconnected handler (`StartIsAwaited`): without them a session that ends would begin no other.

*Enrolment.* The types need nothing else. The rest is one invariant with two provisos: until a
capture overlapped, the capture under way is alone and is the one that `fingersToCapture` names
(`CaptureIsAlone`); until then or until a hand was given up late, the panel is sound (`Sound`).
That no finger is recorded twice rests on what can be clicked: a finger that is done is off the
panel and its hand cannot be given up (`DoneIsOffPanel`), a confirmation is still about what
it was opened for (`ConfirmStands`), and a capture is about fingers that are not done. What is sent
is complete because *save* works only after an INE icon did, and the icons show only when the
arrays together are full or the absences leave no finger over (`IneIsEarned`); with enough captured,
either means that every finger is done. The lemmas on cardinalities (`DisjointCount`, `NamedCount`)
carry the counting. With `FingerOnce` before and after a step, and arrays that only grow, each step
that does not spoil the register is one of `FingerRegister`.

Model-checked only: everything about liveness and fairness (`CallsComplete`, `FairLifecycle`,
`TransportCallsComplete`, `CanceledLoopEnds`, `AnsweredWhenDown`, `AttemptsEnd`), which the proof
system cannot reach. Every safety property of a passing run has its theorem.

## 7. Abstractions and assumptions

* Outside the repository's own code: a websocket opens or fails, delivers in order, and breaks
  at any time; `close()` closes an open socket, and one that is connecting once it is open
  (`CloseSocket`); a negotiate, start or abort request succeeds or fails.
* pplx is lazy about cancellation: a continuation with a canceled token is skipped when it comes
  to run; a task that is under way is not interrupted.
* In `Connection` an error reported by a loop whose source is canceled is dropped by `ErrCheck`,
  so loops that were disconnected report nothing there; they do in `WebsocketTransport`.
* User callbacks are represented by what they may do to the connection: wait, and call `stop()`.
* The contents of messages, tokens, URLs and log lines are left out; a token is the session it
  was received in, a message is its kind.
* In `WebsocketTransport` `LoopFails` has the loop cancel its source and close its client in one step,
  and in `HubInvocations` a reply can only come once the send has completed.
* Callback ids are unique: `m_id` is an `int`, whose coming round after 2^32 calls is not
  modelled.
* A throwing user callback is not modelled: the code catches and logs it.

* `JsConnection` is a model of `jquery.signalR-2.2.1.js`, the latest version the repository
  keeps beside the page, with its source. `IdentitumClient.html` loads `jquery.signalR-1.0.1.min.js` (line 14) and has the
  2.2.1 build commented out (line 17): what is shown here is about the page with 2.2.1.
* The hub script that `loadHub` fetches is generated by the service. To execute it again is taken
  to leave the connection and its handlers as they are.
* In `JsConnection` the page is loaded, webSockets is the only transport (a transport that fails
  exhausts them: the promise is rejected and the connection stopped), keep alive is on, and
  messages that arrive while connecting are not buffered. Handlers, callbacks and stale sockets are
  counted up to `MaxHandlers`. One ping is under way at a time. A result of an invocation that is not
  the last one sent changes nothing.
* In `Enrolment` the hub answers each kind of call in the order of the calls, or never; a call
  throws if the hub is not connected. `fingersDeactive` is always empty, so that
  `enableNextFingerOption` puts no finger back. Verification at INE is a synchronous request and so
  part of the answer that makes it.

Not modelled, and why:

* The setters and getters of `connection_impl` and the tables of hub proxies: what can go wrong in
  them is a data race inside a string, a function object or a map, which has no outcomes to
  enumerate; at the grain of the models they are single steps.
* What a user receives across reconnects beyond one socket: it depends on what the server repeats,
  which is not code of this repository.
* Request and URL formatting, I/O wrappers, logging, facades: no control of their own.
* The sample server and sample programs: demonstration endpoints.
* The other transports of `jquery.signalR` (server-sent events, forever frame, long polling), to which
  a start falls back when webSockets fails: each has a protocol of its own (plan, 1); the photograph and face steps of the enrolment
  page, which keep no state; presentation; jQuery, its plugins and the other vendored libraries,
  which make up nearly all of the lines of the repository.

## 8. Plan

1. Fallback: the other transports of `jquery.signalR` and the init handler that tries one after the
   other, as a refinement of `JsConnection`'s single transport.
2. Proofs: what else an application that is `free` gets, beyond types and lock; a rule for
   the application, weaker than `Errors = {}`, under which `NoNullTransport` holds in every session.
3. Pure operators: what `process_response` recognises (init, groups, keep-alive, messages,
   persistent and hub results), `url_builder`'s choice of endpoints and parameters.
