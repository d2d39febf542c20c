# Verification of inerest_api_out_v1

TLA+ modules, TLC configurations and TLAPS proofs for the outbound REST API library
`inerest_api_out_v1`. Paths and line numbers are those of the repository (`src/`).

## 1. The system

The library posts signed messages to a web server. A message is signed with an HMAC over the
message, keyed by a secret and by the current time in units of 30 s; so client and web server
must agree on the time. When they do not, the web server answers 401 and the client measures
the difference of the clocks (the *time delta*) with a request of its own before it tries
once more.

| Component | State | Operations |
| --- | --- | --- |
| `Server` (`source/rest_api_out_v1_server.cpp`) | `pendingReply`, `retriesRemaining`, `waitingRestApis`, `currentTimeDelta`, `requestMutex`; URL, slug, user agent, default secret | `updateTimeDelta`, `checkTimestamp`, `setTimeDelta`, the slot `responseReceived`, `parseResponse`, `post`, the setters |
| `Server::RestApi` (same file) | the pointer to its server | `isTimestampAccurate`, `updateTimeDelta`; the callbacks `timestampUpdated`, `timestampUpdateFailed` |
| `InesonicRestHandler` (`..._inesonic_rest_handler.cpp`) | `pendingReply`, `retriesRemaining`, `currentPayload`, `currentUrl` | `post` (three overloads), the slot `responseReceived`, both callbacks, the destructor |
| `InesonicBinaryRestHandler` (`..._inesonic_binary_rest_handler.cpp`) | the same | the same, with one overload of `post` |
| `InesonicRestHandlerBase` (`..._inesonic_rest_handler_base.cpp`) | `currentSecret` | `setSecret`, `calculateHash` |
| `WebHook` (`source/rest_api_out_v1.cpp`) | one `pendingReply` for two kinds of request, two timers, `remainingRetries`, static time delta | `send`, `forceTimeDeltaAdjustment`, two slots. The former class: no build file names it and its header is not in the repository |
| macros, `CMakeLists.txt`, `.pro` | none | none |

**How they interact.** A handler is a `RestApi`. `post` asks `checkTimestamp` whether an update
of the time delta is on its way; if it is, the handler has been put on `waitingRestApis` and is
called back, otherwise `post` signs and transmits at once. The finished signal of the reply
runs the handler's `responseReceived`, which emits the outcome or, on 401 and if it has a retry
left, calls `Server::updateTimeDelta`. That starts an update, or joins the one that is pending.
The finished signal of the time delta request runs `Server::responseReceived`, which retries, or
holds `requestMutex` while it calls `timestampUpdated` or `timestampUpdateFailed` of everybody on
the list, in order. The former makes a handler sign and transmit again, the latter makes it emit
`requestFailed`. All these objects live in one thread with one event queue; the replies are
finished by Qt's HTTP thread and deleted by deferred deletes in that queue. Other threads may call
`checkTimestamp`, which is what `requestMutex` can be for.

The URL of a message is put together when it is posted; its hash is made when it is transmitted, from
the handler's secret or else the Server's default secret, from the clock, and from the time delta the
Server holds then. Host, slug and secrets may be set at any moment between.

**What is hard in it.** Neither slot asks who emitted the signal: both read the member
`pendingReply`. Replies that were dropped live on until their deferred delete runs. Several
handlers share one update, one list, one count of retries. Callbacks into the handlers, and from
there into the application, are made with a mutex held. The callers that wait may be destroyed.
`PROJECT.json` lists these hazards with their lines and with the properties that cover them.

**What makes each component correct.**

* `Server`: the slot reads the reply that finished; whoever registered is called back exactly
  once, also when it registers while the update is retried; an update ends, after exactly
  `numberRetries` retries if it fails; only accepted answers change the time delta, and the cast
  of the answer is defined.
* handlers: for every post one outcome, neither none nor two; at most two transmissions; never a
  signature with a time delta that is being replaced; the slot reads the right reply.
* `InesonicRestHandlerBase`: the window of 30 s a refused message is signed for the second time is that
  of the web server it goes to; every hash is keyed by a secret.
* `WebHook`: each slot reads the reply of its own request; each `send` has one outcome.

## 2. The modules

| Module | What it is |
| --- | --- |
| `QtNetwork` | The replies and the event queue, as the library uses them: `post`, `deleteLater`, the finished signal, what a slot reads. Pure operators from one network to the next, so that "drop one reply, post another" is their composition. External to the repository |
| `Server` | The component: every method of the time delta protocol, as operators that other modules call with the network their caller leaves; the properties of the Server and their inductive invariant |
| `TimeSync` | What the Server promises its clients, without a network, retries or replies |
| `ServerClients` | A `Server` and clients of which nothing is known (default callbacks of `RestApi`), with the refinement of `TimeSync` |
| `ServerThreads` | `checkTimestamp` in other threads against `responseReceived`, statement by statement where it makes a difference, with `requestMutex`; refines `TimeSync` too |
| `RestHandlers` | A `Server` and any number of JSON and binary handlers; in any use the Server still refines `TimeSync` |
| `Delivery` | What a handler promises its user for each message, without Server, replies or lists; refined by `RestHandlers` |
| `HashWindow` | The arithmetic of `calculateHash`, with unsigned numbers of a given width |
| `SignedHandlers` | `RestHandlers` with hosts, slugs, secrets, clocks and what each message is signed with: `InesonicRestHandlerBase` and the setters of the Server |
| `WebHook` | The former class `Wh::WebHook`, on its own |
| `MCServerClients`, `MCRestHandlers`, `MCSignedHandlers`, `MCWebHook` | Values of the constants for TLC |
| `QtNetworkProofs`, `ServerLemmas` | Lemmas about the network and about each method of the Server, for whoever calls it |
| `ServerProofs`, `ThreadsProofs`, `HandlersProofs`, `OneAtATimeProofs`, `SigningProofs`, `WebHookProofs` | The theorems |

### From the code to the actions

* **One step is one method, run to its end** (one thread, one event loop): `UpdateTimeDelta` is
  `Server::updateTimeDelta` with the request it issues; `Post` is `post`, `isTimestampAccurate` and
  `timestampUpdated` together; `AuthenticationRefused` is `responseReceived` with the call of
  `updateTimeDelta` in it.
* **The exception is the loop over `waitingRestApis`** in `Server::responseReceived`. It is split into
  `TimeDeltaFailed` or `TimeDeltaReceived` (all before the loop), one `CallBack` for each turn, and
  `EndFlush` (all after it), because each turn runs foreign code while `requestMutex` is held.
  `flush` tells which loop the thread is in, and is also the state of the mutex between steps.
* **The slot of the Server** is `RetryTimeDelta`, `TimeDeltaFailed` or `TimeDeltaReceived`, all enabled by
  the finished event of *any* of the Server's replies and all reading `pendingReply`, as the code does.
  That the two are the same reply is a property (`SlotReadsItsReply`), not an assumption. The same
  holds for the handlers (`HandlerSlotReadsItsReply`).
* **A reply** is an address that is reused after the deferred delete. `NoReply` is the null pointer; to
  follow it is `ResponseWithoutReply`, which ends in the thread state "crashed".
* **What a slot reads from a reply that is not the sender** (`QtNetwork!Read`) is no error and no bytes: a
  reply takes in its answer in the step that emits its signal.
* **Answers.** A time delta document is a record of what `parseResponse` looks at (is it an object, its
  size, its status, is the time delta a double, and the double). Doubles are counted in halves, so
  that the truncation by the cast is visible. For a handler an answer is its error and whether it
  parses as JSON.
* **Signing** (`SignedHandlers`) is a layer on the steps of `RestHandlers`: `HandlersStep` is any of them, and says what it
  reads and signs. A step in which `post` is called takes over the host (`currentUrl`); one that posts a
  request of a handler signs it (`CalculateHash`), with the clock at any of `Times`; one that posts a
  request of the Server remembers the URL it was sent to (`measuring`). An answer to that request is the
  clock offset of the host asked (`MeasuredRight`), or an error, or refused. `signed` records the host, the key and
  by how many windows the hash is off the clock of its host.
* **Threads** (`ServerThreads`). A method of another thread is cut at lock, read, append; `responseReceived` at the
  points where it writes what another thread reads and where it locks and unlocks. `updateTimeDelta`
  stays in the Server's thread, since it posts a request and a `QNetworkAccessManager` may not be used
  from another. The network is reduced to the address in `pendingReply`, of which two suffice to tell a
  retry from the request before it.
* **`WebHook`** uses the same network: the owner of a reply is the slot its signal is tied to. A timer is a flag; its
  expiry is `ResendTimeout` or `TimeDeltaTimeout`, in any order with the queued events. An outcome is reported by
  a signal *before* the slot is done; `Report` has the application slot call `send` or `forceTimeDeltaAdjustment` there
  (`CallsInSlots`) and then the rest of the slot run. `MaximumNumberRetries` is 3 in the runs: the value is in the missing header, and
  3 is the least for which two refusals are followed by a time delta and the third is not.
* **Histories.** `attempts`, `owed`, `open`, `report`, `sent`, `fresh`, `measuring`, `signed`, `announced`, and in `WebHook` `job`, `sent`, `asked`, `outcomes`, are not in the code: no guard of
  the protocol reads them, except that `open` bounds the posts (`MaxOpen`) and tells overlapping posts
  apart, that it tells `SetSchemeAndHost` whether a post is open, and that `job` says when `WebHook` is free to be called. Properties compare them with the code's own variables.
  `fresh` of a handler is set when the Server accepts a time delta and reset when the handler is refused; `outcomes`
  tells one outcome of `WebHook` from the next, so that one job is not taken for the other when a slot asks for it.
* **Liberties.** The classes do not say what their user must not do, so `RestHandlers` grants what could be
  in dispute by name: `overlap`, `repostInSlot`, `destroyIdle` (destroyed when nothing is open or no callback is due),
  `destroyWaiting` (destroyed at any time). A run without a
  liberty shows what holds for the careful user, one with it what is left.
* **What an application slot does in the loop** is a step of its own, at `InFailureSlot`: after a `CallBack` of the "failed" loop,
  because `timestampUpdateFailed` emits `requestFailed` and nothing of the turn is left to run after that. `PostInSlot` ends
  with the thread "blocked" at `requestMutex`; `Destroy` may take the handler that has just reported, or any other, on the list or not.
  The "updated" loop emits no signal, so nothing can be destroyed in it. Outside of the loop a slot that
  posts or destroys is `Post` or `Destroy` right after the slot of the handler that reported.
* **Slips.** A definition whose comment begins with "Slip" is a mistake the code could have held. It is
  used by nothing; put in place of the definition that follows it, it makes a property fail
  (`mutants` in `PROJECT.json` names which). They show that the properties have teeth.

## 3. The runs

The Server by itself (`server`): two RestApi instances, up to 3 registrations, 2 retries as in
the code, a long long of 3 bits (-4..3) with the accepted maximum at 2, and 13 answers: at each end of
the accepted range the last value inside and the first outside, a negative fraction, each way a
document can have the wrong shape, no JSON, two network errors. `setTimeDelta` is called at any time.
Three registrations let one instance register twice and another in between. `retriesRemaining` starts
as 0 or 5, because the constructors leave it unset.

| Run | Shows |
| --- | --- |
| `server` | `ServerTypeOK` (the cast is in range), `SlotReadsItsReply`, `WaitersHaveAReplyToCome`, `AttemptsAccounted`, `NoCallbackOwedWhenIdle`, `UpdateDrawsNearer` (nobody prolongs an update), `EveryWaiterCalledBack` (also for one that keeps registering), `PromiseKept` (the Server implements `TimeSync`, liveness included) |
| `handlers` | a JSON and a binary handler, one post at a time each, destroyed when they wait for nothing (`destroyIdle`), in the event loop or in a slot within the loop of the Server: `OneContinuation` (no request lost or doubled), `HandlerSlotReadsItsReply`, `TransmissionsAccounted`, `SignedWithTheMeasuredDelta` (the second signature of a message uses a time delta accepted after the refusal of the first), `HandlersTypeOK`, `ThreadGoesOn` (neither the list nor a signal left in the queue leads to a handler that is gone), `ResponseSignalMeansResponse`, `EveryPostHasAnOutcome`, `Delivers` (the handlers implement `Delivery`, liveness included) |
| `handlers_any_use` | one handler with every liberty: up to 3 posts open at once, slots that post again, destroyed at any time and in slots within the loop, all answers: `NoOutcomeTwice`, the inductive `HandlersInv`, and `UpdatesAreShared` (whatever the callbacks do, the Server implements the safety part of `TimeSync`) |
| `signed_quiet` | two handlers, two hosts, the host set when no post is open: `RetryIsInTime` (after one refusal a message is signed for the right window, whoever measured the time delta) |
| `signed_switched` | one handler, everything set at any time: `OneDestination` (both transmissions of a message go to one host), `HashesAreKeyed` (the Server has a default secret from the beginning, the handler may have none) |
| `threads_promise` | two other threads: the inductive `ThreadsInv`, `ListStableInLoop`, `PromiseKeptToThreads` (whoever is told to wait is called back, though `pendingReply` changes without the mutex) |
| `webhook` | the former class, whose signals may find a slot that sends the next message or asks for a time delta: `OneThingPending` (the two kinds of request and the two timers never run side by side), `TransmissionsBounded`, `ForcedAdjustmentSendsNothing`, `WebHookTypeOK`, `EverySendHasAnOutcome` |
| `stale_response`, `repost_in_slot`, `destroyed_waiter`, `missing_secret`, `threads_race` | what the headers and README promise and the code does not keep: see section 4 |

**Bounds.** `MaxWaiting` and `MaxOpen` bound registrations and open posts by guards of the client's
actions; nothing else is bounded: the replies that exist and the queue are finite because each dropped
reply is deleted. `NumberRetries` is 2, as in the code, in `server`, `handlers`
and `handlers_any_use`, and 1 in the runs that look for one step (a retry and the failure after it). Two
handlers suffice for one to start an update and the other to join it, with each of them first; one
handler suffices where a handler only disturbs itself. `handlers_any_use` keeps to one, since two with
overlapping posts have millions of states: what destroyed and overlapping handlers do to others is
proved (`HandlersInvariance`, `ServerKeepsItsPromiseToHandlers`, `OneAtATimeInvariance`), for any number. One message for each handler is enough in
`handlers`: no guard looks at it; that the right one is sent is part of `OneContinuation`, which is proved for any `Payloads`.

In the signing runs a long long has 8 bits, `Times` are the last second of a window and the first of the next, and
the clocks of the hosts are 45.5 s ahead and 30.5 s behind: negative and positive, with a fraction that
the cast drops, and more than two windows apart, so that a delta of the wrong host, a stale one or one of the wrong sign
is off by two windows. `NumberRetries` is 0 in `signed_quiet` (which time delta is used does not depend on the
retries before it; `RetriesAreInTime` is proved for any number) and 1 in `signed_switched`. In `threads_promise` the list
may grow to 4: both threads, the Server's own, and one that registers twice.

**Deadlock** is checked where the system may not stop; in the runs with liberties it may, since the thread
crashes or blocks, and a handler that is gone posts nothing. That is also why `handlers` does not check it: the last
handler may be destroyed. The thread itself is watched by `ThreadGoesOn` there, and what must still happen by
`EveryPostHasAnOutcome` and `Delivers`, whose promise is to those who live.

**Fairness.** Weak fairness on what the event loop runs (the thread goes on, and takes the events that
are queued) and on the end of each request: `issueTimeDeltaRequest` and both `timestampUpdated` set a
transfer timeout, so that a reply finishes, with an answer or an error, even if the web server says
nothing. Nothing is assumed of the application, and nothing of what the web server answers. In `ServerThreads` each
thread that holds the mutex goes on, and the Server's thread gets the mutex in the end if it is free again and
again (`SF_vars(LockForLoop)`): without that, threads that never stop checking could keep it from the loop, which
a `QMutex` does not exclude in theory but does in practice. `SigningSpec` states no fairness; only safety is checked of it.

## 4. Where code and documentation part

1. `stale_response`: post again while the finished signal of the first request is queued; the slot, run by
   the old signal, reads the new reply and reports an empty response for it
   (`..._binary_rest_handler.cpp:84`; the header promises a signal "when a response to the request is
   received"). The JSON handler reports "Response not JSON format" in the same place. If the new reply's
   signal is queued as well, it then finds `pendingReply` null (`..._rest_handler.cpp:94`): the step
   `ResponseWithoutReply`, which `handlers_any_use` takes.
2. `repost_in_slot`: a slot tied to `requestFailed` that posts again, when the failure is that of a time delta
   update: `checkTimestamp` locks `requestMutex`, which this thread holds
   (`rest_api_out_v1_server.cpp:284-297`).
3. `destroyed_waiter`: the destructor of a handler does not take it off `waitingRestApis`
   (`..._rest_handler.cpp:69`), and the next loop calls it.
4. `missing_secret`: a handler and a Server may both be built without a secret; `calculateHash` then writes the window
   at a fixed index of an empty array (`..._rest_handler_base.cpp:97-99`), and the hash it returns is keyed by no secret.
5. `threads_race`: a retry writes `pendingReply` and `retriesRemaining` without `requestMutex`
   (`rest_api_out_v1_server.cpp:281-282`) while `checkTimestamp` in another thread, which holds it, reads
   `pendingReply`. `threads_promise` shows that no callback is lost by it, whichever of the two values is read.

## 5. The proofs

TLC shows the properties for the instances above; the theorems hold for every set of RestApi instances,
handlers and threads, every number of retries, every width of the integers, every set of answers and every
bound. They assume what the modules assume of their constants (`ServerAssumption`, `ClientsAssumption`,
`HandlersAssumption`, `ThreadsAssumption`, `SignedHandlersAssumption`, `HashWindowAssumption`, `WebHookAssumption`) and,
where it is stated in the theorem, that liberties are not taken or that the Server has a default secret.

**The network.** `QtNetworkProofs` says of each operator on a network that it keeps `NetworkOK` (no event twice, none
for a reply that is gone, no signal behind a delete) and what it does to the replies and the queue.
Its second half turns that into what an owner needs: `OnlyOpen(n, owner, p)`, of all replies of this owner only
`p` has its signal to come, and every other is queued for deletion; and `Kept(n, m, owner)`, an operation of one
owner leaves the replies of another as they are. `WithoutOwner` filters the queue with a recursive function; induction over
data is out of the prover's reach, so the lemma takes the least index at which the filtered queue would be wrong.

**The Server.** None of its properties is inductive by itself. What is missing is where replies stand
(`OneReplyAtATime`, `NetworkOK`) and that what is owed is what the loop has still to reach (`IdleServer`,
`IteratorInList`, `CallbacksAreDue`): together `ServerInv`. `ServerLemmas` proves it method by method for callers that
only keep the Server's own replies, so that it serves both kinds of client.
* `ServerProofs!ServerInvariance`, and from it `TypeCorrectness`, `SlotReadsItsReplyAlways`, `NobodyWaitsInVain`,
  `RetriesAreCounted`, `AllCalledBackWhenIdle`: one for each invariant of `server`.
* `ServerProofs!UpdatesAreNotProlonged`: `UpdateWork` counts the steps a pending update still has to take, and a step
  of anybody lowers it or leaves the update alone. It is the part of `EveryWaiterCalledBack` that needs no fairness;
  that the steps are taken at all is left to TLC.
* `ServerProofs!ServerImplementsTimeSync`: `Spec => Promise!SafeSpec`, under `ServerInv`. The mapping takes the callbacks
  promised to be the list from the iterator on.

**The Server and other threads** (`ThreadsProofs`). `ThreadsInv` says who holds `requestMutex` at each point where a thread may be
(`MutexHeld`), that what a thread read in `pendingReply` still holds when it acts on it, although the retry
writes it without the mutex (`UpdateToCome`: outside of the mutex it only changes from one reply to another),
where the loop is (`LoopInList`), and that a time delta is announced before anybody is called (`Announced`).
* `ThreadsInvariance`: `Spec => []ThreadsInv`. `LoopsAreUndisturbed`: nobody changes the list under the loop.
* `ThreadsImplementTimeSync`: `Spec => Promise!SafeSpec`. Locking, reading and retrying are stutters; registering is
  `Join`, and it is `UpdateToCome` that makes it one: there is an update to share. Taking the mutex is
  `Succeed` or `Fail`, so that a time delta written earlier counts from then on.

**The handlers, whatever their use** (`HandlersProofs`): `HandlersInv` is `ServerInv`, the type invariant, `RepliesHeld` (the
reply a handler holds is its own and not dropped) and `NoOutcomeTwice`. With overlapping posts a handler may have several
open replies, so no more can be said of them. Theorems: `HandlersInvariance`, `HandlersTypeCorrectness`, `OutcomesAreNotDoubled`, and
* `HandlersLeaveTheServerIntact`: the four invariants of `server` hold with handlers as the clients;
* `ServerKeepsItsPromiseToHandlers`: `Spec => UpdatesAreShared`, the refinement of `TimeSync` with handlers that drop replies and
  report in the callbacks, with slots that destroy or post there, and with callbacks of handlers that are gone. `ServerSteps` reduces the steps of the whole to those of the Server, and the lemmas
  about what each of its methods does to the calls still owed (`WaitAddsCall`, `CallBackCallsNext`, ... in `ServerLemmas`) serve
  both this proof and that of `ServerImplementsTimeSync`;
* `HandlersProlongNoUpdate`: what `UpdatesAreNotProlonged` says of abstract clients holds of handlers in any use;
* `NobodyDeadWaits`: `destroyed_waiter` needs a handler destroyed while it waits; without that liberty, and with all
  others, whoever is still to be called is there. A handler that has been called may be destroyed within the loop, though its
  place on the list is only cleared afterwards: `IteratorInList` of `ServerInv` keeps the loop from going back to it.

**The handlers, asked one thing at a time** (`OneAtATimeProofs`, assuming `"overlap" \notin Liberties`): `OneAtATimeInv` adds that the
reply held is the only open one, that a handler waits for exactly one thing, that its retries and transmissions
add up, and that who is about to be called back in an "updated" loop has a time delta accepted after its refusal. Theorems:
`OneAtATimeInvariance`, `RequestsAreNeitherLostNorDoubled`, `HandlersReadTheRightReply`, `MessagesAreSentAtMostTwice`, `SignedAfresh`, and
* `HandlersImplementDelivery`: `Spec => Promised!SafeSpec`, also with handlers destroyed at any time: `Delivery` keeps the set of
  its users, `Destroy` takes one away together with what was open for it, and the promise is to those who live;
* `ResponsesAreReceived`: without overlapping posts, the promise that `stale_response` refutes holds;
* `CarefulUseNeverStops`: with no liberty but to destroy idle handlers, within the loop too, the thread never follows a null or dangling pointer
  and never blocks on its own mutex. `CarefulInv` adds to `OneAtATimeInv` that the list holds handlers there are and that
  those destroyed have no signal to come.

So each of the runs that end in a violation for want of care has a theorem that says what care is enough.

**What they sign** (`SigningProofs`). `SuffixIsTheWindow`: the detour over unsigned numbers does no harm, for negative
time deltas too, unless the time of the web server is before the epoch; `SuffixWrapsBeforeTheEpoch` says what happens then.
`MeasuredIsInTime` adds the fraction that is cut off. `BothGoToOneHost` holds in any use, and so does `DefaultSecretKeysHashes`: a default
secret given to the Server when it is built is enough for every hash to have a key. `RetriesAreInTime`
follows from `SigningInv`: while no post is open the host may change, so every open message goes to the host that is
set; a time delta request that is pending when a message has been transmitted was asked of that host; hence the
delta its handler is called back with is right for it. Without the second part the invariant is not inductive: an
update started for one handler is joined by another.

**`WebHook`** (`WebHookProofs`). `WebHookInv` says which of four things is in progress (a message, a time delta request, one of the two
timers) and `RetriesPay` bounds what may still follow by the retries left: a retry pays for a time delta
and a transmission, the last one for one of them only. That makes the bounds of `TransmissionsBounded`
inductive. Theorems: `WebHookInvariance`, `WebHookTypeCorrectness`, `OneRequestAtATime`, `MessagesArePaidFor`, `ForcedAdjustmentsSendNothing`.

**Only model-checked:** liveness (`EveryWaiterCalledBack`, `EveryPostHasAnOutcome`, `EverySendHasAnOutcome`, and the fairness parts of
`PromiseKept`, `Delivers` and `PromiseKeptToThreads`), which is out of the prover's reach. Every invariant, every action property and the
safety of every refinement that a run checks is proved. `WaitingListHoldsInstances` is proved (without `destroyWaiting`) and no passing run checks it by itself:
`ThreadGoesOn` in `handlers` fails as soon as a list that does not hold is gone through. The inductive invariants are themselves checked by TLC where the property they
explain is: `HandlersInv` in `handlers_any_use`, `ThreadsInv` in `threads_promise`. `OneAtATimeInv` is `HandlersInv`, the invariants of
`handlers` and two more conjuncts.

## 6. Not modelled

* The user agent, headers and redirect policy: passed on, never looked at. Getters change nothing.
* The digest itself: keys and windows are compared instead. Scrubbing of secrets.
* The time a time delta answer is on its way: a host is taken to measure its offset exactly. The 30 s windows
  allow for what the code does not measure.
* `setSchemeAndHost` between the refusal of a message and its second transmission: modelled (`signed_switched`), but `RetryIsInTime` is not
  claimed for it. One time delta is kept for all hosts, and nothing says when the host may be set.
* A Server destroyed before its handlers: every one of their methods would follow a dangling pointer.
* Subclasses that override `process*`: they may do what an application slot does.
* `WebHook` called while it is busy, or from a slot tied to `timeDeltaUpdated`, its setters and its hash: its header, which would say what is
  allowed, is not in the repository. One case is reachable in `webhook` and worth knowing: a message
  sent in a slot of the signals of the one before it loses its URL when that slot goes on
  (`rest_api_out_v1.cpp:194`, `:172`, `:209`); if its hash is then refused it is neither sent again nor reported (`job = "lost"`).
* Build files and macros: no state.

## 7. What could follow

1. A measure for the rest of the event loop, as `UpdateWork` is for an update: what is left of a post, and of what
   `WebHook` was asked for.
2. An abstract specification of `WebHook`, as `Delivery` is of the handlers, and the proof that it is implemented.
3. `WebHook` with calls while it is busy, should its header be found: which of the two requests each slot reads.
