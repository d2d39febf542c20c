---------------------------- MODULE RestHandlers ----------------------------
(***************************************************************************)
(* RestApiOutV1::InesonicRestHandler and InesonicBinaryRestHandler, tied   *)
(* to one Server.  A handler posts a signed message; when the web server   *)
(* refuses the signature it asks the Server for a new time delta and, when *)
(* called back, signs and posts the message once more.                     *)
(*                                                                         *)
(* The handlers, the Server and the application share one thread: post is  *)
(* called, and a slot or a callback runs, to its end.  A signal is emitted *)
(* in the last statement of a slot, so an application slot that calls post *)
(* is a call of post right after it; the exception is the signal emitted   *)
(* by timestampUpdateFailed, inside a loop of Server::responseReceived:    *)
(* what a slot tied to it does is a step between two calls of the loop.    *)
(*                                                                         *)
(* What the classes leave to their user, and document nowhere, is granted  *)
(* by name in Liberties:                                                   *)
(*   "overlap"         post before the outcome of the post before it,      *)
(*   "repostInSlot"    post in a slot tied to requestFailed, also when     *)
(*                     timestampUpdateFailed emits it,                     *)
(*   "destroyIdle"     destroy a handler whose posts have all had their    *)
(*                     outcome, or that no callback is due to,             *)
(*   "destroyWaiting"  destroy a handler at any time;                      *)
(* the last two also in such a slot, of this handler or of another.        *)
(***************************************************************************)
EXTENDS Server

CONSTANTS
  BinaryHandlers,    (* those of RestApis that are InesonicBinaryRestHandler*)
  Payloads,          (* the messages, each with the endpoint it goes to     *)
  HandlerAnswers,    (* what may come back from such an endpoint            *)
  Liberties,         (* see above                                           *)
  MaxOpen            (* bound: posts without an outcome, for each handler   *)

NoPayload == 0

ASSUME HandlersAssumption ==
  /\ BinaryHandlers \subseteq RestApis
  /\ NoPayload \notin Payloads
  /\ Liberties \subseteq {"overlap", "repostInSlot", "destroyIdle",
                          "destroyWaiting"}
  /\ MaxOpen \in Nat

VARIABLES
  handlerReply,      (* InesonicRestHandler::pendingReply                   *)
  handlerRetries,    (* InesonicRestHandler::retriesRemaining               *)
  currentPayload,    (* InesonicRestHandler::currentPayload and currentUrl  *)
  live,              (* the handlers that have not been destroyed           *)
  thread,            (* "running", "blocked" on a mutex it holds itself, or *)
                     (* "crashed" by the use of an object that is no more   *)
  open,              (* history: posts whose outcome is not reported yet    *)
  report,            (* history: the outcome reported since the last post   *)
  sent,              (* history: transmissions since the last post          *)
  fresh              (* history: a time delta was accepted since the web    *)
                     (* server last refused a message of the handler        *)

histories == <<open, report, sent, fresh>>

handlerVars == <<handlerReply, handlerRetries, currentPayload, live, thread,
                 histories>>

vars == <<net, serverVars, handlerVars>>

Init ==
  /\ net = EmptyNetwork
  /\ Server
  /\ handlerReply = [h \in RestApis |-> NoReply]
  /\ handlerRetries \in [RestApis -> Uninitialized]
  /\ currentPayload = [h \in RestApis |-> NoPayload]
  /\ live = RestApis
  /\ thread = "running"
  /\ open = [h \in RestApis |-> 0]
  /\ report = [h \in RestApis |-> "none"]
  /\ sent = [h \in RestApis |-> 0]
  /\ fresh = [h \in RestApis |-> FALSE]

-----------------------------------------------------------------------------
(* The callbacks from the Server                                           *)

(* The network without the reply h still has in its pendingReply.          *)
PendingDropped(h) ==
  IF handlerReply[h] = NoReply THEN net ELSE DeleteLater(net, handlerReply[h])

(* timestampUpdated: sign the current payload and post it.                 *)
TimestampUpdated(h, payload) ==
  /\ net' = Posted(PendingDropped(h), h, payload)
  /\ handlerReply' = [handlerReply EXCEPT ![h] = NewReply(PendingDropped(h))]

(* processJsonResponse, processResponse and processRequestFailed: a signal *)
(* with the outcome of the request.                                        *)
Report(h, outcome) ==
  /\ open' = [open EXCEPT ![h] = @ - 1]
  /\ report' = [report EXCEPT ![h] = outcome]

(* Slip: the failure is not reported.                                      *)
TimestampUpdateFailedSilently(h) ==
  /\ net' = PendingDropped(h)
  /\ handlerReply' = [handlerReply EXCEPT ![h] = NoReply]
  /\ UNCHANGED <<open, report>>

(* timestampUpdateFailed                                                   *)
TimestampUpdateFailed(h) ==
  /\ net' = PendingDropped(h)
  /\ handlerReply' = [handlerReply EXCEPT ![h] = NoReply]
  /\ Report(h, "failure")

-----------------------------------------------------------------------------
(* post                                                                    *)

(* Slip: off by one.                                                       *)
TwoRetries == 2

RetriesPerPost == 1

Post(h, payload) ==
  /\ h \in live
  /\ open[h] < MaxOpen
  /\ open[h] = 0 \/ "overlap" \in Liberties
  /\ handlerRetries' = [handlerRetries EXCEPT ![h] = RetriesPerPost]
  /\ currentPayload' = [currentPayload EXCEPT ![h] = payload]
  /\ open' = [open EXCEPT ![h] = @ + 1]
  /\ report' = [report EXCEPT ![h] = "none"]
  /\ CheckTimestamp(h)
  /\ \/ /\ TimestampAccurate
        /\ TimestampUpdated(h, payload)
        /\ sent' = [sent EXCEPT ![h] = 1]
     \/ /\ ~ TimestampAccurate
        /\ sent' = [sent EXCEPT ![h] = 0]
        /\ UNCHANGED <<net, handlerReply>>
  /\ UNCHANGED <<live, thread, fresh>>

-----------------------------------------------------------------------------
(* The slot responseReceived.  Like that of the Server it reads the reply  *)
(* that pendingReply points to, whichever reply emitted the signal.        *)

(* What a handler makes of an answer without an error: one of them parses  *)
(* it, the other hands on any bytes.                                       *)
JsonOutcome(answer) == IF answer.json THEN "response" ELSE "failure"

BinaryOutcome(answer) == "response"

Outcome(h, answer) ==
  IF answer.error # "NoError" THEN "failure"
  ELSE IF h \in BinaryHandlers THEN BinaryOutcome(answer)
                               ELSE JsonOutcome(answer)

(* Slip: the count is not looked at, and wraps.                            *)
RefusedForever(h, answer) == answer.error = "AuthenticationRequiredError"

Refused(h, answer) ==
  /\ answer.error = "AuthenticationRequiredError"
  /\ handlerRetries[h] > 0

SlotTriggered(h) == InEventLoop /\ SlotReady(net, h)

HandlerAnswer(h) == Read(net, handlerReply[h])

HandlerAfterRead(h) == DeleteLater(Taken(net), handlerReply[h])

(* Slip: the message is signed again at once.                              *)
SignsAtOnce(h) ==
  /\ net' = Posted(HandlerAfterRead(h), h, currentPayload[h])
  /\ handlerReply' =
       [handlerReply EXCEPT ![h] = NewReply(HandlerAfterRead(h))]
  /\ sent' = [sent EXCEPT ![h] = @ + 1]
  /\ UNCHANGED serverVars

AsksForTimeDelta(h) ==
  /\ UpdateTimeDelta(h, HandlerAfterRead(h))
  /\ handlerReply' = [handlerReply EXCEPT ![h] = NoReply]
  /\ UNCHANGED sent

(* The signature was refused: ask for a new time delta.                    *)
AuthenticationRefused(h) ==
  /\ SlotTriggered(h)
  /\ handlerReply[h] # NoReply
  /\ Refused(h, HandlerAnswer(h))
  /\ handlerRetries' = [handlerRetries EXCEPT ![h] = @ - 1]
  /\ AsksForTimeDelta(h)
  /\ fresh' = [fresh EXCEPT ![h] = FALSE]
  /\ UNCHANGED <<currentPayload, live, thread, open, report>>

ResponseReceived(h) ==
  /\ SlotTriggered(h)
  /\ handlerReply[h] # NoReply
  /\ ~ Refused(h, HandlerAnswer(h))
  /\ net' = HandlerAfterRead(h)
  /\ handlerReply' = [handlerReply EXCEPT ![h] = NoReply]
  /\ Report(h, Outcome(h, HandlerAnswer(h)))
  /\ UNCHANGED <<serverVars, handlerRetries, currentPayload, live, thread,
                 sent, fresh>>

(* pendingReply->error() on a null pointer.                                *)
ResponseWithoutReply(h) ==
  /\ SlotTriggered(h)
  /\ handlerReply[h] = NoReply
  /\ thread' = "crashed"
  /\ UNCHANGED <<net, serverVars, handlerReply, handlerRetries,
                 currentPayload, live, histories>>

-----------------------------------------------------------------------------
(* The loops of Server::responseReceived over the handlers                 *)

CalledBackUpdated(h) ==
  /\ h \in live
  /\ flush = "updated"
  /\ CallBack(h)
  /\ TimestampUpdated(h, currentPayload[h])
  /\ sent' = [sent EXCEPT ![h] = @ + 1]
  /\ UNCHANGED <<handlerRetries, currentPayload, live, thread, open, report,
                 fresh>>

CalledBackFailed(h) ==
  /\ h \in live
  /\ flush = "failed"
  /\ CallBack(h)
  /\ TimestampUpdateFailed(h)
  /\ UNCHANGED <<handlerRetries, currentPayload, live, thread, sent, fresh>>

(* The list still holds a handler that was destroyed.                      *)
CalledBackDead(h) ==
  /\ h \notin live
  /\ CallBack(h)
  /\ thread' = "crashed"
  /\ UNCHANGED <<net, handlerReply, handlerRetries, currentPayload, live,
                 histories>>

-----------------------------------------------------------------------------
(* What an application slot tied to requestFailed may do in the loop       *)

(* The handler that was called back last has emitted the signal.           *)
InFailureSlot == flush = "failed" /\ it > 1

(* It posts: checkTimestamp locks requestMutex, which this thread holds    *)
(* and which is not recursive.  What post has assigned by then is never    *)
(* read.                                                                   *)
PostInSlot(h) ==
  /\ "repostInSlot" \in Liberties
  /\ InFailureSlot
  /\ h \in live
  /\ thread' = "blocked"
  /\ UNCHANGED <<net, serverVars, handlerReply, handlerRetries,
                 currentPayload, live, histories>>

(* The destructor, which tells nothing to the Server                       *)
Destroy(h) ==
  /\ InEventLoop \/ InFailureSlot
  /\ h \in live
  /\ \/ "destroyWaiting" \in Liberties
     \/ "destroyIdle" \in Liberties /\ (open[h] = 0 \/ DueTo(h) = {})
  /\ live' = live \ {h}
  /\ net' = WithoutOwner(net, h)
  /\ handlerReply' = [handlerReply EXCEPT ![h] = NoReply]
  /\ open' = [open EXCEPT ![h] = 0]
  /\ UNCHANGED <<serverVars, handlerRetries, currentPayload, thread, report,
                 sent, fresh>>

-----------------------------------------------------------------------------
(* The whole                                                               *)

(* The Server's own slot                                                   *)
ServerSlot ==
  \/ /\ RetryTimeDelta \/ TimeDeltaFailed \/ EndFlush
     /\ UNCHANGED handlerVars
  \/ /\ TimeDeltaReceived
     /\ fresh' = [h \in RestApis |-> TRUE]
     /\ UNCHANGED <<handlerReply, handlerRetries, currentPayload, live,
                    thread, open, report, sent>>

HandlerSlot(h) ==
  \/ AuthenticationRefused(h)
  \/ ResponseReceived(h)
  \/ ResponseWithoutReply(h)
  \/ CalledBackUpdated(h)
  \/ CalledBackFailed(h)
  \/ CalledBackDead(h)

(* What the thread does by itself                                          *)
ThreadRuns ==
  /\ thread = "running"
  /\ \/ ServerSlot
     \/ \E h \in RestApis : HandlerSlot(h)
     \/ RunDeferredDelete /\ UNCHANGED handlerVars

ServerFinishes == FinishReply(ServerOwner, TimeDeltaAnswers)
                    /\ UNCHANGED handlerVars

HandlerFinishes(h) == FinishReply(h, HandlerAnswers) /\ UNCHANGED handlerVars

(* What the application does                                               *)
Application(h) ==
  /\ thread = "running"
  /\ \/ \E payload \in Payloads : Post(h, payload)
     \/ PostInSlot(h)
     \/ Destroy(h)

Next ==
  \/ ThreadRuns
  \/ ServerFinishes
  \/ \E h \in RestApis : HandlerFinishes(h) \/ Application(h)

(* The event loop goes on, and every request ends, at the latest by its    *)
(* transfer timeout.                                                       *)
Fairness ==
  /\ WF_vars(ThreadRuns)
  /\ WF_vars(ServerFinishes)
  /\ \A h \in RestApis : WF_vars(HandlerFinishes(h))

Spec == Init /\ [][Next]_vars /\ Fairness

-----------------------------------------------------------------------------
(* Properties of any use of the handlers                                   *)

(* Type invariant of the handlers.                                         *)
HandlersTypeOK ==
  /\ handlerReply \in [RestApis -> Alive(net) \cup {NoReply}]
  /\ handlerRetries \in [RestApis -> Nat]
  /\ currentPayload \in [RestApis -> Payloads \cup {NoPayload}]
  /\ live \subseteq RestApis
  /\ thread \in {"running", "blocked", "crashed"}
  /\ open \in [RestApis -> 0 .. MaxOpen]
  /\ report \in [RestApis -> {"none", "response", "failure"}]
  /\ sent \in [RestApis -> Nat]
  /\ fresh \in [RestApis -> BOOLEAN]

(* What may still lead h to report an outcome                              *)
Continuations(h) ==
  Cardinality(DueTo(h)) + (IF handlerReply[h] = NoReply THEN 0 ELSE 1)

(* No request is answered twice: even when posts overlap, and whatever is  *)
(* registered, refused and called back meanwhile, a handler has never more *)
(* ways to report an outcome left than posts without one.                  *)
NoOutcomeTwice == \A h \in live : Continuations(h) <= open[h]

Sync ==
  INSTANCE TimeSync WITH
    Clients <- RestApis, TimeDeltas <- LongLong, Forced <- {},
    updating <- pendingReply # NoReply, result <- flush,
    promised <- StillToCall, timeDelta <- currentTimeDelta

(* The handlers leave the Server's promise intact in any use: whatever a   *)
(* callback posts, drops or reports, and whatever handlers a slot destroys *)
(* during the loop, the updates follow one another and each makes the      *)
(* callbacks it was asked for, in order.                                   *)
UpdatesAreShared == Sync!SafeSpec

-----------------------------------------------------------------------------
(* Properties of handlers that are asked one thing at a time               *)

(* A request is neither lost nor doubled: a handler waits for exactly one  *)
(* thing while its request is open, the finished signal of a reply to its  *)
(* current message or one callback of the Server, and for none after.      *)
OneContinuation ==
  \A h \in live :
    /\ Continuations(h) = open[h]
    /\ handlerReply[h] # NoReply =>
         /\ Undelivered(net, handlerReply[h])
         /\ net.reply[handlerReply[h]].payload = currentPayload[h]

(* responseReceived of a handler, which never asks who emitted the signal, *)
(* is only triggered by the reply it reads.                                *)
HandlerSlotReadsItsReply ==
  \A r \in Alive(net), h \in live :
    net.reply[r].owner = h /\ Undelivered(net, r) => r = handlerReply[h]

(* A message is transmitted at most twice, and a time delta asked for at   *)
(* most once for it, across posts, callbacks and refusals in any order.    *)
TransmissionsAccounted ==
  \A h \in live :
    /\ sent[h] <= 2
    /\ handlerReply[h] # NoReply => sent[h] + handlerRetries[h] = 2
    /\ DueTo(h) # {}             => sent[h] + handlerRetries[h] = 1

(* No message is signed with a time delta that is being replaced, and one  *)
(* whose signature was refused is signed again only with a time delta the  *)
(* Server accepted after the refusal.                                      *)
SignedWithTheMeasuredDelta ==
  [][\A h \in RestApis :
       handlerReply'[h] \notin {NoReply, handlerReply[h]} =>
         /\ pendingReply = NoReply \/ flush = "updated"
         /\ sent'[h] = 2 => fresh'[h]]_vars

(* The thread never reads a null pendingReply, calls a handler that is no  *)
(* more, or waits for the mutex it holds, although handlers are destroyed  *)
(* as soon as their posts have had an outcome, in the slot that is told of *)
(* it and thus within the Server's loop, too.                              *)
ThreadGoesOn == thread = "running"

(* Every post is followed by a response or a failure, whatever the web     *)
(* server does and however often the other handlers post.                  *)
EveryPostHasAnOutcome ==
  \A h \in RestApis : open[h] > 0 ~> open[h] = 0

(* Where the message of h is                                               *)
Message(h) ==
  IF open[h] = 0 THEN "none"
  ELSE IF handlerReply[h] = NoReply
       THEN IF sent[h] = 0 THEN "waiting" ELSE "refused"
       ELSE IF sent[h] = 1 THEN "sent" ELSE "sent again"

Promised ==
  INSTANCE Delivery WITH
    Handlers <- RestApis,
    message <- [h \in RestApis |-> Message(h)], outcome <- report,
    users <- live

(* The handlers keep their promise: replies, the shared update, its        *)
(* retries and the list of those who wait are invisible to their users.    *)
Delivers == Promised!Spec

-----------------------------------------------------------------------------
(* The inductive invariants of which these properties are consequences     *)

(* The pendingReply of a handler is its own and not yet dropped; the       *)
(* destructor leaves none.                                                 *)
RepliesHeld ==
  \A h \in RestApis :
    IF h \in live THEN Held(net, h, handlerReply[h])
                  ELSE handlerReply[h] = NoReply

(* For any use                                                             *)
HandlersInv == ServerInv /\ HandlersTypeOK /\ RepliesHeld /\ NoOutcomeTwice

(* A callback that is due in a loop was brought about by a new time delta. *)
FreshWhenCalledBack ==
  flush = "updated" => \A h \in live : owed[h] > 0 => fresh[h]

(* For handlers that are asked one thing at a time                         *)
OneAtATimeInv ==
  /\ HandlersInv
  /\ \A h \in live :
       /\ OnlyOpen(net, h, handlerReply[h])
       /\ open[h] <= 1
       /\ handlerReply[h] # NoReply => sent[h] > 0
  /\ OneContinuation
  /\ TransmissionsAccounted
  /\ FreshWhenCalledBack

-----------------------------------------------------------------------------
(* What the headers and the README say of any use, and the code does not   *)
(* keep when the use takes a liberty                                       *)

(* jsonResponse and the binary responseReceived are emitted when a         *)
(* response to the request is received, so never for a reply that is still *)
(* on its way.                                                             *)
ResponseSignalMeansResponse ==
  [][\A h \in live \cap live' :
       open'[h] < open[h] /\ report'[h] = "response" =>
         /\ net.reply[handlerReply[h]].finished
         /\ net.reply[handlerReply[h]].answer.error = "NoError"]_vars

(* post is a slot, so it may be tied to any signal, requestFailed of a     *)
(* handler included, and returns.                                          *)
PostInSlotReturns == thread # "blocked"

(* waitingRestApis is a list of RestApi instances waiting for an update:   *)
(* those that are yet to be called back exist.                             *)
WaitingListHoldsInstances ==
  \A i \in DOMAIN waitingRestApis : i >= it => waitingRestApis[i] \in live

-----------------------------------------------------------------------------
(* For handlers that are asked one thing at a time and not destroyed while *)
(* a callback is due to them: the thread goes on, and what is still to be  *)
(* called back or answered belongs to handlers there are.                  *)
CarefulInv ==
  /\ OneAtATimeInv
  /\ ThreadGoesOn
  /\ WaitingListHoldsInstances
  /\ \A h \in RestApis \ live : OnlyOpen(net, h, NoReply)
=============================================================================
