------------------------------- MODULE Server -------------------------------
(***************************************************************************)
(* RestApiOutV1::Server: it measures the difference between its own clock  *)
(* and that of a web server, on request of the RestApi instances tied to   *)
(* it, and calls them back when the measurement succeeds or fails.         *)
(*                                                                         *)
(* All of it runs in the thread of the Server object.  A method runs to    *)
(* its end before the next event is taken, except for the loop of          *)
(* responseReceived over waitingRestApis: each call it makes is a step of  *)
(* its own, because it runs code of the RestApi while requestMutex is      *)
(* held.                                                                   *)
(*                                                                         *)
(* A definition that begins with "Slip" is not the code but a mistake it   *)
(* could have held; with it in place of the definition that follows, one   *)
(* of the properties at the end of the module must fail.                   *)
(*                                                                         *)
(* A method that another component calls takes the network n its caller    *)
(* leaves behind, and determines net'.                                     *)
(***************************************************************************)
EXTENDS Integers, QtNetwork

CONSTANTS
  RestApis,          (* the RestApi instances tied to this server           *)
  NumberRetries,     (* Server::numberRetries                               *)
  LowestLongLong,    (* the least and the largest value of a long long,     *)
  HighestLongLong,
  TimeDeltaMax,      (* and the largest time delta parseResponse accepts    *)
  TimeDeltaAnswers,  (* what may come back from the time delta endpoint     *)
  Uninitialized      (* what retriesRemaining may hold before it is set     *)

ServerOwner == "Server"

LongLong == LowestLongLong .. HighestLongLong

Documents ==
  [object : BOOLEAN, size : Nat, status : STRING,
   isDouble : BOOLEAN, halves : Int]

ASSUME ServerAssumption ==
  /\ ServerOwner \notin RestApis
  /\ NumberRetries \in Nat
  /\ LowestLongLong \in Int /\ LowestLongLong <= 0
  /\ HighestLongLong \in Int
  /\ TimeDeltaMax \in Nat /\ TimeDeltaMax <= HighestLongLong
  /\ \A a \in TimeDeltaAnswers : a.json => a.document \in Documents
  /\ Uninitialized \subseteq Nat

VARIABLES
  net,               (* the replies and the posted events of the thread     *)
  pendingReply,      (* Server::pendingReply                                *)
  retriesRemaining,  (* Server::retriesRemaining                            *)
  waitingRestApis,   (* Server::waitingRestApis                             *)
  currentTimeDelta,  (* Server::currentTimeDelta                            *)
  flush,             (* the loop responseReceived is in: "updated",         *)
                     (* "failed", or "none".  requestMutex is held in both  *)
                     (* loops, and free between two steps otherwise.        *)
  it,                (* the iterator of that loop                           *)
  attempts,          (* history: requests posted by the current update      *)
  owed               (* history: callbacks each RestApi has registered for  *)
                     (* and not received                                    *)

serverVars == <<pendingReply, retriesRemaining, waitingRestApis,
                currentTimeDelta, flush, it, attempts, owed>>

RequestMutexFree == flush = "none"

(* The thread has left the last slot and takes the next event.             *)
InEventLoop == flush = "none"

-----------------------------------------------------------------------------
(* The answer to a time delta request                                      *)

(* A time delta is a double, written here as a number of halves; the cast  *)
(* to long long drops the fraction.                                        *)
Truncated(halves) ==
  IF halves >= 0 THEN halves \div 2 ELSE - ((- halves) \div 2)

(* Slip: the upper bound is the largest long long, which rounds up when it *)
(* is converted to a double.                                               *)
ParseResponseRounded(document) ==
  /\ document.object
  /\ document.size = 2
  /\ document.status = "OK"
  /\ document.isDouble
  /\ document.halves >= 2 * LowestLongLong
  /\ document.halves <= 2 * (HighestLongLong + 1)

ParseResponse(document) ==
  /\ document.object
  /\ document.size = 2
  /\ document.status = "OK"
  /\ document.isDouble
  /\ document.halves >= 2 * LowestLongLong
  /\ document.halves <= 2 * TimeDeltaMax

Success(answer) ==
  /\ answer.error = "NoError"
  /\ answer.json
  /\ ParseResponse(answer.document)

-----------------------------------------------------------------------------
(* The methods                                                             *)

Server ==
  /\ pendingReply = NoReply
  /\ retriesRemaining \in Uninitialized
  /\ waitingRestApis = << >>
  /\ currentTimeDelta = 0
  /\ flush = "none"
  /\ it = 0
  /\ attempts = 0
  /\ owed = [a \in RestApis |-> 0]

IssueTimeDeltaRequest(n) ==
  /\ net' = Posted(n, ServerOwner, 0)
  /\ pendingReply' = NewReply(n)

(* Slip: the caller goes to the head of the list.                          *)
WaitFirst(api) ==
  /\ waitingRestApis' = <<api>> \o waitingRestApis
  /\ owed' = [owed EXCEPT ![api] = @ + 1]

(* The caller is appended to the list of those who wait.                   *)
Wait(api) ==
  /\ waitingRestApis' = Append(waitingRestApis, api)
  /\ owed' = [owed EXCEPT ![api] = @ + 1]

(* Slip: the update that is pending is not looked for.                     *)
AlwaysStarts == TRUE

StartsUpdate == pendingReply = NoReply

(* Slip: the count of retries is not reset.                                *)
RetriesLeftOver == retriesRemaining

RetriesOfUpdate == NumberRetries

(* Server::updateTimeDelta: only the first caller starts an update, those  *)
(* who come while it is pending share it.                                  *)
UpdateTimeDelta(api, n) ==
  /\ RequestMutexFree
  /\ \/ /\ StartsUpdate
        /\ retriesRemaining' = RetriesOfUpdate
        /\ attempts' = 1
        /\ IssueTimeDeltaRequest(n)
     \/ /\ ~ StartsUpdate
        /\ net' = n
        /\ UNCHANGED <<pendingReply, retriesRemaining, attempts>>
  /\ Wait(api)
  /\ UNCHANGED <<currentTimeDelta, flush, it>>

(* Slip: a pending update is ignored.                                      *)
AlwaysAccurate == TRUE

(* What Server::checkTimestamp returns ...                                 *)
TimestampAccurate == pendingReply = NoReply

(* Slip: the caller is registered even when it need not wait.              *)
AlwaysRegisters == TRUE

MustWait == pendingReply # NoReply

(* ... and what it does.  The network is the caller's business.            *)
CheckTimestamp(api) ==
  /\ RequestMutexFree
  /\ IF MustWait THEN Wait(api) ELSE UNCHANGED <<waitingRestApis, owed>>
  /\ UNCHANGED <<pendingReply, retriesRemaining, currentTimeDelta, flush, it,
                 attempts>>

SetTimeDelta(newTimeDelta) ==
  /\ InEventLoop
  /\ currentTimeDelta' = newTimeDelta
  /\ UNCHANGED <<net, pendingReply, retriesRemaining, waitingRestApis, flush,
                 it, attempts, owed>>

-----------------------------------------------------------------------------
(* Server::responseReceived.  The slot reads the reply that pendingReply   *)
(* points to, whichever reply emitted the signal.                          *)

Answer == Read(net, pendingReply)

AfterRead == DeleteLater(Taken(net), pendingReply)

SlotRuns ==
  /\ InEventLoop
  /\ SlotReady(net, ServerOwner)

RetryTimeDelta ==
  /\ SlotRuns
  /\ ~ Success(Answer)
  /\ retriesRemaining > 0
  /\ retriesRemaining' = retriesRemaining - 1
  /\ attempts' = attempts + 1
  /\ IssueTimeDeltaRequest(AfterRead)
  /\ UNCHANGED <<waitingRestApis, currentTimeDelta, flush, it, owed>>

(* From here to EndFlush requestMutex is held.                             *)
BeginFlush(kind) ==
  /\ flush' = kind
  /\ it' = 1
  /\ net' = AfterRead
  /\ UNCHANGED <<pendingReply, retriesRemaining, waitingRestApis, attempts,
                 owed>>

TimeDeltaFailed ==
  /\ SlotRuns
  /\ ~ Success(Answer)
  /\ retriesRemaining = 0
  /\ BeginFlush("failed")
  /\ UNCHANGED currentTimeDelta

TimeDeltaReceived ==
  /\ SlotRuns
  /\ Success(Answer)
  /\ currentTimeDelta' = Truncated(Answer.document.halves)
  /\ BeginFlush("updated")

(* Slip: the loop ends before the last call.                               *)
LoopDoneEarly == it >= Len(waitingRestApis)

LoopDone == it > Len(waitingRestApis)

(* The next call of the loop, to timestampUpdated or timestampUpdateFailed *)
(* of api.  What that method does is the business of the RestApi.          *)
CallBack(api) ==
  /\ flush # "none"
  /\ ~ LoopDone
  /\ api = waitingRestApis[it]
  /\ it' = it + 1
  /\ owed' = [owed EXCEPT ![api] = @ - 1]
  /\ UNCHANGED <<pendingReply, retriesRemaining, waitingRestApis,
                 currentTimeDelta, flush, attempts>>

(* Slip: the list is not cleared.                                          *)
ListKept == waitingRestApis

ListCleared == << >>

(* The list is cleared, the reply forgotten, the mutex released.  The      *)
(* signal emitted after that changes no state of the server.               *)
EndFlush ==
  /\ flush # "none"
  /\ LoopDone
  /\ waitingRestApis' = ListCleared
  /\ pendingReply' = NoReply
  /\ flush' = "none"
  /\ it' = 0
  /\ UNCHANGED <<net, retriesRemaining, currentTimeDelta, attempts, owed>>

-----------------------------------------------------------------------------
(* The event loop and the network                                          *)

RunDeferredDelete ==
  /\ InEventLoop
  /\ DeleteReady(net)
  /\ net' = Deleted(net)
  /\ UNCHANGED serverVars

(* The HTTP thread may finish a reply at any moment.                       *)
FinishReply(owner, answers) ==
  /\ \E r \in Alive(net), a \in answers :
        /\ net.reply[r].owner = owner
        /\ CanFinish(net, r)
        /\ net' = Finished(net, r, a)
  /\ UNCHANGED serverVars

-----------------------------------------------------------------------------
(* Properties                                                              *)

(* The callbacks due to a RestApi: its places in the list that the loop    *)
(* has not reached.                                                        *)
DueTo(api) ==
  {i \in DOMAIN waitingRestApis : waitingRestApis[i] = api /\ i >= it}

(* The callbacks the Server has still to make, whether the loop that makes *)
(* them has begun or not                                                   *)
StillToCall ==
  SubSeq(waitingRestApis, IF flush = "none" THEN 1 ELSE it,
         Len(waitingRestApis))

(* The steps an update still has to take, at most, until its loop begins:  *)
(* each request is finished, and each but the last is followed by another. *)
UpdateWork ==
  2 * retriesRemaining + (IF net.reply[pendingReply].finished THEN 0 ELSE 1)

(* Until the loop begins a step takes a pending update nearer to it or     *)
(* leaves the update as it is: nobody who joins, checks the timestamp,     *)
(* sets the time delta or posts another request prolongs it.               *)
UpdateGoesOn ==
  pendingReply # NoReply /\ flush = "none" /\ flush' = "none" =>
    \/ UpdateWork' < UpdateWork
    \/ /\ UNCHANGED <<pendingReply, retriesRemaining>>
       /\ net'.reply[pendingReply] = net.reply[pendingReply]

(* Type invariant.  Its range for currentTimeDelta says that the cast in   *)
(* parseResponse is defined: a double outside long long would not be.      *)
ServerTypeOK ==
  /\ NetworkTypeOK(net)
  /\ pendingReply \in Alive(net) \cup {NoReply}
  /\ retriesRemaining \in Nat
  /\ waitingRestApis \in Seq(RestApis)
  /\ currentTimeDelta \in LongLong
  /\ flush \in {"none", "updated", "failed"}
  /\ it \in Nat
  /\ attempts \in Nat
  /\ owed \in [RestApis -> Nat]

(* A finished signal that the server has still to receive comes from the   *)
(* reply pendingReply points to: responseReceived, which never asks who    *)
(* emitted the signal, always reads the right reply, and never null.       *)
SlotReadsItsReply ==
  \A r \in Alive(net) :
    net.reply[r].owner = ServerOwner /\ Undelivered(net, r)
      => r = pendingReply /\ flush = "none"

(* Nobody waits in vain: while the list is not empty and its callbacks are *)
(* not being made, an answer is still to come that will empty it, however  *)
(* the registrations interleave with retries and the end of an update.     *)
WaitersHaveAReplyToCome ==
  waitingRestApis # << >> /\ flush = "none" =>
    /\ pendingReply # NoReply
    /\ Undelivered(net, pendingReply)

(* An update is given up after exactly NumberRetries retries, and the      *)
(* count of those left, which the constructor leaves unset and which the   *)
(* next update shares, is right at every moment of an update.              *)
AttemptsAccounted ==
  /\ pendingReply # NoReply => attempts + retriesRemaining = NumberRetries + 1
  /\ flush = "failed" => attempts = NumberRetries + 1

(* When no update is pending every registration made by updateTimeDelta or *)
(* by a checkTimestamp that returned false has had its one callback.       *)
NoCallbackOwedWhenIdle ==
  pendingReply = NoReply => \A a \in RestApis : owed[a] = 0

-----------------------------------------------------------------------------
(* The inductive invariant of which the properties above are consequences  *)

(* Outside the loops pendingReply is the one reply of the server whose     *)
(* signal is to come; in a loop there is none, and pendingReply is spent.  *)
OneReplyAtATime ==
  /\ pendingReply # NoReply => net.reply[pendingReply].owner = ServerOwner
  /\ OnlyOpen(net, ServerOwner,
              IF flush = "none" THEN pendingReply ELSE NoReply)

IdleServer ==
  pendingReply = NoReply => waitingRestApis = << >> /\ flush = "none"

IteratorInList ==
  IF flush = "none" THEN it = 0 ELSE it \in 1 .. Len(waitingRestApis) + 1

CallbacksAreDue == \A api \in RestApis : owed[api] = Cardinality(DueTo(api))

AnswersOK ==
  \A r \in Alive(net) :
    net.reply[r].owner = ServerOwner /\ net.reply[r].answer.json
      => net.reply[r].answer.document \in Documents

ServerInv ==
  /\ ServerTypeOK
  /\ NetworkOK(net)
  /\ OneReplyAtATime
  /\ IdleServer
  /\ IteratorInList
  /\ CallbacksAreDue
  /\ AnswersOK
  /\ AttemptsAccounted
=============================================================================
