---------------------------- MODULE ServerClients ----------------------------
(***************************************************************************)
(* A Server with clients of which nothing is known: RestApi subclasses     *)
(* that call updateTimeDelta and isTimestampAccurate whenever the thread   *)
(* is free, as often as they like, and whose callbacks do nothing.         *)
(***************************************************************************)
EXTENDS Server

CONSTANTS
  MaxWaiting,        (* bound: the length the list of waiters may grow to   *)
  ForcedTimeDeltas   (* the arguments setTimeDelta is called with           *)

ASSUME ClientsAssumption ==
  /\ MaxWaiting \in Nat
  /\ ForcedTimeDeltas \subseteq LongLong

vars == <<net, serverVars>>

Init ==
  /\ net = EmptyNetwork
  /\ Server

(* RestApi::updateTimeDelta                                                *)
ApiUpdatesTimeDelta(api) ==
  /\ Len(waitingRestApis) < MaxWaiting
  /\ UpdateTimeDelta(api, net)

(* RestApi::isTimestampAccurate                                            *)
ApiChecksTimestamp(api) ==
  /\ Len(waitingRestApis) < MaxWaiting
  /\ CheckTimestamp(api)
  /\ UNCHANGED net

(* RestApi::timestampUpdated and RestApi::timestampUpdateFailed            *)
ApiCalledBack(api) ==
  /\ CallBack(api)
  /\ UNCHANGED net

ServerFinishes == FinishReply(ServerOwner, TimeDeltaAnswers)

Next ==
  \/ \E api \in RestApis :
       \/ ApiUpdatesTimeDelta(api)
       \/ ApiChecksTimestamp(api)
       \/ ApiCalledBack(api)
  \/ \E d \in ForcedTimeDeltas : SetTimeDelta(d)
  \/ RetryTimeDelta
  \/ TimeDeltaFailed
  \/ TimeDeltaReceived
  \/ EndFlush
  \/ RunDeferredDelete
  \/ ServerFinishes

(* The event loop runs what is queued, the thread goes on, and every       *)
(* request ends, at the latest by its transfer timeout.  Nothing is        *)
(* assumed of the clients.                                                 *)
Fairness ==
  /\ WF_vars(RetryTimeDelta)
  /\ WF_vars(TimeDeltaFailed)
  /\ WF_vars(TimeDeltaReceived)
  /\ WF_vars(\E api \in RestApis : ApiCalledBack(api))
  /\ WF_vars(EndFlush)
  /\ WF_vars(RunDeferredDelete)
  /\ WF_vars(ServerFinishes)

Spec == Init /\ [][Next]_vars /\ Fairness

-----------------------------------------------------------------------------

(* Every RestApi that is owed a callback receives all it is owed, even if  *)
(* others, or itself, keep registering while the update is retried.        *)
EveryWaiterCalledBack ==
  \A api \in RestApis : owed[api] > 0 ~> owed[api] = 0

(* Whatever the clients do, an update is never prolonged: it has taken     *)
(* 2 * NumberRetries + 2 steps of its own when its loop begins.            *)
UpdateDrawsNearer == [][UpdateGoesOn]_vars

Promise ==
  INSTANCE TimeSync WITH
    Clients <- RestApis, TimeDeltas <- LongLong, Forced <- ForcedTimeDeltas,
    updating <- pendingReply # NoReply, result <- flush,
    promised <- StillToCall, timeDelta <- currentTimeDelta

(* The Server keeps its promise: retries, late registrations and replies   *)
(* that are dropped and deleted later are invisible to its clients, and no *)
(* update goes on forever.                                                 *)
PromiseKept == Promise!Spec
=============================================================================
