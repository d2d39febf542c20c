---------------------------- MODULE ServerProofs ----------------------------
(***************************************************************************)
(* Proofs about a Server with arbitrary clients: ServerInv is an inductive *)
(* invariant, and the type invariant and the safety properties that the    *)
(* runs check on small instances follow from it for every value of the     *)
(* constants.  The Server implements TimeSync: its initial states are      *)
(* initial states of TimeSync and each of its steps is, seen through the   *)
(* mapping of ServerClients, a step of TimeSync or none.                   *)
(***************************************************************************)
EXTENDS ServerClients, ServerLemmas

(* The clients leave the network alone.                                    *)
LEMMA ClientsKeepNetwork ==
  ASSUME ServerInv
  PROVE  NetworkOK(net) /\ Kept(net, net, ServerOwner)
BY KeptByAll DEF ServerInv

(* ServerInv holds in every state, whatever the clients and the web server *)
(* do.                                                                     *)
THEOREM ServerInvariance == Spec => []ServerInv
<1>1. Init => ServerInv
  BY ServerEstablishesInv DEF Init
<1>2. ServerInv /\ [Next]_vars => ServerInv'
  <2> SUFFICES ASSUME ServerInv, [Next]_vars PROVE ServerInv'
    OBVIOUS
  <2>1. NetworkOK(net) /\ Kept(net, net, ServerOwner)
    BY ClientsKeepNetwork
  <2>2. CASE \E api \in RestApis : ApiUpdatesTimeDelta(api)
    BY <2>1, <2>2, UpdateTimeDeltaKeepsInv DEF ApiUpdatesTimeDelta
  <2>3. CASE \E api \in RestApis : ApiChecksTimestamp(api)
    BY <2>1, <2>3, CheckTimestampKeepsInv DEF ApiChecksTimestamp
  <2>4. CASE \E api \in RestApis : ApiCalledBack(api)
    BY <2>1, <2>4, CallBackKeepsInv DEF ApiCalledBack
  <2>5. CASE \E d \in ForcedTimeDeltas : SetTimeDelta(d)
    BY <2>5, ClientsAssumption, SetTimeDeltaKeepsInv DEF ClientsAssumption
  <2>6. CASE RetryTimeDelta
    BY <2>6, RetryKeepsInv
  <2>7. CASE TimeDeltaFailed
    BY <2>7, FailedKeepsInv
  <2>8. CASE TimeDeltaReceived
    BY <2>8, ReceivedKeepsInv
  <2>9. CASE EndFlush
    BY <2>9, EndFlushKeepsInv
  <2>10. CASE RunDeferredDelete
    BY <2>10, DeferredDeleteKeepsInv
  <2>11. CASE ServerFinishes
    BY <2>11, FinishKeepsInv DEF ServerFinishes
  <2>12. CASE UNCHANGED vars
    BY <2>1, <2>12, OthersKeepInv DEF vars
  <2> QED
    BY <2>2, <2>3, <2>4, <2>5, <2>6, <2>7, <2>8, <2>9, <2>10, <2>11, <2>12
       DEF Next
<1> QED
  BY <1>1, <1>2, PTL DEF Spec

(* The type invariant: in particular the cast of the time delta is always  *)
(* defined, and pendingReply never dangles.                                *)
THEOREM TypeCorrectness == Spec => []ServerTypeOK
<1>1. ServerInv => ServerTypeOK
  BY DEF ServerInv
<1> QED
  BY <1>1, ServerInvariance, PTL

(* responseReceived of the Server reads the reply that called it.          *)
THEOREM SlotReadsItsReplyAlways == Spec => []SlotReadsItsReply
<1>1. ServerInv => SlotReadsItsReply
  BY ServerInvSlot
<1> QED
  BY <1>1, ServerInvariance, PTL

(* Who waits has an answer to wait for.                                    *)
THEOREM NobodyWaitsInVain == Spec => []WaitersHaveAReplyToCome
<1>1. ServerInv => WaitersHaveAReplyToCome
  BY ServerInvWaiters
<1> QED
  BY <1>1, ServerInvariance, PTL

(* An update is given up after NumberRetries retries, no earlier and no    *)
(* later.                                                                  *)
THEOREM RetriesAreCounted == Spec => []AttemptsAccounted
<1>1. ServerInv => AttemptsAccounted
  BY DEF ServerInv
<1> QED
  BY <1>1, ServerInvariance, PTL

(* Once no update is pending every registration has had its callback.      *)
THEOREM AllCalledBackWhenIdle == Spec => []NoCallbackOwedWhenIdle
<1>1. ServerInv => NoCallbackOwedWhenIdle
  BY ServerInvOwed
<1> QED
  BY <1>1, ServerInvariance, PTL

(* No update is prolonged, whatever the clients do: what there is to prove *)
(* of its end without fairness.                                            *)
THEOREM UpdatesAreNotProlonged == Spec => UpdateDrawsNearer
<1>1. ServerInv /\ [Next]_vars => [UpdateGoesOn]_vars
  <2> SUFFICES ASSUME ServerInv, Next PROVE UpdateGoesOn
    OBVIOUS
  <2>1. CASE \E api \in RestApis : ApiUpdatesTimeDelta(api)
    BY <2>1, ClientsKeepNetwork, UpdateTimeDeltaGoesOn
       DEF ApiUpdatesTimeDelta
  <2>2. CASE \E api \in RestApis : ApiChecksTimestamp(api)
    BY <2>2, ClientsKeepNetwork, KeptGoesOn
       DEF ApiChecksTimestamp, CheckTimestamp
  <2>3. CASE \E d \in ForcedTimeDeltas : SetTimeDelta(d)
    BY <2>3, ClientsKeepNetwork, KeptGoesOn DEF SetTimeDelta
  <2>4. CASE \/ \E api \in RestApis : ApiCalledBack(api)
             \/ TimeDeltaFailed \/ TimeDeltaReceived \/ EndFlush
    BY <2>4 DEF ApiCalledBack, CallBack, TimeDeltaFailed, TimeDeltaReceived,
                BeginFlush, EndFlush, UpdateGoesOn
  <2>5. CASE RetryTimeDelta
    BY <2>5, RetryGoesOn
  <2>6. CASE RunDeferredDelete
    BY <2>6, DeferredDeleteGoesOn
  <2>7. CASE ServerFinishes
    BY <2>7, FinishGoesOn DEF ServerFinishes
  <2> QED
    BY <2>1, <2>2, <2>3, <2>4, <2>5, <2>6, <2>7 DEF Next
<1> QED
  BY <1>1, ServerInvariance, PTL DEF Spec, UpdateDrawsNearer

-----------------------------------------------------------------------------
(* The Server and TimeSync                                                 *)

(* Registering is a Join.                                                  *)
LEMMA WaitIsJoin ==
  ASSUME ServerInv, ServerInv', NEW api \in RestApis, Wait(api),
         flush = "none", flush' = "none", UNCHANGED currentTimeDelta
  PROVE  Promise!Join(api)
BY WaitAddsCall DEF Promise!Join

(* A new Server has promised nothing.                                      *)
LEMMA InitImplementsInit == Init => Promise!Init
<1> SUFFICES ASSUME Init PROVE Promise!Init
  OBVIOUS
<1>1. ServerInv /\ flush = "none" /\ waitingRestApis = << >>
  BY ServerEstablishesInv DEF Init, Server
<1>2. StillToCall = << >>
  BY <1>1, StillToCallOutside
<1> QED
  BY <1>2 DEF Init, Server, Promise!Init

(* Every step of the Server and its clients is a step of TimeSync or none. *)
LEMMA NextImplementsNext ==
  ASSUME ServerInv, ServerInv', [Next]_vars
  PROVE  [Promise!Next]_(Promise!syncVars)
<1>1. ASSUME NEW api \in RestApis, ApiUpdatesTimeDelta(api)
      PROVE  Promise!Join(api)
  <2>1. /\ Wait(api)
        /\ flush = "none" /\ flush' = "none"
        /\ UNCHANGED currentTimeDelta
    BY <1>1 DEF ApiUpdatesTimeDelta, UpdateTimeDelta, RequestMutexFree
  <2> QED
    BY <2>1, WaitIsJoin
<1>2. ASSUME NEW api \in RestApis, ApiChecksTimestamp(api)
      PROVE  [Promise!Next]_(Promise!syncVars)
  <2>1. /\ UNCHANGED <<pendingReply, currentTimeDelta, flush, it>>
        /\ flush = "none"
        /\ IF MustWait THEN Wait(api)
                       ELSE UNCHANGED <<waitingRestApis, owed>>
    BY <1>2 DEF ApiChecksTimestamp, CheckTimestamp, RequestMutexFree
  <2>2. CASE ~ MustWait
    BY <2>1, <2>2 DEF StillToCall, Promise!syncVars
  <2>3. CASE MustWait
    <3>1. Promise!Join(api)
      BY <2>1, <2>3, WaitIsJoin DEF MustWait
    <3> QED
      BY <3>1 DEF Promise!Next
  <2> QED
    BY <2>2, <2>3
<1>3. ASSUME NEW api \in RestApis, ApiCalledBack(api)
      PROVE  Promise!Call
  BY <1>3, CallBackCallsNext DEF ApiCalledBack, Promise!Call
<1>4. ASSUME NEW d \in ForcedTimeDeltas, SetTimeDelta(d)
      PROVE  Promise!Force(d)
  BY <1>4 DEF SetTimeDelta, InEventLoop, StillToCall, Promise!Force
<1>5. CASE RetryTimeDelta
  <2>1. SlotRuns /\ UNCHANGED <<waitingRestApis, currentTimeDelta, flush, it>>
    BY <1>5 DEF RetryTimeDelta
  <2>2. pendingReply # NoReply /\ pendingReply' # NoReply
    BY <1>5, RetryKeepsInv
  <2> QED
    BY <2>1, <2>2 DEF StillToCall, Promise!syncVars
<1>6. CASE TimeDeltaFailed
  <2>1. SlotRuns /\ BeginFlush("failed") /\ UNCHANGED currentTimeDelta
    BY <1>6 DEF TimeDeltaFailed
  <2>2. Promise!Fail
    BY <2>1, BeginFlushCallsNobody DEF Promise!Fail
  <2> QED
    BY <2>2 DEF Promise!Next
<1>7. CASE TimeDeltaReceived
  <2>1. SlotRuns /\ BeginFlush("updated")
    BY <1>7 DEF TimeDeltaReceived
  <2>2. currentTimeDelta' \in LongLong
    BY DEF ServerInv, ServerTypeOK
  <2>3. Promise!Succeed
    BY <2>1, <2>2, BeginFlushCallsNobody DEF Promise!Succeed
  <2> QED
    BY <2>3 DEF Promise!Next
<1>8. CASE EndFlush
  BY <1>8, EndFlushLeavesNone DEF Promise!Finish, Promise!Next
<1>9. CASE RunDeferredDelete \/ ServerFinishes \/ UNCHANGED vars
  <2>1. UNCHANGED serverVars
    BY <1>9 DEF RunDeferredDelete, ServerFinishes, FinishReply, vars
  <2> QED
    BY <2>1 DEF serverVars, StillToCall, Promise!syncVars
<1> QED
  BY <1>1, <1>2, <1>3, <1>4, <1>5, <1>6, <1>7, <1>8, <1>9
     DEF Next, Promise!Next

(* The Server keeps its promise, as far as safety goes: one update at a    *)
(* time, shared by all who ask meanwhile, and one callback for each time   *)
(* somebody asked, in the order of asking and all with the same result.    *)
THEOREM ServerImplementsTimeSync == Spec => Promise!SafeSpec
<1>1. Spec => []ServerInv
  BY ServerInvariance
<1>2. Init => Promise!Init
  BY InitImplementsInit
<1>3. ServerInv /\ ServerInv' /\ [Next]_vars
        => [Promise!Next]_(Promise!syncVars)
  BY NextImplementsNext
<1> QED
  BY <1>1, <1>2, <1>3, PTL DEF Spec, Promise!SafeSpec
=============================================================================
