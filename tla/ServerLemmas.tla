---------------------------- MODULE ServerLemmas ----------------------------
(***************************************************************************)
(* Lemmas about the operations of a Server, whoever calls them: each of    *)
(* them keeps ServerInv and the replies of all others.                     *)
(*                                                                         *)
(* The argument has three parts that hardly touch.  About the network:     *)
(* every reply of the server but one is spent, that is, its signal was     *)
(* received and its deferred delete is queued, and the one that is not is  *)
(* pendingReply.  About the list of waiters: a RestApi is owed one         *)
(* callback for each of its places the loop has not reached.  About the    *)
(* retries: they are counted right once an update has begun.               *)
(***************************************************************************)
EXTENDS Server, QtNetworkProofs

(* The answers the server may read have documents to look into.            *)
DocumentsOK(n) ==
  \A r \in Alive(n) :
    n.reply[r].owner = ServerOwner /\ n.reply[r].answer.json
      => n.reply[r].answer.document \in Documents

(* The parts of ServerInv that speak of the network                        *)
NetworkPart ==
  /\ NetworkOK(net)
  /\ pendingReply \in Alive(net) \cup {NoReply}
  /\ OneReplyAtATime
  /\ AnswersOK

(* The parts that speak of the list and of what is owed                    *)
ListPart ==
  /\ waitingRestApis \in Seq(RestApis)
  /\ it \in Nat
  /\ owed \in [RestApis -> Nat]
  /\ IdleServer
  /\ IteratorInList
  /\ CallbacksAreDue

(* And those that speak of the rest                                        *)
CountersPart ==
  /\ retriesRemaining \in Nat
  /\ attempts \in Nat
  /\ currentTimeDelta \in LongLong
  /\ flush \in {"none", "updated", "failed"}
  /\ AttemptsAccounted

(* ServerInv is no more than its parts ...                                 *)
LEMMA Parts == ServerInv <=> NetworkPart /\ ListPart /\ CountersPart
BY DEF ServerInv, ServerTypeOK, NetworkOK, NetworkPart, ListPart, CountersPart

(* ... after a step as before it.                                          *)
LEMMA PartsNext == NetworkPart' /\ ListPart' /\ CountersPart' <=> ServerInv'
BY DEF ServerInv, ServerTypeOK, NetworkOK, NetworkPart, ListPart, CountersPart

(* The network part of the state after a step, said of the network         *)
LEMMA NetworkPartNext ==
  ASSUME NetworkOK(net'), DocumentsOK(net'),
         pendingReply' # NoReply =>
           /\ pendingReply' \in Alive(net')
           /\ net'.reply[pendingReply'].owner = ServerOwner,
         OnlyOpen(net', ServerOwner,
                  IF flush' = "none" THEN pendingReply' ELSE NoReply)
  PROVE  NetworkPart'
BY DEF NetworkPart, NetworkOK, NetworkTypeOK, EventsOK, FinishedFirst, Queued,
       Alive, OneReplyAtATime, OnlyOpen, Undelivered, AnswersOK, DocumentsOK

(* The network of the state after a step                                   *)
LEMMA ServerInvNetworkNext ==
  ASSUME ServerInv'
  PROVE  NetworkOK(net')
BY DEF ServerInv, NetworkOK, NetworkTypeOK, EventsOK, FinishedFirst, Queued,
       Alive

-----------------------------------------------------------------------------
(* Lemmas about the operators                                              *)

(* The cast of an accepted double to long long stays in range.             *)
LEMMA TruncatedInRange ==
  ASSUME NEW halves \in Int,
         halves >= 2 * LowestLongLong, halves <= 2 * TimeDeltaMax
  PROVE  Truncated(halves) \in LongLong
<1> USE ServerAssumption DEF ServerAssumption
<1>1. CASE halves >= 0
  <2>1. /\ halves \div 2 \in Int
        /\ 0 <= halves \div 2
        /\ halves \div 2 <= TimeDeltaMax
    BY <1>1
  <2> QED
    BY <1>1, <2>1 DEF Truncated, LongLong
<1>2. CASE ~ (halves >= 0)
  <2> DEFINE k == - halves
  <2>1. /\ k \in Nat
        /\ k \div 2 \in Int
        /\ 0 <= k \div 2
        /\ k \div 2 <= - LowestLongLong
    BY <1>2
  <2>2. Truncated(halves) = - (k \div 2)
    BY <1>2 DEF Truncated
  <2> QED
    BY <2>1, <2>2 DEF LongLong
<1> QED
  BY <1>1, <1>2

(* A callback is due for finitely many places of the list.                 *)
LEMMA DueIsFinite ==
  ASSUME waitingRestApis \in Seq(RestApis), NEW api
  PROVE  IsFiniteSet(DueTo(api))
<1>1. DueTo(api) \in SUBSET (1 .. Len(waitingRestApis))
  BY DEF DueTo
<1>2. IsFiniteSet(1 .. Len(waitingRestApis))
  BY FS_Interval
<1> QED
  BY <1>1, <1>2, FS_Subset

(* Registering adds one callback to what is owed, and one place to the     *)
(* list for which it is due.                                               *)
LEMMA WaitKeepsList ==
  ASSUME ListPart, flush = "none", NEW api \in RestApis, Wait(api),
         UNCHANGED <<it, flush>>
  PROVE  /\ waitingRestApis' \in Seq(RestApis)
         /\ owed' \in [RestApis -> Nat]
         /\ CallbacksAreDue'
<1> DEFINE L == Len(waitingRestApis)
<1>1. /\ waitingRestApis \in Seq(RestApis)
      /\ waitingRestApis' = Append(waitingRestApis, api)
      /\ it = 0 /\ it' = 0
      /\ owed \in [RestApis -> Nat]
      /\ owed' = [owed EXCEPT ![api] = @ + 1]
  BY DEF ListPart, Wait, IteratorInList
<1>2. /\ L \in Nat
      /\ waitingRestApis' \in Seq(RestApis)
      /\ DOMAIN waitingRestApis = 1 .. L
      /\ DOMAIN waitingRestApis' = 1 .. L + 1
      /\ \A i \in 1 .. L : waitingRestApis'[i] = waitingRestApis[i]
      /\ waitingRestApis'[L + 1] = api
  BY <1>1
<1> HIDE DEF L
<1>3. ASSUME NEW a \in RestApis
      PROVE  owed'[a] = Cardinality(DueTo(a)')
  <2>1. owed[a] = Cardinality(DueTo(a)) /\ IsFiniteSet(DueTo(a))
    BY <1>1, DueIsFinite DEF ListPart, CallbacksAreDue
  <2>2. CASE a = api
    <3>1. DueTo(a)' = DueTo(a) \cup {L + 1} /\ L + 1 \notin DueTo(a)
      BY <1>1, <1>2, <2>2 DEF DueTo
    <3>2. Cardinality(DueTo(a) \cup {L + 1}) = Cardinality(DueTo(a)) + 1
      BY <2>1, <3>1, FS_AddElement
    <3> QED
      BY <1>1, <2>1, <2>2, <3>1, <3>2
  <2>3. CASE a # api
    <3>1. DueTo(a)' = DueTo(a)
      BY <1>1, <1>2, <2>3 DEF DueTo
    <3> QED
      BY <1>1, <2>1, <2>3, <3>1
  <2> QED
    BY <2>2, <2>3
<1> QED
  BY <1>1, <1>2, <1>3 DEF CallbacksAreDue

(* A new request becomes the one reply that is not spent.                  *)
LEMMA IssueKeepsNetwork ==
  ASSUME NEW n, NetworkOK(n), OnlyOpen(n, ServerOwner, NoReply),
         DocumentsOK(n), IssueTimeDeltaRequest(n), flush' = "none"
  PROVE  /\ NetworkPart' /\ pendingReply' # NoReply
         /\ NetworkOK(net')
         /\ \A o : o # ServerOwner => Kept(n, net', o)
<1> DEFINE p == NewReply(n)
<1>1. net' = Posted(n, ServerOwner, 0) /\ pendingReply' = p
  BY DEF IssueTimeDeltaRequest
<1>2. /\ NetworkOK(net')
      /\ Alive(net') = Alive(n) \cup {p}
      /\ p \in Nat \ {NoReply}
      /\ \A q \in Alive(n) : net'.reply[q] = n.reply[q]
      /\ net'.reply[p] = [owner |-> ServerOwner, payload |-> 0,
                          finished |-> FALSE, answer |-> NothingRead]
  BY <1>1, PostedOK
<1>3. OnlyOpen(net', ServerOwner, p)
  BY <1>1, PostedOpen
<1>4. \A o : o # ServerOwner => Kept(n, net', o)
  BY <1>1, PostedKeeps
<1> HIDE DEF p
<1>5. net'.reply[p].owner = ServerOwner /\ net'.reply[p].answer.json = FALSE
  BY <1>2 DEF NothingRead
<1>6. DocumentsOK(net')
  BY <1>2, <1>5 DEF DocumentsOK
<1> QED
  BY <1>1, <1>2, <1>3, <1>4, <1>5, <1>6, NetworkPartNext

(* responseReceived of the Server reads the reply that emitted the signal, *)
(* and when it has dropped it no reply is left that is not spent.          *)
LEMMA SlotFacts ==
  ASSUME NetworkPart, SlotRuns
  PROVE  /\ flush = "none"
         /\ pendingReply # NoReply /\ pendingReply \in Alive(net)
         /\ net.reply[pendingReply].owner = ServerOwner
         /\ Answer = net.reply[pendingReply].answer
         /\ NetworkOK(AfterRead)
         /\ AfterRead.reply = net.reply
         /\ Alive(AfterRead) = Alive(net)
         /\ OnlyOpen(AfterRead, ServerOwner, NoReply)
         /\ \A o : o # ServerOwner => Kept(net, AfterRead, o)
<1>1. flush = "none" /\ SlotReady(net, ServerOwner)
  BY DEF SlotRuns, InEventLoop
<1>2. NetworkOK(net) /\ OnlyOpen(net, ServerOwner, pendingReply)
  BY <1>1 DEF NetworkPart, OneReplyAtATime
<1> QED
  BY <1>1, <1>2, SlotReads DEF Answer, AfterRead

(* When an update fails or succeeds the reply is dropped but stays in      *)
(* pendingReply until its loop has ended.                                  *)
LEMMA FlushKeepsNetwork ==
  ASSUME NetworkPart, SlotRuns, net' = AfterRead, UNCHANGED pendingReply,
         flush' # "none"
  PROVE  NetworkPart'
<1>1. /\ pendingReply # NoReply /\ pendingReply \in Alive(net)
      /\ net.reply[pendingReply].owner = ServerOwner
      /\ NetworkOK(net')
      /\ net'.reply = net.reply
      /\ Alive(net') = Alive(net)
      /\ OnlyOpen(net', ServerOwner, NoReply)
  BY SlotFacts
<1>2. DocumentsOK(net')
  BY <1>1 DEF NetworkPart, AnswersOK, DocumentsOK
<1> QED
  BY <1>1, <1>2, NetworkPartNext

(* What others do to the network is none of the server's business when     *)
(* they keep its replies.                                                  *)
LEMMA NetworkKept ==
  ASSUME NetworkPart, NetworkOK(net'), Kept(net, net', ServerOwner),
         UNCHANGED <<pendingReply, flush>>
  PROVE  NetworkPart'
<1>1. OnlyOpen(net', ServerOwner,
               IF flush' = "none" THEN pendingReply' ELSE NoReply)
  BY KeptOpen DEF NetworkPart, OneReplyAtATime
<1>2. DocumentsOK(net')
  BY DEF NetworkPart, AnswersOK, DocumentsOK, Kept, Same
<1>3. pendingReply' # NoReply =>
        /\ pendingReply' \in Alive(net')
        /\ net'.reply[pendingReply'].owner = ServerOwner
  BY DEF NetworkPart, OneReplyAtATime, Kept, Same
<1> QED
  BY <1>1, <1>2, <1>3, NetworkPartNext

(* Nothing changes about the list when none of its variables does.         *)
LEMMA ListUnchanged ==
  ASSUME ListPart, UNCHANGED <<waitingRestApis, it, owed, flush>>,
         pendingReply' = NoReply => pendingReply = NoReply
  PROVE  ListPart'
BY DEF ListPart, IdleServer, IteratorInList, CallbacksAreDue, DueTo

(* Nor about the counters.                                                 *)
LEMMA CountersUnchanged ==
  ASSUME CountersPart,
         UNCHANGED <<retriesRemaining, attempts, currentTimeDelta>>,
         flush' = flush \/ flush' = "none",
         pendingReply' # NoReply => pendingReply # NoReply
  PROVE  CountersPart'
BY DEF CountersPart, AttemptsAccounted

-----------------------------------------------------------------------------
(* ServerInv holds at first ...                                            *)

LEMMA ServerEstablishesInv ==
  ASSUME net = EmptyNetwork, Server
  PROVE  ServerInv
<1> USE DEF Server
<1>1. NetworkPart
  <2>1. NetworkOK(net) /\ Alive(net) = {}
    BY EmptyNetworkOK
  <2> QED
    BY <2>1 DEF NetworkPart, OneReplyAtATime, OnlyOpen, AnswersOK
<1>2. ListPart
  <2>1. /\ waitingRestApis \in Seq(RestApis)
        /\ DOMAIN waitingRestApis = {}
        /\ owed \in [RestApis -> Nat]
    OBVIOUS
  <2>2. CallbacksAreDue
    <3>1. \A a \in RestApis : DueTo(a) = {}
      BY <2>1 DEF DueTo
    <3> QED
      BY <3>1, FS_EmptySet DEF CallbacksAreDue
  <2> QED
    BY <2>1, <2>2 DEF ListPart, IdleServer, IteratorInList
<1>3. CountersPart
  <2>1. 0 \in LongLong /\ Uninitialized \subseteq Nat
    BY ServerAssumption DEF ServerAssumption, LongLong
  <2> QED
    BY <2>1 DEF CountersPart, AttemptsAccounted
<1> QED
  BY <1>1, <1>2, <1>3, Parts

-----------------------------------------------------------------------------
(* ... and every operation keeps it.                                       *)

(* What others do                                                          *)
LEMMA OthersKeepInv ==
  ASSUME ServerInv, UNCHANGED serverVars,
         NetworkOK(net'), Kept(net, net', ServerOwner)
  PROVE  ServerInv'
<1>1. /\ NetworkPart /\ ListPart /\ CountersPart
      /\ UNCHANGED <<pendingReply, retriesRemaining, waitingRestApis,
                     currentTimeDelta, flush, it, attempts, owed>>
  BY Parts DEF serverVars
<1> QED
  BY <1>1, NetworkKept, ListUnchanged, CountersUnchanged, PartsNext

(* Server::updateTimeDelta                                                 *)
LEMMA UpdateTimeDeltaKeepsInv ==
  ASSUME ServerInv, NEW api \in RestApis, NEW n, NetworkOK(n),
         Kept(net, n, ServerOwner), UpdateTimeDelta(api, n)
  PROVE  /\ ServerInv' /\ NetworkOK(net')
         /\ \A o : o # ServerOwner => Kept(n, net', o)
<1>1. /\ NetworkPart /\ ListPart /\ CountersPart
      /\ flush = "none" /\ flush' = "none" /\ it' = it
      /\ Wait(api)
      /\ currentTimeDelta' = currentTimeDelta
  BY Parts DEF UpdateTimeDelta, RequestMutexFree
<1>2. /\ waitingRestApis' \in Seq(RestApis)
      /\ owed' \in [RestApis -> Nat]
      /\ CallbacksAreDue'
  BY <1>1, WaitKeepsList
<1>3. ASSUME pendingReply' # NoReply
      PROVE  ListPart'
  BY <1>1, <1>2, <1>3 DEF ListPart, IdleServer, IteratorInList
<1>4. CASE pendingReply = NoReply
  <2>1. /\ retriesRemaining' = NumberRetries
        /\ attempts' = 1
        /\ IssueTimeDeltaRequest(n)
    BY <1>4 DEF UpdateTimeDelta, StartsUpdate, RetriesOfUpdate
  <2>2. /\ NetworkPart' /\ pendingReply' # NoReply
        /\ NetworkOK(net')
        /\ \A o : o # ServerOwner => Kept(n, net', o)
    <3>1. OnlyOpen(n, ServerOwner, NoReply)
      <4>1. OnlyOpen(net, ServerOwner, NoReply)
        BY <1>1, <1>4 DEF NetworkPart, OneReplyAtATime
      <4> QED
        BY <4>1, KeptOpen
    <3>2. DocumentsOK(n)
      BY <1>1 DEF NetworkPart, AnswersOK, DocumentsOK, Kept, Same
    <3> QED
      BY <1>1, <2>1, <3>1, <3>2, IssueKeepsNetwork
  <2>3. CountersPart'
    BY <1>1, <2>1, ServerAssumption
       DEF ServerAssumption, CountersPart, AttemptsAccounted
  <2> QED
    BY <1>3, <2>2, <2>3, PartsNext
<1>5. CASE pendingReply # NoReply
  <2>1. net' = n /\ UNCHANGED <<pendingReply, retriesRemaining, attempts>>
    BY <1>5 DEF UpdateTimeDelta, StartsUpdate
  <2>2. NetworkPart'
    BY <1>1, <2>1, NetworkKept
  <2>3. CountersPart'
    BY <1>1, <2>1, CountersUnchanged
  <2>4. \A o : Kept(n, net', o)
    BY <2>1, KeptByAll
  <2> QED
    BY <1>3, <1>5, <2>1, <2>2, <2>3, <2>4, PartsNext
<1> QED
  BY <1>4, <1>5

(* Server::checkTimestamp                                                  *)
LEMMA CheckTimestampKeepsInv ==
  ASSUME ServerInv, NEW api \in RestApis, CheckTimestamp(api),
         NetworkOK(net'), Kept(net, net', ServerOwner)
  PROVE  ServerInv'
<1>1. /\ NetworkPart /\ ListPart /\ CountersPart
      /\ flush = "none"
      /\ UNCHANGED <<pendingReply, retriesRemaining, currentTimeDelta,
                     flush, it, attempts>>
      /\ IF MustWait THEN Wait(api) ELSE UNCHANGED <<waitingRestApis, owed>>
  BY Parts DEF CheckTimestamp, RequestMutexFree
<1>2. NetworkPart'
  BY <1>1, NetworkKept
<1>3. CountersPart'
  BY <1>1, CountersUnchanged
<1>4. ListPart'
  <2>1. CASE ~ MustWait
    BY <1>1, <2>1, ListUnchanged
  <2>2. CASE MustWait
    <3>1. /\ waitingRestApis' \in Seq(RestApis)
          /\ owed' \in [RestApis -> Nat]
          /\ CallbacksAreDue'
      BY <1>1, <2>2, WaitKeepsList
    <3> QED
      BY <1>1, <2>2, <3>1
         DEF MustWait, ListPart, IdleServer, IteratorInList
  <2> QED
    BY <2>1, <2>2
<1> QED
  BY <1>2, <1>3, <1>4, PartsNext

(* A call of timestampUpdated or timestampUpdateFailed                     *)
LEMMA CallBackKeepsInv ==
  ASSUME ServerInv, NEW api \in RestApis, CallBack(api),
         NetworkOK(net'), Kept(net, net', ServerOwner)
  PROVE  ServerInv'
<1>1. /\ NetworkPart /\ ListPart /\ CountersPart
      /\ UNCHANGED <<pendingReply, retriesRemaining, waitingRestApis,
                     currentTimeDelta, flush, attempts>>
      /\ flush # "none"
      /\ ~ (it > Len(waitingRestApis))
      /\ api = waitingRestApis[it]
      /\ it' = it + 1
      /\ owed' = [owed EXCEPT ![api] = @ - 1]
  BY Parts DEF CallBack, LoopDone
<1>2. /\ waitingRestApis \in Seq(RestApis)
      /\ DOMAIN waitingRestApis = 1 .. Len(waitingRestApis)
      /\ Len(waitingRestApis) \in Nat
      /\ it \in 1 .. Len(waitingRestApis)
      /\ owed \in [RestApis -> Nat]
  BY <1>1 DEF ListPart, IteratorInList
<1>3. ASSUME NEW a \in RestApis
      PROVE  owed'[a] \in Nat /\ owed'[a] = Cardinality(DueTo(a)')
  <2>1. /\ owed[a] = Cardinality(DueTo(a))
        /\ IsFiniteSet(DueTo(a))
        /\ owed[a] \in Nat
    BY <1>1, <1>2, DueIsFinite DEF ListPart, CallbacksAreDue
  <2>2. CASE a = api
    <3>1. DueTo(a)' = DueTo(a) \ {it} /\ it \in DueTo(a)
      BY <1>1, <1>2, <2>2 DEF DueTo
    <3>2. /\ IsFiniteSet(DueTo(a) \ {it})
          /\ Cardinality(DueTo(a) \ {it}) = Cardinality(DueTo(a)) - 1
      BY <2>1, <3>1, FS_RemoveElement
    <3>3. Cardinality(DueTo(a) \ {it}) \in Nat
      BY <3>2, FS_CardinalityType
    <3> QED
      BY <1>1, <1>2, <2>1, <2>2, <3>1, <3>2, <3>3
  <2>3. CASE a # api
    <3>1. DueTo(a)' = DueTo(a)
      BY <1>1, <1>2, <2>3 DEF DueTo
    <3> QED
      BY <1>1, <1>2, <2>1, <2>3, <3>1
  <2> QED
    BY <2>2, <2>3
<1>4. NetworkPart'
  BY <1>1, NetworkKept
<1>5. CountersPart'
  BY <1>1, CountersUnchanged
<1>6. ListPart'
  <2>1. owed' \in [RestApis -> Nat]
    BY <1>1, <1>2, <1>3
  <2>2. CallbacksAreDue'
    BY <1>3 DEF CallbacksAreDue
  <2> QED
    BY <1>1, <1>2, <2>1, <2>2 DEF ListPart, IdleServer, IteratorInList
<1> QED
  BY <1>4, <1>5, <1>6, PartsNext

(* Server::setTimeDelta                                                    *)
LEMMA SetTimeDeltaKeepsInv ==
  ASSUME ServerInv, NEW d \in LongLong, SetTimeDelta(d)
  PROVE  ServerInv'
<1>1. /\ NetworkPart /\ ListPart /\ CountersPart
      /\ UNCHANGED <<net, pendingReply, retriesRemaining, waitingRestApis,
                     flush, it, attempts, owed>>
      /\ currentTimeDelta' = d
  BY Parts DEF SetTimeDelta
<1>2. NetworkPart'
  <2>1. NetworkOK(net') /\ Kept(net, net', ServerOwner)
    BY <1>1, KeptByAll DEF NetworkPart
  <2> QED
    BY <1>1, <2>1, NetworkKept
<1>3. ListPart'
  BY <1>1, ListUnchanged
<1>4. CountersPart'
  BY <1>1 DEF CountersPart, AttemptsAccounted
<1> QED
  BY <1>2, <1>3, <1>4, PartsNext

(* Server::responseReceived, no success and a retry left                   *)
LEMMA RetryKeepsInv ==
  ASSUME ServerInv, RetryTimeDelta
  PROVE  /\ ServerInv' /\ pendingReply # NoReply /\ pendingReply' # NoReply
         /\ \A o : o # ServerOwner => Kept(net, net', o)
<1>1. /\ NetworkPart /\ ListPart /\ CountersPart
      /\ SlotRuns
      /\ retriesRemaining > 0
      /\ retriesRemaining' = retriesRemaining - 1
      /\ attempts' = attempts + 1
      /\ IssueTimeDeltaRequest(AfterRead)
      /\ UNCHANGED <<waitingRestApis, currentTimeDelta, flush, it, owed>>
  BY Parts DEF RetryTimeDelta
<1>2. /\ flush = "none"
      /\ pendingReply # NoReply
      /\ NetworkOK(AfterRead)
      /\ AfterRead.reply = net.reply
      /\ Alive(AfterRead) = Alive(net)
      /\ OnlyOpen(AfterRead, ServerOwner, NoReply)
      /\ \A o : o # ServerOwner => Kept(net, AfterRead, o)
  BY <1>1, SlotFacts
<1>3. DocumentsOK(AfterRead)
  BY <1>1, <1>2 DEF NetworkPart, AnswersOK, DocumentsOK
<1>4. /\ NetworkPart' /\ pendingReply' # NoReply
      /\ \A o : o # ServerOwner => Kept(AfterRead, net', o)
  <2>1. flush' = "none"
    BY <1>1, <1>2
  <2> QED
    BY <1>1, <1>2, <1>3, <2>1, IssueKeepsNetwork
<1>5. ListPart'
  BY <1>1, <1>4, ListUnchanged
<1>6. CountersPart'
  BY <1>1, <1>2, <1>4, ServerAssumption
     DEF ServerAssumption, CountersPart, AttemptsAccounted
<1>7. \A o : o # ServerOwner => Kept(net, net', o)
  BY <1>2, <1>4, KeptThrough
<1> QED
  BY <1>2, <1>4, <1>5, <1>6, <1>7, PartsNext

(* The head of either loop, with requestMutex taken                        *)
LEMMA BeginFlushKeepsInv ==
  ASSUME ServerInv, SlotRuns, NEW kind \in {"updated", "failed"},
         BeginFlush(kind), currentTimeDelta' \in LongLong,
         kind = "failed" => retriesRemaining = 0
  PROVE  ServerInv'
<1>1. /\ NetworkPart /\ ListPart /\ CountersPart
      /\ flush' = kind /\ kind # "none"
      /\ it' = 1
      /\ net' = AfterRead
      /\ UNCHANGED <<pendingReply, retriesRemaining, waitingRestApis,
                     attempts, owed>>
  BY Parts DEF BeginFlush
<1>2. flush = "none" /\ pendingReply # NoReply
  BY <1>1, SlotFacts
<1>3. NetworkPart'
  BY <1>1, FlushKeepsNetwork
<1>4. ListPart'
  <2>1. it = 0
    BY <1>1, <1>2 DEF ListPart, IteratorInList
  <2>2. /\ waitingRestApis \in Seq(RestApis)
        /\ DOMAIN waitingRestApis = 1 .. Len(waitingRestApis)
        /\ Len(waitingRestApis) \in Nat
    BY <1>1 DEF ListPart
  <2>3. \A a \in RestApis : DueTo(a)' = DueTo(a)
    BY <1>1, <2>1, <2>2 DEF DueTo
  <2>4. CallbacksAreDue'
    BY <1>1, <2>3 DEF ListPart, CallbacksAreDue
  <2> QED
    BY <1>1, <1>2, <2>2, <2>4 DEF ListPart, IdleServer, IteratorInList
<1>5. CountersPart'
  BY <1>1, <1>2, ServerAssumption
     DEF ServerAssumption, CountersPart, AttemptsAccounted
<1> QED
  BY <1>3, <1>4, <1>5, PartsNext

(* Server::responseReceived, no success and no retry left                  *)
LEMMA FailedKeepsInv ==
  ASSUME ServerInv, TimeDeltaFailed
  PROVE  ServerInv'
<1>1. currentTimeDelta' \in LongLong
  BY DEF ServerInv, ServerTypeOK, TimeDeltaFailed
<1> QED
  BY <1>1, BeginFlushKeepsInv DEF TimeDeltaFailed

(* Server::responseReceived, success                                       *)
LEMMA ReceivedKeepsInv ==
  ASSUME ServerInv, TimeDeltaReceived
  PROVE  ServerInv'
<1>1. SlotRuns /\ Success(Answer) /\ BeginFlush("updated")
  BY DEF TimeDeltaReceived
<1>2. /\ NetworkPart
      /\ pendingReply \in Alive(net)
      /\ net.reply[pendingReply].owner = ServerOwner
      /\ Answer = net.reply[pendingReply].answer
  BY <1>1, Parts, SlotFacts
<1>3. Answer.document \in Documents /\ ParseResponse(Answer.document)
  BY <1>1, <1>2 DEF Success, NetworkPart, AnswersOK
<1>4. /\ Answer.document.halves \in Int
      /\ Answer.document.halves >= 2 * LowestLongLong
      /\ Answer.document.halves <= 2 * TimeDeltaMax
  BY <1>3 DEF Documents, ParseResponse
<1>5. currentTimeDelta' \in LongLong
  BY <1>4, TruncatedInRange DEF TimeDeltaReceived
<1> QED
  BY <1>1, <1>5, BeginFlushKeepsInv

(* Neither outcome of an update touches the replies of others.             *)
LEMMA OutcomeKeepsOthers ==
  ASSUME ServerInv, TimeDeltaFailed \/ TimeDeltaReceived
  PROVE  /\ pendingReply # NoReply /\ flush = "none"
         /\ UNCHANGED <<pendingReply, owed, waitingRestApis>>
         /\ \A o : o # ServerOwner => Kept(net, net', o)
<1>1. /\ NetworkPart /\ SlotRuns
      /\ net' = AfterRead
      /\ UNCHANGED <<pendingReply, owed, waitingRestApis>>
  BY Parts DEF TimeDeltaFailed, TimeDeltaReceived, BeginFlush
<1> QED
  BY <1>1, SlotFacts

(* The end of either loop                                                  *)
LEMMA EndFlushKeepsInv ==
  ASSUME ServerInv, EndFlush
  PROVE  ServerInv'
<1>1. /\ NetworkPart /\ ListPart /\ CountersPart
      /\ flush # "none" /\ flush' = "none"
      /\ it > Len(waitingRestApis) /\ it' = 0
      /\ waitingRestApis' = << >>
      /\ pendingReply' = NoReply
      /\ UNCHANGED <<net, retriesRemaining, currentTimeDelta, attempts, owed>>
  BY Parts DEF EndFlush, LoopDone, ListCleared
<1>2. NetworkPart'
  <2>1. NetworkOK(net') /\ DocumentsOK(net')
    BY <1>1 DEF NetworkPart, AnswersOK, DocumentsOK
  <2>2. OnlyOpen(net', ServerOwner, NoReply)
    BY <1>1 DEF NetworkPart, OneReplyAtATime
  <2> QED
    BY <1>1, <2>1, <2>2, NetworkPartNext
<1>3. ListPart'
  <2>1. /\ waitingRestApis \in Seq(RestApis)
        /\ DOMAIN waitingRestApis = 1 .. Len(waitingRestApis)
        /\ Len(waitingRestApis) \in Nat
        /\ it \in Nat
    BY <1>1 DEF ListPart
  <2>2. \A a \in RestApis : DueTo(a) = {} /\ DueTo(a)' = {}
    BY <1>1, <2>1 DEF DueTo
  <2>3. CallbacksAreDue'
    BY <1>1, <2>2 DEF ListPart, CallbacksAreDue
  <2> QED
    BY <1>1, <2>3 DEF ListPart, IdleServer, IteratorInList
<1>4. CountersPart'
  BY <1>1, CountersUnchanged
<1> QED
  BY <1>2, <1>3, <1>4, PartsNext

(* The deferred delete of any reply                                        *)
LEMMA DeferredDeleteKeepsInv ==
  ASSUME ServerInv, RunDeferredDelete
  PROVE  ServerInv'
<1>1. /\ NetworkPart /\ ListPart /\ CountersPart
      /\ flush = "none"
      /\ DeleteReady(net)
      /\ net' = Deleted(net)
      /\ UNCHANGED <<pendingReply, retriesRemaining, waitingRestApis,
                     currentTimeDelta, flush, it, attempts, owed>>
  BY Parts DEF RunDeferredDelete, InEventLoop, serverVars
<1>2. /\ NetworkOK(net')
      /\ Alive(net') = Alive(net) \ {Head(net.events).reply}
      /\ \A q \in Alive(net') : net'.reply[q] = net.reply[q]
  BY <1>1, DeletedOK DEF NetworkPart
<1>3. OnlyOpen(net', ServerOwner, pendingReply)
  BY <1>1, DeletedFrames DEF NetworkPart, OneReplyAtATime
<1>4. NetworkPart'
  <2>1. DocumentsOK(net')
    BY <1>1, <1>2 DEF NetworkPart, AnswersOK, DocumentsOK
  <2>2. pendingReply # NoReply =>
          /\ pendingReply \in Alive(net')
          /\ net'.reply[pendingReply].owner = ServerOwner
    BY <1>3 DEF OnlyOpen
  <2> QED
    BY <1>1, <1>2, <1>3, <2>1, <2>2, NetworkPartNext
<1> QED
  BY <1>1, <1>4, ListUnchanged, CountersUnchanged, PartsNext

(* A reply is finished by the HTTP thread.                                 *)
LEMMA FinishKeepsInv ==
  ASSUME ServerInv, NEW owner, NEW answers, FinishReply(owner, answers),
         owner = ServerOwner => answers \subseteq TimeDeltaAnswers
  PROVE  ServerInv'
<1>1. PICK f \in Alive(net), a \in answers :
        /\ net.reply[f].owner = owner
        /\ CanFinish(net, f)
        /\ net' = Finished(net, f, a)
  BY DEF FinishReply
<1>2. /\ NetworkPart /\ ListPart /\ CountersPart
      /\ UNCHANGED <<pendingReply, retriesRemaining, waitingRestApis,
                     currentTimeDelta, flush, it, attempts, owed>>
  BY Parts DEF FinishReply, serverVars
<1>3. /\ NetworkOK(net')
      /\ Alive(net') = Alive(net)
      /\ \A q \in Alive(net) :
           /\ net'.reply[q].owner = net.reply[q].owner
           /\ q # f => net'.reply[q] = net.reply[q]
      /\ net'.reply[f].answer = a
  BY <1>1, <1>2, FinishedOK DEF NetworkPart
<1>4. OnlyOpen(net', ServerOwner,
               IF flush' = "none" THEN pendingReply' ELSE NoReply)
  BY <1>1, <1>2, FinishedFrames DEF NetworkPart, OneReplyAtATime
<1>5. NetworkPart'
  <2>1. DocumentsOK(net')
    <3>1. owner = ServerOwner /\ a.json => a.document \in Documents
      BY <1>1, ServerAssumption DEF ServerAssumption
    <3> QED
      BY <1>1, <1>2, <1>3, <3>1 DEF NetworkPart, AnswersOK, DocumentsOK
  <2>2. pendingReply' # NoReply =>
          /\ pendingReply' \in Alive(net')
          /\ net'.reply[pendingReply'].owner = ServerOwner
    BY <1>2, <1>3 DEF NetworkPart, OneReplyAtATime
  <2> QED
    BY <1>3, <1>4, <2>1, <2>2, NetworkPartNext
<1> QED
  BY <1>2, <1>5, ListUnchanged, CountersUnchanged, PartsNext

-----------------------------------------------------------------------------
(* No method prolongs an update that is pending.                           *)

(* Who leaves the Server's replies alone leaves its update as it is.       *)
LEMMA KeptGoesOn ==
  ASSUME ServerInv, Kept(net, net', ServerOwner),
         UNCHANGED <<pendingReply, retriesRemaining>>
  PROVE  UpdateGoesOn
BY DEF ServerInv, ServerTypeOK, OneReplyAtATime, Kept, Same, UpdateGoesOn

(* Who asks for an update while one is pending shares it.                  *)
LEMMA UpdateTimeDeltaGoesOn ==
  ASSUME ServerInv, NEW api, NEW n, Kept(net, n, ServerOwner),
         UpdateTimeDelta(api, n)
  PROVE  UpdateGoesOn
<1>1. CASE pendingReply = NoReply
  BY <1>1 DEF UpdateGoesOn
<1>2. CASE pendingReply # NoReply
  <2>1. net' = n /\ UNCHANGED <<pendingReply, retriesRemaining>>
    BY <1>2 DEF UpdateTimeDelta, StartsUpdate
  <2> QED
    BY <2>1, KeptGoesOn
<1> QED
  BY <1>1, <1>2

(* A retry is one of those that are left.                                  *)
LEMMA RetryGoesOn ==
  ASSUME ServerInv, RetryTimeDelta
  PROVE  UpdateGoesOn
<1>1. /\ SlotRuns /\ NetworkPart /\ retriesRemaining \in Nat
      /\ retriesRemaining' = retriesRemaining - 1
      /\ net' = Posted(AfterRead, ServerOwner, 0)
      /\ pendingReply' = NewReply(AfterRead)
  BY Parts DEF RetryTimeDelta, IssueTimeDeltaRequest, ServerInv, ServerTypeOK
<1>2. NetworkOK(AfterRead) /\ AfterRead.reply = net.reply
  BY <1>1, SlotFacts
<1>3. net'.reply[pendingReply']
        = [owner |-> ServerOwner, payload |-> 0, finished |-> FALSE,
           answer |-> NothingRead]
  BY <1>1, <1>2, PostedOK
<1>4. net.reply[pendingReply].finished
  BY <1>1, SlotReads
     DEF NetworkPart, OneReplyAtATime, SlotRuns, InEventLoop, NetworkOK
<1>5. UpdateWork' = 2 * (retriesRemaining - 1) + 1
  BY <1>1, <1>3 DEF UpdateWork
<1>6. UpdateWork = 2 * retriesRemaining
  BY <1>1, <1>4 DEF UpdateWork
<1> QED
  BY <1>1, <1>5, <1>6 DEF UpdateGoesOn

(* Only the pending reply of the Server may still be finished, once.       *)
LEMMA FinishGoesOn ==
  ASSUME ServerInv, NEW owner, NEW answers, FinishReply(owner, answers)
  PROVE  UpdateGoesOn
<1> SUFFICES ASSUME pendingReply # NoReply
             PROVE  UpdateGoesOn
  BY DEF UpdateGoesOn
<1>1. PICK f \in Alive(net), a \in answers :
        CanFinish(net, f) /\ net' = Finished(net, f, a)
  BY DEF FinishReply
<1>2. /\ UNCHANGED <<pendingReply, retriesRemaining>>
      /\ retriesRemaining \in Nat
      /\ pendingReply \in Alive(net)
      /\ NetworkOK(net)
  BY DEF FinishReply, serverVars, ServerInv, ServerTypeOK
<1>3. CASE f = pendingReply
  <2>1. ~ net.reply[pendingReply].finished
    BY <1>1, <1>3 DEF CanFinish
  <2>2. net'.reply[pendingReply].finished
    BY <1>1, <1>3 DEF Finished, Alive
  <2>3. UpdateWork = 2 * retriesRemaining + 1
    BY <2>1 DEF UpdateWork
  <2>4. UpdateWork' = 2 * retriesRemaining
    BY <1>2, <2>2 DEF UpdateWork
  <2> QED
    BY <1>2, <2>3, <2>4 DEF UpdateGoesOn
<1>4. CASE f # pendingReply
  BY <1>1, <1>2, <1>4, FinishedOK DEF UpdateGoesOn
<1> QED
  BY <1>3, <1>4

(* A deferred delete spares the pending reply.                             *)
LEMMA DeferredDeleteGoesOn ==
  ASSUME ServerInv, RunDeferredDelete
  PROVE  UpdateGoesOn
<1> SUFFICES ASSUME pendingReply # NoReply
             PROVE  UpdateGoesOn
  BY DEF UpdateGoesOn
<1>1. /\ NetworkOK(net) /\ DeleteReady(net) /\ net' = Deleted(net)
      /\ UNCHANGED <<pendingReply, retriesRemaining>>
      /\ OnlyOpen(net, ServerOwner, pendingReply)
  BY DEF RunDeferredDelete, InEventLoop, serverVars, ServerInv,
         OneReplyAtATime
<1>2. pendingReply \in Alive(net')
  BY <1>1, DeletedFrames DEF OnlyOpen
<1>3. net'.reply[pendingReply] = net.reply[pendingReply]
  BY <1>1, <1>2, DeletedOK
<1> QED
  BY <1>1, <1>3 DEF UpdateGoesOn

-----------------------------------------------------------------------------
(* What ServerInv says of a Server, whoever uses it                        *)

LEMMA ServerInvSlot == ServerInv => SlotReadsItsReply
<1>1. ServerInv => NoReply \notin Alive(net)
  BY DEF ServerInv, ServerTypeOK, NetworkTypeOK
<1> QED
  BY <1>1 DEF ServerInv, OneReplyAtATime, OnlyOpen, SlotReadsItsReply,
              Undelivered

LEMMA ServerInvWaiters == ServerInv => WaitersHaveAReplyToCome
BY DEF ServerInv, ServerTypeOK, OneReplyAtATime, OnlyOpen, IdleServer,
       WaitersHaveAReplyToCome

LEMMA ServerInvOwed == ServerInv => NoCallbackOwedWhenIdle
<1> SUFFICES ASSUME ServerInv, pendingReply = NoReply, NEW a \in RestApis
             PROVE  owed[a] = 0
  BY DEF NoCallbackOwedWhenIdle
<1>1. waitingRestApis = << >> /\ DOMAIN waitingRestApis = {}
  BY DEF ServerInv, IdleServer
<1>2. DueTo(a) = {}
  BY <1>1 DEF DueTo
<1> QED
  BY <1>2, FS_EmptySet DEF ServerInv, CallbacksAreDue

-----------------------------------------------------------------------------
(* What each operation does to the callbacks that are still to be made     *)

(* Outside the loops everything in the list is still to be called ...      *)
LEMMA StillToCallOutside ==
  ASSUME ServerInv, flush = "none"
  PROVE  StillToCall = waitingRestApis
<1>1. waitingRestApis \in Seq(RestApis)
  BY DEF ServerInv, ServerTypeOK
<1> QED
  BY <1>1, SubSeqFull DEF StillToCall

(* ... and the list is empty in a loop when it has reached the end.        *)
LEMMA StillToCallAtEnd ==
  ASSUME ServerInv, flush # "none", it > Len(waitingRestApis)
  PROVE  StillToCall = << >>
<1>1. /\ it \in Int
      /\ Len(waitingRestApis) \in Int
  BY DEF ServerInv, ServerTypeOK
<1> QED
  BY <1>1, SubSeqEmpty DEF StillToCall

(* Who registers is called last.                                           *)
LEMMA WaitAddsCall ==
  ASSUME ServerInv, ServerInv', NEW api \in RestApis, Wait(api),
         flush = "none", flush' = "none"
  PROVE  /\ StillToCall' = Append(StillToCall, api)
         /\ pendingReply' # NoReply
<1>1. /\ waitingRestApis \in Seq(RestApis)
      /\ waitingRestApis' \in Seq(RestApis)
      /\ waitingRestApis' = Append(waitingRestApis, api)
  BY DEF ServerInv, ServerTypeOK, Wait
<1>2. StillToCall = waitingRestApis
  BY StillToCallOutside
<1>3. StillToCall' = waitingRestApis'
  BY <1>1, SubSeqFull DEF StillToCall
<1>4. waitingRestApis' # << >>
  BY <1>1, AppendProperties
<1> QED
  BY <1>1, <1>2, <1>3, <1>4 DEF ServerInv, IdleServer

(* The head of a loop leaves everything still to be called.                *)
LEMMA BeginFlushCallsNobody ==
  ASSUME ServerInv, SlotRuns, NEW kind \in {"updated", "failed"},
         BeginFlush(kind)
  PROVE  /\ StillToCall' = StillToCall
         /\ flush = "none" /\ flush' = kind
         /\ pendingReply # NoReply /\ UNCHANGED pendingReply
<1>1. /\ flush' = kind /\ it' = 1
      /\ UNCHANGED <<pendingReply, waitingRestApis>>
  BY DEF BeginFlush
<1>2. flush = "none" /\ pendingReply # NoReply
  BY Parts, SlotFacts
<1> QED
  BY <1>1, <1>2 DEF StillToCall

(* A call takes the next one from those still to be made.                  *)
LEMMA CallBackCallsNext ==
  ASSUME ServerInv, NEW api \in RestApis, CallBack(api)
  PROVE  /\ StillToCall # << >>
         /\ StillToCall' = Tail(StillToCall)
         /\ flush # "none" /\ UNCHANGED <<pendingReply, currentTimeDelta,
                                          flush>>
<1>1. /\ flush # "none"
      /\ ~ (it > Len(waitingRestApis))
      /\ it' = it + 1
      /\ UNCHANGED <<pendingReply, waitingRestApis, currentTimeDelta, flush>>
  BY DEF CallBack, LoopDone
<1>2. /\ waitingRestApis \in Seq(RestApis)
      /\ it \in 1 .. Len(waitingRestApis)
      /\ Len(waitingRestApis) \in it .. Len(waitingRestApis)
  BY <1>1 DEF ServerInv, ServerTypeOK, IteratorInList
<1>3. /\ StillToCall = SubSeq(waitingRestApis, it, Len(waitingRestApis))
      /\ StillToCall' = SubSeq(waitingRestApis, it + 1, Len(waitingRestApis))
  BY <1>1 DEF StillToCall
<1>4. StillToCall' = Tail(StillToCall)
  BY <1>2, <1>3, HeadTailOfSubSeq
<1>5. StillToCall # << >>
  <2>1. \A i \in it .. Len(waitingRestApis) : waitingRestApis[i] \in RestApis
    BY <1>2
  <2>2. Len(StillToCall) = Len(waitingRestApis) - it + 1
    BY <1>2, <1>3, <2>1, SubSeqProperties
  <2> QED
    BY <1>2, <2>2
<1> QED
  BY <1>1, <1>4, <1>5

(* A loop ends when none is left.                                          *)
LEMMA EndFlushLeavesNone ==
  ASSUME ServerInv, EndFlush
  PROVE  /\ StillToCall = << >> /\ StillToCall' = << >>
         /\ flush # "none" /\ flush' = "none"
         /\ pendingReply' = NoReply /\ UNCHANGED currentTimeDelta
<1>1. /\ flush # "none" /\ flush' = "none"
      /\ it > Len(waitingRestApis)
      /\ waitingRestApis' = << >>
      /\ pendingReply' = NoReply
      /\ UNCHANGED currentTimeDelta
  BY DEF EndFlush, LoopDone, ListCleared
<1>2. StillToCall = << >>
  BY <1>1, StillToCallAtEnd
<1>3. StillToCall' = << >>
  BY <1>1, SubSeqEmpty DEF StillToCall
<1> QED
  BY <1>1, <1>2, <1>3
=============================================================================
