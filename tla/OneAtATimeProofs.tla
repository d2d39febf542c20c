-------------------------- MODULE OneAtATimeProofs --------------------------
(***************************************************************************)
(* Proofs about handlers that are asked one thing at a time, for every     *)
(* value of the other constants: OneAtATimeInv is an inductive invariant,  *)
(* and the handlers implement the safety part of Delivery.                 *)
(*                                                                         *)
(* OneAtATimeInv says the same of each handler and nothing of two of them; *)
(* Asked is what it says of one.  A step changes what concerns at most one *)
(* handler (OthersAsked), and the others keep their replies.               *)
(***************************************************************************)
EXTENDS HandlersProofs

(* What OneAtATimeInv says of h beyond HandlersInv, given what h has of    *)
(* the state: its reply, its posts without an outcome, the callbacks owed  *)
(* to it, its payload, its transmissions, its retries, and whether a call  *)
(* of timestampUpdated would come with a time delta accepted since.        *)
Asked(n, h, reply, posts, due, payload, transmissions, retries, renewed) ==
  /\ OnlyOpen(n, h, reply)
  /\ posts <= 1
  /\ due + Bit(reply) = posts
  /\ reply # NoReply =>
       /\ n.reply[reply].payload = payload
       /\ transmissions > 0
       /\ transmissions + retries = 2
  /\ due > 0 => transmissions + retries = 1
  /\ due > 0 => renewed
  /\ transmissions <= 2

-----------------------------------------------------------------------------
(* OneAtATimeInv and Asked                                                 *)

LEMMA AskedFacts ==
  ASSUME OneAtATimeInv
  PROVE  /\ HandlersInv /\ ServerInv /\ NetworkOK(net) /\ HandlersTypeOK
         /\ live \subseteq RestApis
         /\ \A h \in live :
              Asked(net, h, handlerReply[h], open[h], owed[h],
                    currentPayload[h], sent[h], handlerRetries[h],
                    flush = "updated" => fresh[h])
<1>1. /\ HandlersInv /\ ServerInv /\ NetworkOK(net) /\ HandlersTypeOK
      /\ live \subseteq RestApis
  BY HandlersInvFacts DEF OneAtATimeInv, HandlersTypeOK
<1> SUFFICES ASSUME NEW h \in live
             PROVE  Asked(net, h, handlerReply[h], open[h], owed[h],
                          currentPayload[h], sent[h], handlerRetries[h],
                          flush = "updated" => fresh[h])
  BY <1>1
<1>2. /\ Continuations(h) = owed[h] + Bit(handlerReply[h])
      /\ DueTo(h) # {} <=> owed[h] > 0
  BY <1>1, ContinuationsOwed
<1> QED
  BY <1>2 DEF OneAtATimeInv, OneContinuation, TransmissionsAccounted,
              FreshWhenCalledBack, Asked

(* And after a step                                                        *)
LEMMA AskedNext ==
  ASSUME HandlersInv',
         \A h \in live' :
           Asked(net', h, handlerReply'[h], open'[h], owed'[h],
                 currentPayload'[h], sent'[h], handlerRetries'[h],
                 flush' = "updated" => fresh'[h])
  PROVE  OneAtATimeInv'
<1>1. ServerInv' /\ live' \subseteq RestApis
  BY DEF HandlersInv, HandlersTypeOK
<1>2. \A h \in live' :
        /\ Continuations(h)' = owed'[h] + Bit(handlerReply'[h])
        /\ DueTo(h)' # {} <=> owed'[h] > 0
  BY <1>1, ContinuationsOwedNext
<1>3. OneContinuation'
  BY <1>2 DEF OneContinuation, Asked, OnlyOpen, Undelivered, Queued, Alive
<1>4. TransmissionsAccounted'
  BY <1>2 DEF TransmissionsAccounted, Asked
<1>5. FreshWhenCalledBack'
  BY DEF FreshWhenCalledBack, Asked
<1>6. \A h \in live' :
        OnlyOpen(net', h, handlerReply'[h]) /\ open'[h] <= 1
          /\ (handlerReply'[h] # NoReply => sent'[h] > 0)
  BY DEF Asked
<1> QED
  BY <1>3, <1>4, <1>5, <1>6
     DEF OneAtATimeInv, OnlyOpen, Undelivered, Queued, Alive

(* A step that concerns h alone                                            *)
LEMMA OthersAsked ==
  ASSUME OneAtATimeInv, HandlersInv', NEW h, live' \subseteq live,
         h \in live' =>
           Asked(net', h, handlerReply'[h], open'[h], owed'[h],
                 currentPayload'[h], sent'[h], handlerRetries'[h],
                 flush' = "updated" => fresh'[h]),
         \A a \in live' \ {h} :
           /\ handlerReply'[a] = handlerReply[a]
           /\ open'[a] = open[a]
           /\ owed'[a] = owed[a]
           /\ currentPayload'[a] = currentPayload[a]
           /\ sent'[a] = sent[a]
           /\ handlerRetries'[a] = handlerRetries[a]
           /\ (flush = "updated" => fresh[a])
                => (flush' = "updated" => fresh'[a])
           /\ Kept(net, net', a)
  PROVE  OneAtATimeInv'
<1> SUFFICES ASSUME NEW a \in live' \ {h}
             PROVE  Asked(net', a, handlerReply'[a], open'[a], owed'[a],
                          currentPayload'[a], sent'[a], handlerRetries'[a],
                          flush' = "updated" => fresh'[a])
  BY AskedNext
<1>1. Asked(net, a, handlerReply[a], open[a], owed[a], currentPayload[a],
            sent[a], handlerRetries[a], flush = "updated" => fresh[a])
  BY AskedFacts
<1>2. OnlyOpen(net', a, handlerReply[a])
  BY <1>1, KeptOpen DEF Asked
<1>3. handlerReply[a] # NoReply =>
        net'.reply[handlerReply[a]].payload
          = net.reply[handlerReply[a]].payload
  BY <1>1 DEF Asked, OnlyOpen, Kept, Same
<1> QED
  BY <1>1, <1>2, <1>3 DEF Asked

(* A step that concerns no handler                                         *)
LEMMA NobodyAsked ==
  ASSUME OneAtATimeInv, HandlersInv',
         UNCHANGED <<handlerReply, handlerRetries, currentPayload, live, open,
                     sent, owed>>,
         \A a \in live :
           (flush = "updated" => fresh[a])
             => (flush' = "updated" => fresh'[a]),
         \A a, p : OnlyOpen(net, a, p) =>
           /\ OnlyOpen(net', a, p)
           /\ p # NoReply => net'.reply[p].payload = net.reply[p].payload
  PROVE  OneAtATimeInv'
<1> SUFFICES ASSUME NEW a \in live'
             PROVE  Asked(net', a, handlerReply'[a], open'[a], owed'[a],
                          currentPayload'[a], sent'[a], handlerRetries'[a],
                          flush' = "updated" => fresh'[a])
  BY AskedNext
<1>1. Asked(net, a, handlerReply[a], open[a], owed[a], currentPayload[a],
            sent[a], handlerRetries[a], flush = "updated" => fresh[a])
  BY AskedFacts
<1> QED
  BY <1>1 DEF Asked

-----------------------------------------------------------------------------
(* Each operation keeps OneAtATimeInv.                                     *)

(* post, when the post before it has had its outcome                       *)
LEMMA PostKeepsOneAtATime ==
  ASSUME "overlap" \notin Liberties, OneAtATimeInv, HandlersInv',
         NEW h \in RestApis, NEW payload \in Payloads, Post(h, payload)
  PROVE  OneAtATimeInv'
<1>1. /\ h \in live /\ live' = live
      /\ open[h] = 0
      /\ handlerRetries' = [handlerRetries EXCEPT ![h] = 1]
      /\ currentPayload' = [currentPayload EXCEPT ![h] = payload]
      /\ open' = [open EXCEPT ![h] = @ + 1]
      /\ CheckTimestamp(h)
      /\ fresh' = fresh
  BY DEF Post, RetriesPerPost
<1>2. /\ HandlersInv /\ ServerInv /\ NetworkOK(net) /\ HandlersTypeOK
      /\ owed \in [RestApis -> Nat]
      /\ Asked(net, h, handlerReply[h], open[h], owed[h], currentPayload[h],
               sent[h], handlerRetries[h], flush = "updated" => fresh[h])
  BY <1>1, AskedFacts DEF ServerInv, ServerTypeOK
<1>3. /\ owed[h] = 0 /\ handlerReply[h] = NoReply
      /\ OnlyOpen(net, h, NoReply)
  BY <1>1, <1>2 DEF Asked, Bit
<1>4. /\ handlerRetries'[h] = 1 /\ currentPayload'[h] = payload
      /\ open'[h] = 1
      /\ flush = "none" /\ flush' = "none"
      /\ \A a \in live \ {h} :
           /\ handlerRetries'[a] = handlerRetries[a]
           /\ currentPayload'[a] = currentPayload[a]
           /\ open'[a] = open[a]
  BY <1>1, <1>2 DEF HandlersTypeOK, CheckTimestamp, RequestMutexFree
<1>5. CASE TimestampAccurate
  <2>1. TimestampUpdated(h, payload) /\ sent' = [sent EXCEPT ![h] = 1]
    BY <1>5 DEF Post
  <2>2. PICK p : /\ p # NoReply
                 /\ handlerReply' = [handlerReply EXCEPT ![h] = p]
                 /\ net'.reply[p].payload = payload
                 /\ OnlyOpen(net', h, p)
                 /\ \A o : o # h => Kept(net, net', o)
    BY <1>1, <1>2, <1>3, <2>1, TimestampUpdatedFacts
  <2>3. owed' = owed
    BY <1>1, <1>5 DEF CheckTimestamp, MustWait, TimestampAccurate
  <2>4. /\ handlerReply'[h] = p /\ sent'[h] = 1
        /\ \A a \in live \ {h} :
             handlerReply'[a] = handlerReply[a] /\ sent'[a] = sent[a]
    BY <1>1, <1>2, <2>1, <2>2 DEF HandlersTypeOK
  <2>5. Asked(net', h, p, 1, 0, payload, 1, 1, flush' = "updated" => fresh'[h])
    BY <2>2 DEF Asked, Bit
  <2> QED
    BY <1>1, <1>3, <1>4, <2>2, <2>3, <2>4, <2>5, OthersAsked
<1>6. CASE ~ TimestampAccurate
  <2>1. /\ sent' = [sent EXCEPT ![h] = 0]
        /\ UNCHANGED <<net, handlerReply>>
    BY <1>6 DEF Post
  <2>2. owed' = [owed EXCEPT ![h] = @ + 1]
    BY <1>1, <1>6 DEF CheckTimestamp, MustWait, TimestampAccurate, Wait
  <2>3. /\ owed'[h] = 1 /\ sent'[h] = 0
        /\ \A a \in live \ {h} : owed'[a] = owed[a] /\ sent'[a] = sent[a]
    BY <1>1, <1>2, <1>3, <2>1, <2>2 DEF HandlersTypeOK
  <2>4. Asked(net', h, NoReply, 1, 1, payload, 0, 1,
              flush' = "updated" => fresh'[h])
    BY <1>3, <1>4, <2>1 DEF Asked, Bit
  <2> QED
    BY <1>1, <1>3, <1>4, <2>1, <2>3, <2>4, KeptByAll, OthersAsked
<1> QED
  BY <1>5, <1>6

(* The slot of a handler reads the reply that emitted the signal.          *)
LEMMA HandlerSlotAsked ==
  ASSUME OneAtATimeInv, NEW h \in RestApis, SlotTriggered(h),
         handlerReply[h] # NoReply
  PROVE  /\ h \in live /\ flush = "none"
         /\ owed[h] = 0 /\ open[h] = 1
         /\ sent[h] > 0 /\ sent[h] + handlerRetries[h] = 2
         /\ NetworkOK(HandlerAfterRead(h))
         /\ OnlyOpen(HandlerAfterRead(h), h, NoReply)
         /\ \A o : o # h => Kept(net, HandlerAfterRead(h), o)
<1>1. /\ HandlersInv /\ NetworkOK(net) /\ owed[h] \in Nat
  BY AskedFacts DEF ServerInv, ServerTypeOK
<1>2. h \in live /\ flush = "none" /\ SlotReady(net, h)
  BY <1>1, HandlerSlotFacts DEF SlotTriggered
<1>3. Asked(net, h, handlerReply[h], open[h], owed[h], currentPayload[h],
            sent[h], handlerRetries[h], flush = "updated" => fresh[h])
  BY <1>2, AskedFacts
<1>4. /\ owed[h] = 0 /\ open[h] = 1
      /\ sent[h] > 0 /\ sent[h] + handlerRetries[h] = 2
      /\ OnlyOpen(net, h, handlerReply[h])
  <2>1. open[h] \in Nat
    BY AskedFacts, HandlersAssumption DEF HandlersTypeOK, HandlersAssumption
  <2> QED
    BY <1>1, <1>3, <2>1 DEF Asked, Bit
<1>5. /\ NetworkOK(HandlerAfterRead(h))
      /\ OnlyOpen(HandlerAfterRead(h), h, NoReply)
      /\ \A o : o # h => Kept(net, HandlerAfterRead(h), o)
  BY <1>1, <1>2, <1>4, SlotReads DEF HandlerAfterRead
<1> QED
  BY <1>2, <1>4, <1>5

(* The slot: a refused signature                                           *)
LEMMA RefusedKeepsOneAtATime ==
  ASSUME OneAtATimeInv, HandlersInv', NEW h \in RestApis,
         AuthenticationRefused(h)
  PROVE  OneAtATimeInv'
<1>1. /\ SlotTriggered(h)
      /\ handlerReply[h] # NoReply
      /\ handlerReply' = [handlerReply EXCEPT ![h] = NoReply]
      /\ handlerRetries' = [handlerRetries EXCEPT ![h] = @ - 1]
      /\ UpdateTimeDelta(h, HandlerAfterRead(h))
      /\ UNCHANGED <<currentPayload, live, open, sent>>
  BY DEF AuthenticationRefused, AsksForTimeDelta
<1>2. /\ h \in live /\ flush = "none"
      /\ owed[h] = 0 /\ open[h] = 1
      /\ sent[h] > 0 /\ sent[h] + handlerRetries[h] = 2
      /\ NetworkOK(HandlerAfterRead(h))
      /\ OnlyOpen(HandlerAfterRead(h), h, NoReply)
      /\ \A o : o # h => Kept(net, HandlerAfterRead(h), o)
  BY <1>1, HandlerSlotAsked
<1>3. /\ ServerInv /\ HandlersTypeOK /\ live \subseteq RestApis
      /\ owed \in [RestApis -> Nat]
  BY AskedFacts DEF ServerInv, ServerTypeOK
<1>4. \A o : o # ServerOwner => Kept(HandlerAfterRead(h), net', o)
  <2>1. Kept(net, HandlerAfterRead(h), ServerOwner)
    BY <1>2, OwnersDiffer
  <2> QED
    BY <1>1, <1>2, <1>3, <2>1, UpdateTimeDeltaKeepsInv
<1>5. OnlyOpen(net', h, NoReply)
  BY <1>2, <1>4, OwnersDiffer, KeptOpen
<1>6. owed' = [owed EXCEPT ![h] = @ + 1] /\ flush' = flush
  BY <1>1 DEF UpdateTimeDelta, Wait
<1>7. /\ owed'[h] = 1 /\ handlerReply'[h] = NoReply
      /\ handlerRetries'[h] = handlerRetries[h] - 1
      /\ sent'[h] + handlerRetries'[h] = 1 /\ sent'[h] <= 2
  BY <1>1, <1>2, <1>3, <1>6 DEF HandlersTypeOK
<1>8. Asked(net', h, handlerReply'[h], open'[h], owed'[h], currentPayload'[h],
            sent'[h], handlerRetries'[h], flush' = "updated" => fresh'[h])
  BY <1>1, <1>2, <1>5, <1>6, <1>7 DEF Asked, Bit
<1>9. \A a \in live \ {h} :
        /\ handlerReply'[a] = handlerReply[a]
        /\ handlerRetries'[a] = handlerRetries[a]
        /\ owed'[a] = owed[a]
        /\ Kept(net, net', a)
  <2> SUFFICES ASSUME NEW a \in live \ {h}
               PROVE  /\ handlerReply'[a] = handlerReply[a]
                      /\ handlerRetries'[a] = handlerRetries[a]
                      /\ owed'[a] = owed[a]
                      /\ Kept(net, net', a)
    OBVIOUS
  <2>1. a \in RestApis /\ a # ServerOwner /\ a # h
    BY <1>3, OwnersDiffer
  <2>2. Kept(net, net', a)
    BY <1>2, <1>4, <2>1, KeptThrough
  <2> QED
    BY <1>1, <1>3, <1>6, <2>1, <2>2 DEF HandlersTypeOK
<1> QED
  BY <1>1, <1>2, <1>6, <1>8, <1>9, OthersAsked

(* The slot: any other answer                                              *)
LEMMA ResponseKeepsOneAtATime ==
  ASSUME OneAtATimeInv, HandlersInv', NEW h \in RestApis, ResponseReceived(h)
  PROVE  OneAtATimeInv'
<1>1. /\ SlotTriggered(h)
      /\ handlerReply[h] # NoReply
      /\ net' = HandlerAfterRead(h)
      /\ handlerReply' = [handlerReply EXCEPT ![h] = NoReply]
      /\ open' = [open EXCEPT ![h] = @ - 1]
      /\ UNCHANGED <<flush, owed, handlerRetries, currentPayload, live, sent,
                     fresh>>
  BY DEF ResponseReceived, Report, serverVars
<1>2. /\ h \in live
      /\ owed[h] = 0 /\ open[h] = 1
      /\ sent[h] > 0 /\ sent[h] + handlerRetries[h] = 2
      /\ OnlyOpen(net', h, NoReply)
      /\ \A o : o # h => Kept(net, net', o)
  BY <1>1, HandlerSlotAsked
<1>3. HandlersTypeOK /\ live \subseteq RestApis
  BY AskedFacts
<1>4. /\ handlerReply'[h] = NoReply /\ open'[h] = 0
      /\ \A a \in live \ {h} :
           handlerReply'[a] = handlerReply[a] /\ open'[a] = open[a]
  BY <1>1, <1>2, <1>3 DEF HandlersTypeOK
<1>5. Asked(net', h, NoReply, 0, 0, currentPayload[h], sent[h],
            handlerRetries[h], flush' = "updated" => fresh'[h])
  BY <1>2, <1>3 DEF Asked, Bit, HandlersTypeOK
<1> QED
  BY <1>1, <1>2, <1>4, <1>5, OthersAsked

(* A handler that is called back has no reply, and its request is open.    *)
LEMMA CalledBackAsked ==
  ASSUME OneAtATimeInv, NEW h \in live, CallBack(h)
  PROVE  /\ owed[h] = 1 /\ owed'[h] = 0 /\ open[h] = 1
         /\ \A a \in live \ {h} : owed'[a] = owed[a]
         /\ handlerReply[h] = NoReply /\ PendingDropped(h) = net
         /\ OnlyOpen(net, h, NoReply)
         /\ sent[h] + handlerRetries[h] = 1
         /\ flush = "updated" => fresh[h]
         /\ sent[h] \in Nat /\ handlerRetries[h] \in Nat
         /\ flush' = flush
<1>1. /\ ServerInv /\ HandlersTypeOK
      /\ h \in RestApis /\ live \subseteq RestApis
      /\ Asked(net, h, handlerReply[h], open[h], owed[h], currentPayload[h],
               sent[h], handlerRetries[h], flush = "updated" => fresh[h])
  BY AskedFacts
<1>2. owed[h] \in Nat \ {0} /\ owed'[h] = owed[h] - 1
  BY <1>1, CallBackOwed
<1>3. open[h] \in Nat /\ sent[h] \in Nat /\ handlerRetries[h] \in Nat
  BY <1>1, HandlersAssumption DEF HandlersTypeOK, HandlersAssumption
<1>4. owed[h] = 1 /\ open[h] = 1 /\ handlerReply[h] = NoReply
  BY <1>1, <1>2, <1>3 DEF Asked, Bit
<1>5. flush' = flush /\ \A a \in live \ {h} : owed'[a] = owed[a]
  BY <1>1 DEF CallBack, ServerInv, ServerTypeOK
<1>6. /\ OnlyOpen(net, h, NoReply)
      /\ sent[h] + handlerRetries[h] = 1
      /\ flush = "updated" => fresh[h]
  BY <1>1, <1>2, <1>4 DEF Asked
<1> QED
  BY <1>2, <1>3, <1>4, <1>5, <1>6 DEF PendingDropped

(* timestampUpdated, called by the Server                                  *)
LEMMA UpdatedKeepsOneAtATime ==
  ASSUME OneAtATimeInv, HandlersInv', NEW h \in RestApis, CalledBackUpdated(h)
  PROVE  OneAtATimeInv'
<1>1. /\ h \in live
      /\ CallBack(h)
      /\ TimestampUpdated(h, currentPayload[h])
      /\ sent' = [sent EXCEPT ![h] = @ + 1]
      /\ UNCHANGED <<handlerRetries, currentPayload, live, open, fresh>>
  BY DEF CalledBackUpdated
<1>2. /\ owed[h] = 1 /\ owed'[h] = 0 /\ open[h] = 1
      /\ \A a \in live \ {h} : owed'[a] = owed[a]
      /\ handlerReply[h] = NoReply
      /\ OnlyOpen(net, h, NoReply)
      /\ sent[h] + handlerRetries[h] = 1
      /\ sent[h] \in Nat /\ handlerRetries[h] \in Nat
      /\ flush' = flush
  BY <1>1, CalledBackAsked
<1>3. HandlersInv /\ HandlersTypeOK /\ live \subseteq RestApis
  BY AskedFacts
<1>4. PICK p : /\ p # NoReply
               /\ handlerReply' = [handlerReply EXCEPT ![h] = p]
               /\ net'.reply[p].payload = currentPayload[h]
               /\ OnlyOpen(net', h, p)
               /\ \A o : o # h => Kept(net, net', o)
  BY <1>1, <1>2, <1>3, TimestampUpdatedFacts
<1>5. /\ handlerReply'[h] = p
      /\ sent'[h] = sent[h] + 1
      /\ \A a \in live \ {h} :
           /\ handlerReply'[a] = handlerReply[a] /\ sent'[a] = sent[a]
  BY <1>1, <1>3, <1>4 DEF HandlersTypeOK
<1>6. /\ sent'[h] > 0 /\ sent'[h] <= 2
      /\ sent'[h] + handlerRetries[h] = 2
  BY <1>2, <1>5
<1>7. Asked(net', h, p, 1, 0, currentPayload[h], sent'[h], handlerRetries[h],
            flush' = "updated" => fresh'[h])
  BY <1>4, <1>6 DEF Asked, Bit
<1> QED
  BY <1>1, <1>2, <1>4, <1>5, <1>7, OthersAsked

(* timestampUpdateFailed, called by the Server                             *)
LEMMA FailedKeepsOneAtATime ==
  ASSUME OneAtATimeInv, HandlersInv', NEW h \in RestApis, CalledBackFailed(h)
  PROVE  OneAtATimeInv'
<1>1. /\ h \in live
      /\ CallBack(h)
      /\ net' = PendingDropped(h)
      /\ handlerReply' = [handlerReply EXCEPT ![h] = NoReply]
      /\ open' = [open EXCEPT ![h] = @ - 1]
      /\ UNCHANGED <<handlerRetries, currentPayload, live, sent, fresh>>
  BY DEF CalledBackFailed, TimestampUpdateFailed, Report
<1>2. /\ owed'[h] = 0 /\ open[h] = 1
      /\ \A a \in live \ {h} : owed'[a] = owed[a]
      /\ net' = net
      /\ OnlyOpen(net', h, NoReply)
      /\ sent[h] + handlerRetries[h] = 1
      /\ sent[h] \in Nat /\ handlerRetries[h] \in Nat
      /\ flush' = flush
  BY <1>1, CalledBackAsked
<1>3. HandlersTypeOK /\ live \subseteq RestApis
  BY AskedFacts
<1>4. /\ handlerReply'[h] = NoReply /\ open'[h] = 0
      /\ \A a \in live \ {h} :
           handlerReply'[a] = handlerReply[a] /\ open'[a] = open[a]
  BY <1>1, <1>2, <1>3 DEF HandlersTypeOK
<1>5. Asked(net', h, NoReply, 0, 0, currentPayload[h], sent[h],
            handlerRetries[h], flush' = "updated" => fresh'[h])
  BY <1>2 DEF Asked, Bit
<1>6. \A a : Kept(net, net', a)
  BY <1>2, KeptByAll
<1> QED
  BY <1>1, <1>2, <1>4, <1>5, <1>6, OthersAsked

(* The destructor                                                          *)
LEMMA DestroyKeepsOneAtATime ==
  ASSUME OneAtATimeInv, HandlersInv', NEW h \in RestApis, Destroy(h)
  PROVE  OneAtATimeInv'
<1>1. /\ live' = live \ {h}
      /\ net' = WithoutOwner(net, h)
      /\ handlerReply' = [handlerReply EXCEPT ![h] = NoReply]
      /\ open' = [open EXCEPT ![h] = 0]
      /\ UNCHANGED <<flush, owed, handlerRetries, currentPayload, sent, fresh>>
  BY DEF Destroy, serverVars
<1>2. HandlersTypeOK /\ live \subseteq RestApis /\ NetworkOK(net)
  BY AskedFacts
<1>3. \A o : o # h => Kept(net, net', o)
  BY <1>1, <1>2, WithoutOwnerKeeps
<1>4. \A a \in live' \ {h} :
        handlerReply'[a] = handlerReply[a] /\ open'[a] = open[a]
  BY <1>1, <1>2 DEF HandlersTypeOK
<1> QED
  BY <1>1, <1>3, <1>4, OthersAsked

(* The thread is lost.                                                     *)
LEMMA CrashKeepsOneAtATime ==
  ASSUME OneAtATimeInv, HandlersInv', NEW h \in RestApis,
         CalledBackDead(h) \/ ResponseWithoutReply(h) \/ PostInSlot(h)
  PROVE  OneAtATimeInv'
<1>1. /\ UNCHANGED <<net, handlerReply, handlerRetries, currentPayload, live,
                     open, sent, fresh>>
      /\ \/ h \notin live /\ CallBack(h)
         \/ UNCHANGED <<flush, owed>>
  BY DEF CalledBackDead, ResponseWithoutReply, PostInSlot, histories,
         serverVars
<1>2. ServerInv /\ live \subseteq RestApis
  BY AskedFacts
<1>3. flush' = flush /\ \A a \in live : owed'[a] = owed[a]
  BY <1>1, <1>2 DEF CallBack, ServerInv, ServerTypeOK
<1>4. \A a : Kept(net, net', a)
  BY <1>1, KeptByAll
<1>5. CASE h \in live
  <2>1. Asked(net, h, handlerReply[h], open[h], owed[h], currentPayload[h],
              sent[h], handlerRetries[h], flush = "updated" => fresh[h])
    BY <1>5, AskedFacts
  <2> QED
    BY <1>1, <1>3, <1>4, <1>5, <2>1, OthersAsked
<1>6. CASE h \notin live
  BY <1>1, <1>3, <1>4, <1>6, OthersAsked
<1> QED
  BY <1>5, <1>6

(* The slot of the Server: the loop over those who wait begins when every  *)
(* handler has a fresh time delta.                                         *)
LEMMA ServerSlotKeepsOneAtATime ==
  ASSUME OneAtATimeInv, HandlersInv', ServerSlot
  PROVE  OneAtATimeInv'
<1>1. ServerInv /\ live \subseteq RestApis /\ ServerOwner \notin live
  BY AskedFacts, OwnersDiffer
<1>2. /\ UNCHANGED owed
      /\ \A o : o # ServerOwner => Kept(net, net', o)
      /\ \/ flush' \in {flush, "none", "failed"}
         \/ fresh' = [h \in RestApis |-> TRUE]
  <2>1. CASE RetryTimeDelta
    BY <1>1, <2>1, RetryKeepsInv DEF RetryTimeDelta
  <2>2. CASE TimeDeltaFailed
    BY <1>1, <2>2, OutcomeKeepsOthers DEF TimeDeltaFailed, BeginFlush
  <2>3. CASE EndFlush
    BY <2>3, KeptByAll DEF EndFlush
  <2>4. CASE TimeDeltaReceived
    BY <1>1, <2>4, OutcomeKeepsOthers DEF ServerSlot, RetryTimeDelta,
       TimeDeltaFailed, EndFlush, TimeDeltaReceived, SlotRuns, InEventLoop
  <2> QED
    BY <2>1, <2>2, <2>3, <2>4 DEF ServerSlot
<1>3. /\ UNCHANGED <<handlerReply, handlerRetries, currentPayload, live, open,
                     sent>>
      /\ fresh' = fresh \/ fresh' = [h \in RestApis |-> TRUE]
  BY DEF ServerSlot, handlerVars, histories
<1>4. \A a \in live :
        (flush = "updated" => fresh[a]) => (flush' = "updated" => fresh'[a])
  BY <1>1, <1>2, <1>3
<1> QED
  BY <1>1, <1>2, <1>3, <1>4, OthersAsked

(* The event loop and the network                                          *)
LEMMA NetworkKeepsOneAtATime ==
  ASSUME OneAtATimeInv, HandlersInv', UNCHANGED handlerVars,
         \/ RunDeferredDelete
         \/ ServerFinishes
         \/ \E h \in RestApis : HandlerFinishes(h)
  PROVE  OneAtATimeInv'
<1>1. NetworkOK(net)
  BY AskedFacts
<1>2. UNCHANGED serverVars
  BY DEF RunDeferredDelete, ServerFinishes, HandlerFinishes, FinishReply
<1>3. \A a, p : OnlyOpen(net, a, p) =>
        /\ OnlyOpen(net', a, p)
        /\ p # NoReply => net'.reply[p].payload = net.reply[p].payload
  <2>1. CASE RunDeferredDelete
    <3>1. DeleteReady(net) /\ net' = Deleted(net)
      BY <2>1 DEF RunDeferredDelete
    <3>2. \A a, p : OnlyOpen(net, a, p) => OnlyOpen(net', a, p)
      BY <1>1, <3>1, DeletedFrames
    <3>3. \A q \in Alive(net') : net'.reply[q] = net.reply[q]
      BY <1>1, <3>1, DeletedOK
    <3> QED
      BY <3>2, <3>3 DEF OnlyOpen
  <2>2. CASE ServerFinishes \/ \E h \in RestApis : HandlerFinishes(h)
    <3>1. PICK r, answer :
            r \in Alive(net) /\ CanFinish(net, r)
              /\ net' = Finished(net, r, answer)
      BY <2>2 DEF ServerFinishes, HandlerFinishes, FinishReply
    <3>2. \A a, p : OnlyOpen(net, a, p) => OnlyOpen(net', a, p)
      BY <1>1, <3>1, FinishedFrames
    <3>3. \A q \in Alive(net) : net'.reply[q].payload = net.reply[q].payload
      BY <1>1, <3>1, FinishedOK
    <3> QED
      BY <3>2, <3>3 DEF OnlyOpen
  <2> QED
    BY <2>1, <2>2
<1> QED
  BY <1>2, <1>3, NobodyAsked DEF handlerVars, histories, serverVars

-----------------------------------------------------------------------------
(* The invariant                                                           *)

LEMMA InitEstablishesOneAtATime == Init => OneAtATimeInv
<1> SUFFICES ASSUME Init PROVE OneAtATimeInv
  OBVIOUS
<1>1. HandlersInv /\ ServerInv
  BY InitEstablishesHandlersInv DEF HandlersInv
<1>2. /\ net = EmptyNetwork /\ Alive(net) = {}
      /\ live = RestApis /\ flush = "none"
  BY DEF Init, Server, EmptyNetwork, Alive
<1>3. \A h \in RestApis :
        handlerReply[h] = NoReply /\ owed[h] = 0 /\ open[h] = 0 /\ sent[h] = 0
  BY DEF Init, Server
<1>4. \A h \in RestApis : Continuations(h) = 0 /\ DueTo(h) = {}
  BY <1>1, <1>3, ContinuationsOwed DEF Bit
<1>5. \A h \in RestApis : OnlyOpen(net, h, NoReply)
  BY <1>2 DEF OnlyOpen
<1> QED
  BY <1>1, <1>2, <1>3, <1>4, <1>5
     DEF OneAtATimeInv, OneContinuation, TransmissionsAccounted,
         FreshWhenCalledBack

LEMMA NextKeepsOneAtATime ==
  ASSUME "overlap" \notin Liberties
  PROVE  OneAtATimeInv /\ [Next]_vars => OneAtATimeInv'
<1> SUFFICES ASSUME OneAtATimeInv, [Next]_vars PROVE OneAtATimeInv'
  OBVIOUS
<1>1. HandlersInv'
  BY AskedFacts, NextKeepsHandlersInv
<1>2. CASE ServerSlot
  BY <1>1, <1>2, ServerSlotKeepsOneAtATime
<1>3. ASSUME NEW h \in RestApis, HandlerSlot(h) PROVE OneAtATimeInv'
  BY <1>1, <1>3, RefusedKeepsOneAtATime, ResponseKeepsOneAtATime,
     UpdatedKeepsOneAtATime, FailedKeepsOneAtATime, CrashKeepsOneAtATime
     DEF HandlerSlot
<1>4. CASE RunDeferredDelete /\ UNCHANGED handlerVars
  BY <1>1, <1>4, NetworkKeepsOneAtATime
<1>5. CASE ServerFinishes
  BY <1>1, <1>5, NetworkKeepsOneAtATime DEF ServerFinishes
<1>6. ASSUME NEW h \in RestApis, HandlerFinishes(h) PROVE OneAtATimeInv'
  BY <1>1, <1>6, NetworkKeepsOneAtATime DEF HandlerFinishes
<1>7. ASSUME NEW h \in RestApis, Application(h) PROVE OneAtATimeInv'
  BY <1>1, <1>7, PostKeepsOneAtATime, CrashKeepsOneAtATime,
     DestroyKeepsOneAtATime DEF Application
<1>8. CASE UNCHANGED vars
  BY <1>1, <1>8, NobodyAsked DEF vars, serverVars, handlerVars, histories
<1> QED
  BY <1>2, <1>3, <1>4, <1>5, <1>6, <1>7, <1>8 DEF Next, ThreadRuns

(* When no handler is posted to before the outcome of its last post,       *)
(* OneAtATimeInv is an invariant, destroyed handlers or not.               *)
THEOREM OneAtATimeInvariance ==
  ASSUME "overlap" \notin Liberties
  PROVE  Spec => []OneAtATimeInv
<1>1. Init => OneAtATimeInv
  BY InitEstablishesOneAtATime
<1>2. OneAtATimeInv /\ [Next]_vars => OneAtATimeInv'
  BY NextKeepsOneAtATime
<1> QED
  BY <1>1, <1>2, PTL DEF Spec

(* A request is neither lost nor doubled: whatever the other handlers do,  *)
(* an open request waits for one reply to its own message or for one       *)
(* callback.                                                               *)
THEOREM RequestsAreNeitherLostNorDoubled ==
  ASSUME "overlap" \notin Liberties
  PROVE  Spec => []OneContinuation
<1>1. OneAtATimeInv => OneContinuation
  BY DEF OneAtATimeInv
<1> QED
  BY <1>1, OneAtATimeInvariance, PTL

(* responseReceived of a handler, which does not ask who emitted the       *)
(* signal, always reads the reply that did.                                *)
THEOREM HandlersReadTheRightReply ==
  ASSUME "overlap" \notin Liberties
  PROVE  Spec => []HandlerSlotReadsItsReply
<1>1. OneAtATimeInv => HandlerSlotReadsItsReply
  BY DEF OneAtATimeInv, HandlerSlotReadsItsReply, OnlyOpen, Undelivered
<1> QED
  BY <1>1, OneAtATimeInvariance, PTL

(* One retry: a message is transmitted at most twice.                      *)
THEOREM MessagesAreSentAtMostTwice ==
  ASSUME "overlap" \notin Liberties
  PROVE  Spec => []TransmissionsAccounted
<1>1. OneAtATimeInv => TransmissionsAccounted
  BY DEF OneAtATimeInv
<1> QED
  BY <1>1, OneAtATimeInvariance, PTL

-----------------------------------------------------------------------------
(* The time delta messages are signed with                                 *)

(* Only post and timestampUpdated give a handler another reply, since only *)
(* they send one.                                                          *)
LEMMA WhoSends ==
  ASSUME OneAtATimeInv, [Next]_vars, NEW h \in RestApis,
         handlerReply'[h] \notin {NoReply, handlerReply[h]}
  PROVE  \/ \E payload \in Payloads : Post(h, payload)
         \/ CalledBackUpdated(h)
<1>1. handlerReply \in [RestApis -> Alive(net) \cup {NoReply}]
  BY AskedFacts DEF HandlersTypeOK
<1>2. handlerReply' # handlerReply
  OBVIOUS
<1>3. ASSUME NEW a \in RestApis,
             \/ AuthenticationRefused(a)
             \/ ResponseReceived(a)
             \/ CalledBackFailed(a)
             \/ Destroy(a)
      PROVE  FALSE
  <2>1. handlerReply' = [handlerReply EXCEPT ![a] = NoReply]
    BY <1>3 DEF AuthenticationRefused, AsksForTimeDelta, ResponseReceived,
                CalledBackFailed, TimestampUpdateFailed, Destroy
  <2> QED
    BY <1>1, <2>1
<1>4. ASSUME NEW a \in RestApis,
             \/ \E payload \in Payloads : Post(a, payload)
             \/ CalledBackUpdated(a)
      PROVE  a = h
  <2>1. PICK p : \/ handlerReply' = [handlerReply EXCEPT ![a] = p]
                 \/ handlerReply' = handlerReply
    BY <1>4 DEF Post, CalledBackUpdated, TimestampUpdated
  <2> QED
    BY <1>1, <2>1
<1>5. /\ ~ ServerSlot /\ ~ ServerFinishes /\ ~ UNCHANGED handlerVars
      /\ ~ UNCHANGED vars
      /\ \A a \in RestApis :
           ~ HandlerFinishes(a) /\ ~ ResponseWithoutReply(a)
             /\ ~ CalledBackDead(a) /\ ~ PostInSlot(a)
  BY <1>2 DEF ServerSlot, ServerFinishes, HandlerFinishes, handlerVars, vars,
              ResponseWithoutReply, CalledBackDead, PostInSlot
<1> QED
  BY <1>3, <1>4, <1>5 DEF Next, ThreadRuns, HandlerSlot, Application

(* No message is signed while the time delta is being replaced, and the    *)
(* second transmission of a message uses one the Server accepted after it  *)
(* was refused: the refusal resets fresh, and only an update sets it.      *)
THEOREM SignedAfresh ==
  ASSUME "overlap" \notin Liberties
  PROVE  Spec => SignedWithTheMeasuredDelta
<1> DEFINE Signed ==
      \A h \in RestApis :
        handlerReply'[h] \notin {NoReply, handlerReply[h]} =>
          /\ pendingReply = NoReply \/ flush = "updated"
          /\ sent'[h] = 2 => fresh'[h]
<1>1. OneAtATimeInv /\ [Next]_vars => [Signed]_vars
  <2> SUFFICES ASSUME OneAtATimeInv, [Next]_vars, NEW h \in RestApis,
                      handlerReply'[h] \notin {NoReply, handlerReply[h]}
               PROVE  /\ pendingReply = NoReply \/ flush = "updated"
                      /\ sent'[h] = 2 => fresh'[h]
    OBVIOUS
  <2>1. ASSUME NEW payload \in Payloads, Post(h, payload)
        PROVE  pendingReply = NoReply /\ sent'[h] # 2
    <3>1. TimestampAccurate /\ sent' = [sent EXCEPT ![h] = 1]
      BY <2>1 DEF Post
    <3>2. sent \in [RestApis -> Nat]
      BY AskedFacts DEF HandlersTypeOK
    <3> QED
      BY <3>1, <3>2 DEF TimestampAccurate
  <2>2. CASE CalledBackUpdated(h)
    <3>1. flush = "updated" /\ h \in live /\ CallBack(h) /\ fresh' = fresh
      BY <2>2 DEF CalledBackUpdated
    <3> QED
      BY <3>1, CalledBackAsked
  <2> QED
    BY <2>1, <2>2, WhoSends
<1>2. Spec => [][Signed]_vars
  BY <1>1, OneAtATimeInvariance, PTL DEF Spec
<1> QED
  BY <1>2 DEF SignedWithTheMeasuredDelta

-----------------------------------------------------------------------------
(* The handlers implement Delivery.                                        *)

Messages == [h \in RestApis |-> Message(h)]

(* Only the message of h moves.                                            *)
LEMMA MessageMoves ==
  ASSUME NEW h \in RestApis, NEW m, Message(h)' = m,
         \A a \in RestApis \ {h} :
           /\ handlerReply'[a] = handlerReply[a]
           /\ open'[a] = open[a]
           /\ sent'[a] = sent[a]
  PROVE  Messages' = [Messages EXCEPT ![h] = m]
<1>1. \A a \in RestApis \ {h} : Message(a)' = Message(a)
  BY DEF Message
<1> QED
  BY <1>1 DEF Messages

(* No message moves.                                                       *)
LEMMA MessagesStay ==
  ASSUME UNCHANGED <<handlerReply, open, sent, report, live>>
  PROVE  UNCHANGED <<Messages, report, live>>
BY DEF Messages, Message

LEMMA PostIsPost ==
  ASSUME "overlap" \notin Liberties, OneAtATimeInv, NEW h \in RestApis,
         NEW payload \in Payloads, Post(h, payload)
  PROVE  Promised!Post(h)
<1>1. /\ h \in live /\ open[h] = 0
      /\ open' = [open EXCEPT ![h] = @ + 1]
      /\ report' = [report EXCEPT ![h] = "none"]
      /\ live' = live
  BY DEF Post
<1>2. /\ HandlersInv /\ HandlersTypeOK
      /\ owed[h] \in Nat
      /\ Asked(net, h, handlerReply[h], open[h], owed[h], currentPayload[h],
               sent[h], handlerRetries[h], flush = "updated" => fresh[h])
  BY <1>1, AskedFacts DEF ServerInv, ServerTypeOK
<1>3. handlerReply[h] = NoReply
  BY <1>1, <1>2 DEF Asked, Bit
<1>4. Message(h) = "none" /\ open'[h] = 1
  BY <1>1, <1>2 DEF Message, HandlersTypeOK
<1>5. PICK p : /\ handlerReply' = [handlerReply EXCEPT ![h] = p]
               /\ \/ p # NoReply /\ sent' = [sent EXCEPT ![h] = 1]
                  \/ p = NoReply /\ sent' = [sent EXCEPT ![h] = 0]
  <2>1. CASE TimestampAccurate
    <3>1. TimestampUpdated(h, payload) /\ sent' = [sent EXCEPT ![h] = 1]
      BY <2>1 DEF Post
    <3>2. PICK p : /\ p # NoReply
                   /\ handlerReply' = [handlerReply EXCEPT ![h] = p]
      BY <1>1, <1>2, <3>1, TimestampUpdatedFacts
    <3> QED
      BY <3>1, <3>2
  <2>2. CASE ~ TimestampAccurate
    <3>1. handlerReply' = handlerReply /\ sent' = [sent EXCEPT ![h] = 0]
      BY <2>2 DEF Post
    <3>2. handlerReply' = [handlerReply EXCEPT ![h] = NoReply]
      BY <1>2, <1>3, <3>1 DEF HandlersTypeOK
    <3> QED
      BY <3>1, <3>2
  <2> QED
    BY <2>1, <2>2
<1>6. Message(h)' \in {"waiting", "sent"}
  BY <1>2, <1>4, <1>5 DEF Message, HandlersTypeOK
<1>7. \A a \in RestApis \ {h} :
        /\ handlerReply'[a] = handlerReply[a]
        /\ open'[a] = open[a] /\ sent'[a] = sent[a]
  BY <1>1, <1>2, <1>5 DEF HandlersTypeOK
<1>8. Messages' = [Messages EXCEPT ![h] = Message(h)']
  BY <1>7, MessageMoves
<1> QED
  BY <1>1, <1>4, <1>6, <1>8 DEF Promised!Post, Messages

LEMMA RefusedIsRefuse ==
  ASSUME OneAtATimeInv, NEW h \in RestApis, AuthenticationRefused(h)
  PROVE  Promised!Refuse(h)
<1>1. /\ SlotTriggered(h)
      /\ handlerReply[h] # NoReply
      /\ handlerRetries[h] > 0
      /\ handlerReply' = [handlerReply EXCEPT ![h] = NoReply]
      /\ UNCHANGED <<open, sent, report, live>>
  BY DEF AuthenticationRefused, AsksForTimeDelta, Refused
<1>2. /\ open[h] = 1 /\ sent[h] > 0 /\ sent[h] + handlerRetries[h] = 2
      /\ HandlersTypeOK
  BY <1>1, HandlerSlotAsked, AskedFacts
<1>3. sent[h] = 1
  <2>1. sent[h] \in Nat /\ handlerRetries[h] \in Nat
    BY <1>2 DEF HandlersTypeOK
  <2> QED
    BY <1>1, <1>2, <2>1
<1>4. handlerReply'[h] = NoReply
  BY <1>1, <1>2 DEF HandlersTypeOK
<1>5. Message(h) = "sent" /\ Message(h)' = "refused"
  BY <1>1, <1>2, <1>3, <1>4 DEF Message
<1>6. Messages' = [Messages EXCEPT ![h] = "refused"]
  <2>1. \A a \in RestApis \ {h} : handlerReply'[a] = handlerReply[a]
    BY <1>1, <1>2 DEF HandlersTypeOK
  <2> QED
    BY <1>1, <1>5, <2>1, MessageMoves
<1> QED
  BY <1>1, <1>5, <1>6 DEF Promised!Refuse, Promised!Becomes, Messages

LEMMA ResponseIsAnswer ==
  ASSUME OneAtATimeInv, NEW h \in RestApis, ResponseReceived(h)
  PROVE  Promised!Answer(h)
<1>1. /\ SlotTriggered(h)
      /\ handlerReply[h] # NoReply
      /\ handlerReply' = [handlerReply EXCEPT ![h] = NoReply]
      /\ open' = [open EXCEPT ![h] = @ - 1]
      /\ report' = [report EXCEPT ![h] = Outcome(h, HandlerAnswer(h))]
      /\ UNCHANGED <<sent, live>>
  BY DEF ResponseReceived, Report
<1>2. open[h] = 1 /\ HandlersTypeOK /\ sent[h] > 0
  BY <1>1, HandlerSlotAsked, AskedFacts
<1>3. Outcome(h, HandlerAnswer(h)) \in {"response", "failure"}
  BY DEF Outcome, BinaryOutcome, JsonOutcome
<1>4. /\ open'[h] = 0
      /\ \A a \in RestApis \ {h} :
           handlerReply'[a] = handlerReply[a] /\ open'[a] = open[a]
  BY <1>1, <1>2 DEF HandlersTypeOK
<1>5. sent[h] # 0
  BY <1>2 DEF HandlersTypeOK
<1>6. Message(h) \in {"sent", "sent again"} /\ Message(h)' = "none"
  BY <1>1, <1>2, <1>4, <1>5 DEF Message
<1>7. Messages' = [Messages EXCEPT ![h] = "none"]
  <2>1. Message(h)' = "none" /\ \A a \in RestApis : sent'[a] = sent[a]
    BY <1>1, <1>6
  <2> QED
    BY <1>4, <2>1, MessageMoves
<1> QED
  BY <1>1, <1>3, <1>6, <1>7 DEF Promised!Answer, Promised!Ends, Messages

(* Where the message of a handler is that is called back                   *)
LEMMA CalledBackMessage ==
  ASSUME OneAtATimeInv, NEW h \in live, CallBack(h)
  PROVE  \/ sent[h] = 0 /\ Message(h) = "waiting"
         \/ sent[h] = 1 /\ Message(h) = "refused"
<1>1. /\ open[h] = 1 /\ handlerReply[h] = NoReply
      /\ sent[h] + handlerRetries[h] = 1
      /\ sent[h] \in Nat /\ handlerRetries[h] \in Nat
  BY CalledBackAsked
<1>2. sent[h] = 0 \/ sent[h] = 1
  BY <1>1
<1> QED
  BY <1>1, <1>2 DEF Message

LEMMA UpdatedIsSync ==
  ASSUME OneAtATimeInv, NEW h \in RestApis, CalledBackUpdated(h)
  PROVE  Promised!Sync(h)
<1>1. /\ h \in live
      /\ CallBack(h)
      /\ TimestampUpdated(h, currentPayload[h])
      /\ sent' = [sent EXCEPT ![h] = @ + 1]
      /\ UNCHANGED <<open, report, live>>
  BY DEF CalledBackUpdated
<1>2. /\ open[h] = 1 /\ HandlersInv /\ HandlersTypeOK
      /\ \/ sent[h] = 0 /\ Message(h) = "waiting"
         \/ sent[h] = 1 /\ Message(h) = "refused"
  BY <1>1, CalledBackAsked, CalledBackMessage, AskedFacts
<1>3. PICK p : p # NoReply /\ handlerReply' = [handlerReply EXCEPT ![h] = p]
  BY <1>1, <1>2, TimestampUpdatedFacts
<1>4. /\ handlerReply'[h] # NoReply /\ sent'[h] = sent[h] + 1 /\ open'[h] = 1
      /\ \A a \in RestApis \ {h} :
           handlerReply'[a] = handlerReply[a] /\ sent'[a] = sent[a]
  BY <1>1, <1>2, <1>3 DEF HandlersTypeOK
<1>5. \/ Message(h) = "waiting" /\ Message(h)' = "sent"
      \/ Message(h) = "refused" /\ Message(h)' = "sent again"
  BY <1>2, <1>4 DEF Message
<1>6. Messages' = [Messages EXCEPT ![h] = Message(h)']
  BY <1>1, <1>4, MessageMoves
<1> QED
  BY <1>1, <1>5, <1>6 DEF Promised!Sync, Promised!Becomes, Messages

LEMMA FailedIsSyncFails ==
  ASSUME OneAtATimeInv, NEW h \in RestApis, CalledBackFailed(h)
  PROVE  Promised!SyncFails(h)
<1>1. /\ h \in live
      /\ CallBack(h)
      /\ handlerReply' = [handlerReply EXCEPT ![h] = NoReply]
      /\ open' = [open EXCEPT ![h] = @ - 1]
      /\ report' = [report EXCEPT ![h] = "failure"]
      /\ UNCHANGED <<sent, live>>
  BY DEF CalledBackFailed, TimestampUpdateFailed, Report
<1>2. /\ open[h] = 1 /\ HandlersTypeOK
      /\ Message(h) \in {"waiting", "refused"}
  BY <1>1, CalledBackAsked, CalledBackMessage, AskedFacts
<1>3. /\ open'[h] = 0
      /\ \A a \in RestApis \ {h} :
           handlerReply'[a] = handlerReply[a] /\ open'[a] = open[a]
  BY <1>1, <1>2 DEF HandlersTypeOK
<1>4. Message(h)' = "none"
  BY <1>3 DEF Message
<1>5. Messages' = [Messages EXCEPT ![h] = "none"]
  BY <1>1, <1>3, <1>4, MessageMoves
<1> QED
  BY <1>1, <1>2, <1>5 DEF Promised!SyncFails, Promised!Ends, Messages

LEMMA DestroyIsDestroy ==
  ASSUME OneAtATimeInv, NEW h \in RestApis, Destroy(h)
  PROVE  Promised!Destroy(h)
<1>1. /\ h \in live /\ live' = live \ {h}
      /\ handlerReply' = [handlerReply EXCEPT ![h] = NoReply]
      /\ open' = [open EXCEPT ![h] = 0]
      /\ UNCHANGED <<sent, report>>
  BY DEF Destroy
<1>2. /\ open'[h] = 0
      /\ \A a \in RestApis \ {h} :
           handlerReply'[a] = handlerReply[a] /\ open'[a] = open[a]
  BY <1>1, AskedFacts DEF HandlersTypeOK
<1>3. Message(h)' = "none"
  BY <1>2 DEF Message
<1>4. Messages' = [Messages EXCEPT ![h] = "none"]
  BY <1>1, <1>2, <1>3, MessageMoves
<1> QED
  BY <1>1, <1>4 DEF Promised!Destroy, Messages

(* Every step is a step of Delivery or none.                               *)
LEMMA NextIsDelivery ==
  ASSUME "overlap" \notin Liberties, OneAtATimeInv, [Next]_vars
  PROVE  [Promised!Next]_(Promised!deliveryVars)
<1> USE DEF Promised!deliveryVars
<1>1. ASSUME UNCHANGED <<handlerReply, open, sent, report, live>>
      PROVE  [Promised!Next]_(Promised!deliveryVars)
  BY <1>1, MessagesStay DEF Messages
<1>2. CASE \/ ServerSlot
           \/ RunDeferredDelete /\ UNCHANGED handlerVars
           \/ ServerFinishes
           \/ UNCHANGED vars
  BY <1>1, <1>2 DEF ServerSlot, ServerFinishes, vars, handlerVars, histories
<1>3. ASSUME NEW h \in RestApis, HandlerFinishes(h) \/ HandlerSlot(h)
      PROVE  [Promised!Next]_(Promised!deliveryVars)
  <2>1. CASE \/ HandlerFinishes(h)
             \/ ResponseWithoutReply(h)
             \/ CalledBackDead(h)
    BY <1>1, <2>1
       DEF HandlerFinishes, ResponseWithoutReply, CalledBackDead, handlerVars,
           histories
  <2>2. CASE ~ (\/ HandlerFinishes(h)
                \/ ResponseWithoutReply(h)
                \/ CalledBackDead(h))
    <3>1. Promised!GoOn(h)
      BY <1>3, <2>2, RefusedIsRefuse, ResponseIsAnswer, UpdatedIsSync,
         FailedIsSyncFails DEF HandlerSlot, Promised!GoOn
    <3> QED
      BY <3>1 DEF Promised!Next
  <2> QED
    BY <2>1, <2>2
<1>4. ASSUME NEW h \in RestApis, Application(h)
      PROVE  [Promised!Next]_(Promised!deliveryVars)
  <2>1. CASE PostInSlot(h)
    BY <1>1, <2>1 DEF PostInSlot, histories
  <2> QED
    BY <1>4, <2>1, PostIsPost, DestroyIsDestroy DEF Application, Promised!Next
<1> QED
  BY <1>2, <1>3, <1>4 DEF Next, ThreadRuns

(* Handlers that are asked one thing at a time keep the safety part of     *)
(* their promise, whenever any of them is destroyed: each message is sent  *)
(* at once or after the update on its way, once more only after a refusal, *)
(* and has one outcome, unless its own handler is destroyed.  Posting in a *)
(* slot, or destroying who waits, may stop the thread, not break this.     *)
THEOREM HandlersImplementDelivery ==
  ASSUME "overlap" \notin Liberties
  PROVE  Spec => Promised!SafeSpec
<1>1. Init => Promised!Init
  <2> SUFFICES ASSUME Init PROVE Promised!Init
    OBVIOUS
  <2>1. \A h \in RestApis : Message(h) = "none"
    BY DEF Init, Message
  <2> QED
    BY <2>1 DEF Init, Promised!Init
<1>2. OneAtATimeInv /\ [Next]_vars => [Promised!Next]_(Promised!deliveryVars)
  BY NextIsDelivery
<1>3. Spec => []OneAtATimeInv
  BY OneAtATimeInvariance
<1> QED
  BY <1>1, <1>2, <1>3, PTL DEF Spec, Promised!SafeSpec

-----------------------------------------------------------------------------
(* Handlers that are used with care                                        *)

(* A step of one handler keeps the replies of the others, ...              *)
LEMMA HandlerStepKeepsOthers ==
  ASSUME HandlersInv, NEW h \in RestApis, HandlerSlot(h) \/ Application(h),
         NEW a \in RestApis \ {h}
  PROVE  Kept(net, net', a)
<1>1. /\ ServerInv /\ NetworkOK(net) /\ HandlersTypeOK
      /\ a # ServerOwner /\ h # ServerOwner
  BY HandlersInvFacts, OwnersDiffer
<1>2. ASSUME net' = net PROVE Kept(net, net', a)
  BY <1>2, KeptByAll
<1>3. ASSUME NEW payload, h \in live, TimestampUpdated(h, payload)
      PROVE  Kept(net, net', a)
  BY <1>3, TimestampUpdatedFacts
<1>4. CASE \E payload \in Payloads : Post(h, payload)
  BY <1>2, <1>3, <1>4 DEF Post
<1>5. CASE Destroy(h)
  BY <1>1, <1>5, WithoutOwnerKeeps DEF Destroy
<1>6. CASE AuthenticationRefused(h)
  <2>1. /\ SlotTriggered(h) /\ handlerReply[h] # NoReply
        /\ UpdateTimeDelta(h, HandlerAfterRead(h))
    BY <1>6 DEF AuthenticationRefused, AsksForTimeDelta
  <2>2. /\ NetworkOK(HandlerAfterRead(h))
        /\ \A o : o # h => Kept(net, HandlerAfterRead(h), o)
    BY <2>1, HandlerSlotFacts
  <2>3. Kept(HandlerAfterRead(h), net', a)
    BY <1>1, <2>1, <2>2, UpdateTimeDeltaKeepsInv
  <2> QED
    BY <2>2, <2>3, KeptThrough
<1>7. CASE ResponseReceived(h)
  BY <1>7, HandlerSlotFacts DEF ResponseReceived
<1>8. CASE CalledBackUpdated(h)
  BY <1>3, <1>8 DEF CalledBackUpdated
<1>9. CASE CalledBackFailed(h)
  BY <1>9, PendingDroppedFacts DEF CalledBackFailed, TimestampUpdateFailed
<1>10. CASE ResponseWithoutReply(h) \/ CalledBackDead(h) \/ PostInSlot(h)
  BY <1>2, <1>10 DEF ResponseWithoutReply, CalledBackDead, PostInSlot
<1> QED
  BY <1>4, <1>5, <1>6, <1>7, <1>8, <1>9, <1>10 DEF HandlerSlot, Application

(* ... and so do the others' steps, who leave an owner without an open     *)
(* reply as he is.                                                         *)
LEMMA OtherStepsOpenNone ==
  ASSUME HandlersInv, NEW a \in RestApis, OnlyOpen(net, a, NoReply),
         \/ ServerSlot
         \/ RunDeferredDelete
         \/ ServerFinishes
         \/ \E h \in RestApis : HandlerFinishes(h)
         \/ UNCHANGED vars
  PROVE  OnlyOpen(net', a, NoReply)
<1>1. ServerInv /\ NetworkOK(net) /\ a # ServerOwner
  BY HandlersInvFacts, OwnersDiffer
<1>2. CASE ServerSlot
  <2>1. Kept(net, net', a)
    BY <1>1, <1>2, RetryKeepsInv, OutcomeKeepsOthers, KeptByAll
       DEF ServerSlot, EndFlush
  <2> QED
    BY <2>1, KeptOpen
<1>3. CASE RunDeferredDelete
  BY <1>1, <1>3, DeletedFrames DEF RunDeferredDelete
<1>4. CASE ServerFinishes \/ \E h \in RestApis : HandlerFinishes(h)
  BY <1>1, <1>4, FinishedFrames
     DEF ServerFinishes, HandlerFinishes, FinishReply
<1>5. CASE UNCHANGED vars
  BY <1>5 DEF vars
<1> QED
  BY <1>2, <1>3, <1>4, <1>5

(* A handler that was destroyed has no reply that could call its slot.     *)
LEMMA DestroyedAreSilent ==
  ASSUME HandlersInv, [Next]_vars,
         \A h \in RestApis \ live : OnlyOpen(net, h, NoReply),
         NEW a \in RestApis \ live'
  PROVE  OnlyOpen(net', a, NoReply)
<1>1. NetworkOK(net)
  BY HandlersInvFacts
<1>2. ASSUME NEW h \in RestApis, h # a, HandlerSlot(h) \/ Application(h)
      PROVE  OnlyOpen(net', a, NoReply)
  <2>1. Kept(net, net', a)
    BY <1>2, HandlerStepKeepsOthers
  <2>2. a \notin live
    BY <1>2 DEF HandlerSlot, Application, AuthenticationRefused,
       ResponseReceived, ResponseWithoutReply, CalledBackUpdated,
       CalledBackFailed, CalledBackDead, Post, PostInSlot, Destroy
  <2> QED
    BY <2>1, <2>2, KeptOpen
<1>3. CASE \/ HandlerSlot(a)
           \/ \E payload \in Payloads : Post(a, payload)
           \/ PostInSlot(a)
  <2>1. live' = live /\ a \notin live
    BY <1>3 DEF HandlerSlot, AuthenticationRefused,
       ResponseReceived, ResponseWithoutReply, CalledBackUpdated,
       CalledBackFailed, CalledBackDead, Post, PostInSlot
  <2>2. ~ AuthenticationRefused(a) /\ ~ ResponseReceived(a)
    BY <2>1, HandlerSlotFacts DEF AuthenticationRefused, ResponseReceived
  <2>3. net' = net
    BY <1>3, <2>1, <2>2 DEF HandlerSlot, ResponseWithoutReply,
       CalledBackUpdated, CalledBackFailed, CalledBackDead, Post, PostInSlot
  <2> QED
    BY <2>1, <2>3
<1>4. CASE Destroy(a)
  <2>1. net' = WithoutOwner(net, a)
    BY <1>4 DEF Destroy
  <2>2. \A r \in Alive(net') : net'.reply[r].owner # a
    BY <1>1, <2>1, WithoutOwnerOK
  <2> QED
    BY <2>2 DEF OnlyOpen
<1>5. CASE \/ ServerSlot
           \/ RunDeferredDelete /\ UNCHANGED handlerVars
           \/ ServerFinishes
           \/ \E h \in RestApis : HandlerFinishes(h)
           \/ UNCHANGED vars
  <2>1. a \notin live
    BY <1>5 DEF ServerSlot, ServerFinishes, HandlerFinishes, handlerVars, vars
  <2> QED
    BY <1>5, <2>1, OtherStepsOpenNone
<1> QED
  BY <1>2, <1>3, <1>4, <1>5 DEF Next, ThreadRuns, Application

(* Handlers that are posted to one message at a time, outside of the loops *)
(* of the Server, and destroyed only when their posts have had an outcome  *)
(* or no callback is due to them: CarefulInv is an invariant.              *)
LEMMA NextKeepsCareful ==
  ASSUME Liberties \subseteq {"destroyIdle"}, CarefulInv, [Next]_vars,
         OneAtATimeInv', WaitingListHoldsInstances'
  PROVE  CarefulInv'
<1>1. \A h \in RestApis \ live' : OnlyOpen(net', h, NoReply)
  BY DestroyedAreSilent DEF CarefulInv, OneAtATimeInv
<1>2. \A h \in RestApis : OnlyOpen(net, h, handlerReply[h])
  BY HandlersInvFacts DEF CarefulInv, OneAtATimeInv
<1>3. NetworkOK(net)
  BY HandlersInvFacts DEF CarefulInv, OneAtATimeInv
<1>4. ASSUME NEW h \in RestApis, ResponseWithoutReply(h)
      PROVE  FALSE
  <2>1. SlotReady(net, h) /\ handlerReply[h] = NoReply
    BY <1>4 DEF ResponseWithoutReply, SlotTriggered
  <2> QED
    BY <1>2, <1>3, <2>1, SlotReads
<1>5. ASSUME NEW h \in RestApis, CalledBackDead(h)
      PROVE  FALSE
  <2>1. /\ h \notin live
        /\ flush # "none"
        /\ ~ (it > Len(waitingRestApis))
        /\ h = waitingRestApis[it]
    BY <1>5 DEF CalledBackDead, CallBack, LoopDone
  <2>2. /\ waitingRestApis \in Seq(RestApis)
        /\ it \in 1 .. Len(waitingRestApis) + 1
    BY <2>1 DEF CarefulInv, OneAtATimeInv, HandlersInv, ServerInv,
                ServerTypeOK, IteratorInList
  <2>3. it \in DOMAIN waitingRestApis
    BY <2>1, <2>2
  <2> QED
    BY <2>1, <2>3 DEF CarefulInv, WaitingListHoldsInstances
<1>6. thread' = thread
  <2>1. "repostInSlot" \notin Liberties
    OBVIOUS
  <2>2. ASSUME NEW h \in RestApis, HandlerSlot(h) \/ Application(h)
        PROVE  thread' = thread
    BY <1>4, <1>5, <2>1, <2>2
       DEF HandlerSlot, Application, AuthenticationRefused, ResponseReceived,
           CalledBackUpdated, CalledBackFailed, Post, PostInSlot, Destroy
  <2>3. CASE \/ ServerSlot
             \/ RunDeferredDelete /\ UNCHANGED handlerVars
             \/ ServerFinishes
             \/ \E h \in RestApis : HandlerFinishes(h)
             \/ UNCHANGED vars
    BY <2>3 DEF ServerSlot, ServerFinishes, HandlerFinishes, handlerVars, vars
  <2> QED
    BY <2>2, <2>3 DEF Next, ThreadRuns
<1> QED
  BY <1>1, <1>6 DEF CarefulInv, ThreadGoesOn

(* With such care the thread goes on forever: no slot reads a null         *)
(* pendingReply, no callback is made to a handler that was destroyed, and  *)
(* nobody waits for a mutex the thread holds.                              *)
THEOREM CarefulUseNeverStops ==
  ASSUME Liberties \subseteq {"destroyIdle"}
  PROVE  Spec => []ThreadGoesOn
<1>1. Spec => []OneAtATimeInv
  BY OneAtATimeInvariance
<1>2. Spec => []WaitingListHoldsInstances
  BY NobodyDeadWaits
<1>3. Init => ThreadGoesOn /\ \A h \in RestApis \ live :
                                  OnlyOpen(net, h, NoReply)
  BY DEF Init, ThreadGoesOn
<1>4. OneAtATimeInv /\ WaitingListHoldsInstances /\ Init => CarefulInv
  BY <1>3 DEF CarefulInv
<1>5. CarefulInv /\ [Next]_vars /\ OneAtATimeInv'
        /\ WaitingListHoldsInstances' => CarefulInv'
  BY NextKeepsCareful
<1>6. CarefulInv => ThreadGoesOn
  BY DEF CarefulInv
<1> QED
  BY <1>1, <1>2, <1>4, <1>5, <1>6, PTL DEF Spec

-----------------------------------------------------------------------------
(* The signal with the response                                            *)

(* Handlers whose posts do not overlap emit the signal of a response only  *)
(* for a reply that has finished without an error.                         *)
THEOREM ResponsesAreReceived ==
  ASSUME "overlap" \notin Liberties
  PROVE  Spec => ResponseSignalMeansResponse
<1> DEFINE Received ==
      \A h \in live \cap live' :
        open'[h] < open[h] /\ report'[h] = "response" =>
          /\ net.reply[handlerReply[h]].finished
          /\ net.reply[handlerReply[h]].answer.error = "NoError"
<1>1. OneAtATimeInv /\ [Next]_vars => [Received]_vars
  <2> SUFFICES ASSUME OneAtATimeInv, [Next]_vars, NEW h \in live \cap live',
                      open'[h] < open[h], report'[h] = "response"
               PROVE  /\ net.reply[handlerReply[h]].finished
                      /\ net.reply[handlerReply[h]].answer.error = "NoError"
    OBVIOUS
  <2>1. /\ HandlersInv /\ NetworkOK(net) /\ HandlersTypeOK
        /\ h \in RestApis /\ open[h] \in Nat /\ MaxOpen \in Nat
    BY AskedFacts, HandlersAssumption DEF HandlersAssumption, HandlersTypeOK
  <2>2. open' # open
    BY <2>1
  <2>3. ASSUME NEW a \in RestApis, ResponseReceived(a) \/ CalledBackFailed(a)
        PROVE  a = h /\ ResponseReceived(a)
    <3>1. PICK o : /\ open' = [open EXCEPT ![a] = @ - 1]
                   /\ report' = [report EXCEPT ![a] = o]
                   /\ ResponseReceived(a) \/ o = "failure"
      BY <2>3 DEF ResponseReceived, CalledBackFailed, TimestampUpdateFailed,
                  Report
    <3>2. a = h
      BY <2>1, <3>1 DEF HandlersTypeOK
    <3> QED
      BY <2>1, <3>1, <3>2 DEF HandlersTypeOK
  <2>4. ASSUME NEW a \in RestApis, Destroy(a)
        PROVE  FALSE
    <3>1. open' = [open EXCEPT ![a] = 0] /\ a \notin live'
      BY <2>4 DEF Destroy
    <3> QED
      BY <2>1, <3>1 DEF HandlersTypeOK
  <2>5. ASSUME NEW a \in RestApis, NEW payload \in Payloads, Post(a, payload)
        PROVE  FALSE
    <3>1. open' = [open EXCEPT ![a] = @ + 1]
      BY <2>5 DEF Post
    <3> QED
      BY <2>1, <3>1 DEF HandlersTypeOK
  <2>6. ResponseReceived(h)
    BY <2>2, <2>3, <2>4, <2>5
       DEF Next, ThreadRuns, HandlerSlot, Application, ServerSlot,
           AuthenticationRefused, ResponseWithoutReply, CalledBackUpdated,
           CalledBackDead, PostInSlot, ServerFinishes, HandlerFinishes,
           handlerVars, histories, vars
  <2>7. /\ SlotReady(net, h)
        /\ report' = [report EXCEPT ![h] = Outcome(h, HandlerAnswer(h))]
    BY <2>6 DEF ResponseReceived, SlotTriggered, Report
  <2>8. /\ HandlerAnswer(h) = net.reply[handlerReply[h]].answer
        /\ net.reply[handlerReply[h]].finished
    <3>1. OnlyOpen(net, h, handlerReply[h])
      BY AskedFacts DEF Asked
    <3> QED
      BY <2>1, <2>7, <3>1, SlotReads DEF HandlerAnswer
  <2>9. Outcome(h, HandlerAnswer(h)) = "response"
    BY <2>1, <2>7 DEF HandlersTypeOK
  <2>10. HandlerAnswer(h).error = "NoError"
    BY <2>9 DEF Outcome
  <2> QED
    BY <2>8, <2>10
<1>2. Spec => [][Received]_vars
  BY <1>1, OneAtATimeInvariance, PTL DEF Spec
<1> QED
  BY <1>2 DEF ResponseSignalMeansResponse
=============================================================================
