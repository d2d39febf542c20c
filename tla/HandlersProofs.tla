--------------------------- MODULE HandlersProofs ---------------------------
(***************************************************************************)
(* Proofs about the handlers and their Server, for every value of the      *)
(* constants: HandlersInv is an inductive invariant of any use, with posts *)
(* that overlap and handlers that are destroyed while they wait, and       *)
(* OneAtATimeInv one of every use in which posts do not overlap.           *)
(*                                                                         *)
(* What ServerLemmas says of the Server's operations is used as it stands: *)
(* the handlers keep the Server's replies.  In the same way each handler   *)
(* keeps the replies of the others, so a step of one handler can only      *)
(* disturb what the invariants say of that one.                            *)
(***************************************************************************)
EXTENDS RestHandlers, ServerLemmas

(* Whether h has a reply pending: 1 if so                                  *)
Bit(reply) == IF reply = NoReply THEN 0 ELSE 1

-----------------------------------------------------------------------------
(* Lemmas about the state                                                  *)

(* The number of things a handler waits for, by the count of callbacks     *)
(* that are owed.                                                          *)
LEMMA ContinuationsOwed ==
  ASSUME ServerInv, NEW h \in RestApis
  PROVE  /\ Continuations(h) = owed[h] + Bit(handlerReply[h])
         /\ owed[h] \in Nat
         /\ DueTo(h) # {} <=> owed[h] > 0
<1>1. owed[h] = Cardinality(DueTo(h)) /\ owed[h] \in Nat
  BY DEF ServerInv, ServerTypeOK, CallbacksAreDue
<1>2. IsFiniteSet(DueTo(h))
  BY DueIsFinite DEF ServerInv, ServerTypeOK
<1>3. Cardinality(DueTo(h)) = 0 <=> DueTo(h) = {}
  BY <1>2, FS_EmptySet
<1> QED
  BY <1>1, <1>3 DEF Continuations, Bit

(* The same of the state after a step                                      *)
LEMMA ContinuationsOwedNext ==
  ASSUME ServerInv', NEW h \in RestApis
  PROVE  /\ Continuations(h)' = owed'[h] + Bit(handlerReply'[h])
         /\ owed'[h] \in Nat
         /\ DueTo(h)' # {} <=> owed'[h] > 0
<1>1. owed'[h] = Cardinality(DueTo(h)') /\ owed'[h] \in Nat
  BY DEF ServerInv, ServerTypeOK, CallbacksAreDue
<1>2. IsFiniteSet(DueTo(h)')
  <2>1. waitingRestApis' \in Seq(RestApis)
    BY DEF ServerInv, ServerTypeOK
  <2>2. DueTo(h)' \in SUBSET (1 .. Len(waitingRestApis'))
    BY <2>1 DEF DueTo
  <2>3. IsFiniteSet(1 .. Len(waitingRestApis'))
    BY <2>1, FS_Interval
  <2> QED
    BY <2>2, <2>3, FS_Subset
<1>3. Cardinality(DueTo(h)') = 0 <=> DueTo(h)' = {}
  BY <1>2, FS_EmptySet
<1> QED
  BY <1>1, <1>3 DEF Continuations, Bit

(* The names of owners differ.                                             *)
LEMMA OwnersDiffer == \A h \in RestApis : h # ServerOwner
BY ServerAssumption DEF ServerAssumption

(* HandlersInv without its operators                                       *)
LEMMA HandlersInvFacts ==
  ASSUME HandlersInv
  PROVE  /\ ServerInv /\ NetworkOK(net)
         /\ HandlersTypeOK
         /\ \A h \in live : Held(net, h, handlerReply[h])
         /\ \A h \in RestApis \ live : handlerReply[h] = NoReply
         /\ \A h \in live : owed[h] + Bit(handlerReply[h]) <= open[h]
<1>1. ServerInv /\ NetworkOK(net) /\ HandlersTypeOK
  BY DEF HandlersInv, ServerInv
<1>2. live \subseteq RestApis
  BY <1>1 DEF HandlersTypeOK
<1>3. \A h \in live : owed[h] + Bit(handlerReply[h]) <= open[h]
  BY <1>1, <1>2, ContinuationsOwed DEF HandlersInv, NoOutcomeTwice
<1> QED
  BY <1>1, <1>2, <1>3 DEF HandlersInv, RepliesHeld

(* And of the state after a step                                           *)
LEMMA HandlersInvNext ==
  ASSUME ServerInv',
         handlerReply' \in [RestApis -> Alive(net') \cup {NoReply}],
         handlerRetries' \in [RestApis -> Nat],
         currentPayload' \in [RestApis -> Payloads \cup {NoPayload}],
         live' \subseteq RestApis,
         thread' \in {"running", "blocked", "crashed"},
         open' \in [RestApis -> 0 .. MaxOpen],
         report' \in [RestApis -> {"none", "response", "failure"}],
         sent' \in [RestApis -> Nat],
         fresh' \in [RestApis -> BOOLEAN],
         \A h \in live' : Held(net', h, handlerReply'[h]),
         \A h \in RestApis \ live' : handlerReply'[h] = NoReply,
         \A h \in live' : owed'[h] + Bit(handlerReply'[h]) <= open'[h]
  PROVE  HandlersInv'
<1>1. HandlersTypeOK'
  BY DEF HandlersTypeOK, Alive
<1>2. RepliesHeld'
  BY DEF RepliesHeld, Held, Queued, Alive
<1>3. NoOutcomeTwice'
  BY ContinuationsOwedNext DEF NoOutcomeTwice
<1> QED
  BY <1>1, <1>2, <1>3 DEF HandlersInv

(* A reply that is held is alive.                                          *)
LEMMA HeldAlive ==
  ASSUME NEW n, NEW h, NEW p, Held(n, h, p)
  PROVE  p \in Alive(n) \cup {NoReply}
BY DEF Held

-----------------------------------------------------------------------------
(* Steps that change nothing about the handlers, and steps of one handler  *)

(* The server's and the network's steps                                    *)
LEMMA NoHandlerMoves ==
  ASSUME HandlersInv, ServerInv',
         UNCHANGED <<handlerReply, handlerRetries, currentPayload, live, open,
                     report, sent>>,
         thread' \in {"running", "blocked", "crashed"},
         fresh' \in [RestApis -> BOOLEAN],
         \A h \in live : owed'[h] = owed[h],
         \A h \in live :
           Held(net, h, handlerReply[h]) => Held(net', h, handlerReply[h])
  PROVE  HandlersInv'
<1>1. /\ HandlersTypeOK
      /\ \A h \in live : Held(net, h, handlerReply[h])
      /\ \A h \in RestApis \ live : handlerReply[h] = NoReply
      /\ \A h \in live : owed[h] + Bit(handlerReply[h]) <= open[h]
  BY HandlersInvFacts
<1>2. handlerReply' \in [RestApis -> Alive(net') \cup {NoReply}]
  <2>1. \A h \in RestApis : handlerReply[h] \in Alive(net') \cup {NoReply}
    BY <1>1, HeldAlive
  <2>2. handlerReply' = [h \in RestApis |-> handlerReply[h]]
    BY <1>1 DEF HandlersTypeOK
  <2> QED
    BY <2>1, <2>2
<1> QED
  BY <1>1, <1>2, HandlersInvNext DEF HandlersTypeOK

(* A step of handler h, after which p is its reply                         *)
LEMMA OneHandlerMoves ==
  ASSUME HandlersInv, ServerInv', NEW h \in live, NEW p,
         handlerReply' = [handlerReply EXCEPT ![h] = p],
         Held(net', h, p),
         live' = live,
         thread' \in {"running", "blocked", "crashed"},
         handlerRetries' \in [RestApis -> Nat],
         currentPayload' \in [RestApis -> Payloads \cup {NoPayload}],
         open' \in [RestApis -> 0 .. MaxOpen],
         report' \in [RestApis -> {"none", "response", "failure"}],
         sent' \in [RestApis -> Nat],
         fresh' \in [RestApis -> BOOLEAN],
         owed'[h] + Bit(p) <= open'[h],
         \A a \in live \ {h} :
           /\ owed'[a] = owed[a] /\ open'[a] = open[a]
           /\ Held(net, a, handlerReply[a]) => Held(net', a, handlerReply[a])
  PROVE  HandlersInv'
<1>1. /\ HandlersTypeOK
      /\ \A a \in live : Held(net, a, handlerReply[a])
      /\ \A a \in RestApis \ live : handlerReply[a] = NoReply
      /\ \A a \in live : owed[a] + Bit(handlerReply[a]) <= open[a]
  BY HandlersInvFacts
<1>2. /\ live \subseteq RestApis
      /\ handlerReply'[h] = p
      /\ \A a \in RestApis \ {h} : handlerReply'[a] = handlerReply[a]
      /\ handlerReply' = [a \in RestApis |-> handlerReply'[a]]
  BY <1>1 DEF HandlersTypeOK
<1>3. \A a \in live' : Held(net', a, handlerReply'[a])
  BY <1>1, <1>2
<1>4. \A a \in RestApis \ live' : handlerReply'[a] = NoReply
  BY <1>1, <1>2
<1>5. handlerReply' \in [RestApis -> Alive(net') \cup {NoReply}]
  <2>1. \A a \in RestApis : handlerReply'[a] \in Alive(net') \cup {NoReply}
    BY <1>2, <1>3, <1>4, HeldAlive
  <2> QED
    BY <1>2, <2>1
<1>6. \A a \in live' : owed'[a] + Bit(handlerReply'[a]) <= open'[a]
  BY <1>1, <1>2
<1> QED
  BY <1>2, <1>3, <1>4, <1>5, <1>6, HandlersInvNext

-----------------------------------------------------------------------------
(* The operations of the handlers                                          *)

(* Dropping the reply a handler has pending, if any                        *)
LEMMA PendingDroppedFacts ==
  ASSUME HandlersInv, NEW h \in live
  PROVE  /\ NetworkOK(PendingDropped(h))
         /\ \A o : o # h => Kept(net, PendingDropped(h), o)
<1>1. NetworkOK(net) /\ Held(net, h, handlerReply[h])
  BY HandlersInvFacts
<1>2. CASE handlerReply[h] = NoReply
  BY <1>1, <1>2, KeptByAll DEF PendingDropped
<1>3. CASE handlerReply[h] # NoReply
  <2>1. PendingDropped(h) = DeleteLater(net, handlerReply[h])
    BY <1>3 DEF PendingDropped
  <2>2. handlerReply[h] \in Alive(net) /\ net.reply[handlerReply[h]].owner = h
    BY <1>1, <1>3 DEF Held
  <2> QED
    BY <1>1, <2>1, <2>2, DeleteLaterOK, DeleteLaterKeeps
<1> QED
  BY <1>2, <1>3

(* timestampUpdated leaves the handler with a reply of its own.            *)
LEMMA TimestampUpdatedFacts ==
  ASSUME HandlersInv, NEW h \in live, NEW payload, TimestampUpdated(h, payload)
  PROVE  \E p : /\ p # NoReply
                /\ handlerReply' = [handlerReply EXCEPT ![h] = p]
                /\ NetworkOK(net')
                /\ Held(net', h, p)
                /\ p \notin Alive(net)
                /\ p \in Alive(net') /\ net'.reply[p].payload = payload
                /\ handlerReply[h] = NoReply /\ OnlyOpen(net, h, NoReply)
                     => OnlyOpen(net', h, p)
                /\ \A o : o # h => Kept(net, net', o)
<1> DEFINE d == PendingDropped(h)
           p == NewReply(d)
<1>1. /\ net' = Posted(d, h, payload)
      /\ handlerReply' = [handlerReply EXCEPT ![h] = p]
  BY DEF TimestampUpdated
<1>2. /\ NetworkOK(net)
      /\ NetworkOK(d)
      /\ \A o : o # h => Kept(net, d, o)
  BY HandlersInvFacts, PendingDroppedFacts
<1>3. Alive(d) = Alive(net) /\ (handlerReply[h] = NoReply => d = net)
  <2>1. Held(net, h, handlerReply[h])
    BY HandlersInvFacts
  <2>2. CASE handlerReply[h] = NoReply
    BY <2>2 DEF PendingDropped
  <2>3. CASE handlerReply[h] # NoReply
    BY <1>2, <2>1, <2>3, DeleteLaterOK DEF PendingDropped, Held
  <2> QED
    BY <2>2, <2>3
<1> HIDE DEF d
<1>4. /\ NetworkOK(net')
      /\ Alive(net') = Alive(d) \cup {p}
      /\ p \in Nat \ {NoReply} /\ p \notin Alive(d)
      /\ net'.reply[p] = [owner |-> h, payload |-> payload,
                          finished |-> FALSE, answer |-> NothingRead]
  BY <1>1, <1>2, PostedOK
<1>5. Held(net', h, p) /\ \A o : o # h => Kept(d, net', o)
  BY <1>1, <1>2, PostedHeld, PostedKeeps
<1>6. \A o : o # h => Kept(net, net', o)
  BY <1>2, <1>5, KeptThrough
<1>7. handlerReply[h] = NoReply /\ OnlyOpen(net, h, NoReply)
        => OnlyOpen(net', h, p)
  BY <1>1, <1>2, <1>3, PostedOpen
<1> HIDE DEF p
<1>8. net'.reply[p].payload = payload
  BY <1>4
<1> QED
  BY <1>1, <1>3, <1>4, <1>5, <1>6, <1>7, <1>8

(* A slot of a handler that has a reply pending drops that.                *)
LEMMA HandlerSlotFacts ==
  ASSUME HandlersInv, NEW h \in RestApis, SlotTriggered(h),
         handlerReply[h] # NoReply
  PROVE  /\ h \in live
         /\ flush = "none"
         /\ NetworkOK(HandlerAfterRead(h))
         /\ \A o : o # h => Kept(net, HandlerAfterRead(h), o)
         /\ open[h] \in 1 .. MaxOpen
         /\ owed[h] + 1 <= open[h]
<1>1. /\ h \in live
      /\ NetworkOK(net)
      /\ Held(net, h, handlerReply[h])
      /\ owed[h] + Bit(handlerReply[h]) <= open[h]
      /\ open[h] \in 0 .. MaxOpen
      /\ owed[h] \in Nat
  BY HandlersInvFacts DEF HandlersTypeOK, ServerInv, ServerTypeOK
<1>2. flush = "none" /\ SlotReady(net, h)
  BY DEF SlotTriggered, InEventLoop
<1>3. /\ NetworkOK(HandlerAfterRead(h))
      /\ \A o : o # h => Kept(net, HandlerAfterRead(h), o)
  BY <1>1, <1>2, SlotDrops DEF HandlerAfterRead
<1>4. owed[h] + 1 <= open[h] /\ open[h] \in 1 .. MaxOpen
  BY <1>1, HandlersAssumption DEF Bit, HandlersAssumption
<1> QED
  BY <1>1, <1>2, <1>3, <1>4

(* What is kept is held, for all others at once.                           *)
LEMMA OthersHeld ==
  ASSUME NEW m, NEW h, \A o : o # h => Kept(net, m, o)
  PROVE  \A a \in live \ {h} :
           Held(net, a, handlerReply[a]) => Held(m, a, handlerReply[a])
BY KeptOpen

(* A callback is made to somebody who was registered.                      *)
LEMMA CallBackOwed ==
  ASSUME ServerInv, NEW h \in RestApis, CallBack(h)
  PROVE  owed[h] \in Nat \ {0} /\ owed'[h] = owed[h] - 1
<1>1. it \in DueTo(h)
  <2>1. /\ waitingRestApis \in Seq(RestApis) /\ flush # "none"
        /\ IteratorInList
        /\ ~ (it > Len(waitingRestApis))
        /\ h = waitingRestApis[it]
    BY DEF ServerInv, ServerTypeOK, CallBack, LoopDone
  <2>2. it \in 1 .. Len(waitingRestApis)
    BY <2>1 DEF IteratorInList
  <2> QED
    BY <2>1, <2>2 DEF DueTo
<1>2. owed[h] > 0 /\ owed[h] \in Nat
  BY <1>1, ContinuationsOwed
<1>3. owed \in [RestApis -> Nat] /\ owed' = [owed EXCEPT ![h] = @ - 1]
  BY DEF ServerInv, ServerTypeOK, CallBack
<1> QED
  BY <1>2, <1>3

-----------------------------------------------------------------------------
(* HandlersInv holds at first ...                                          *)

LEMMA InitEstablishesHandlersInv == Init => HandlersInv
<1> SUFFICES ASSUME Init PROVE HandlersInv
  OBVIOUS
<1>1. ServerInv
  BY ServerEstablishesInv DEF Init
<1>2. HandlersTypeOK
  <2>1. Uninitialized \subseteq Nat /\ MaxOpen \in Nat
    BY ServerAssumption, HandlersAssumption
       DEF ServerAssumption, HandlersAssumption
  <2>2. handlerRetries \in [RestApis -> Nat]
    BY <2>1 DEF Init
  <2>3. /\ handlerReply \in [RestApis -> Alive(net) \cup {NoReply}]
        /\ currentPayload \in [RestApis -> Payloads \cup {NoPayload}]
        /\ live \subseteq RestApis
        /\ thread \in {"running", "blocked", "crashed"}
    BY DEF Init
  <2>4. /\ open \in [RestApis -> 0 .. MaxOpen]
        /\ report \in [RestApis -> {"none", "response", "failure"}]
        /\ sent \in [RestApis -> Nat]
        /\ fresh \in [RestApis -> BOOLEAN]
    BY <2>1 DEF Init
  <2> QED
    BY <2>2, <2>3, <2>4 DEF HandlersTypeOK
<1>3. RepliesHeld
  BY DEF Init, RepliesHeld, Held
<1>4. NoOutcomeTwice
  <2>1. \A h \in RestApis : owed[h] = 0 /\ Bit(handlerReply[h]) = 0
    BY DEF Init, Server, Bit
  <2>2. \A h \in RestApis : open[h] = 0
    BY DEF Init
  <2>3. \A h \in RestApis : Continuations(h) = 0
    BY <1>1, <2>1, ContinuationsOwed
  <2>4. live = RestApis
    BY DEF Init
  <2> QED
    BY <2>2, <2>3, <2>4 DEF NoOutcomeTwice
<1> QED
  BY <1>1, <1>2, <1>3, <1>4 DEF HandlersInv

-----------------------------------------------------------------------------
(* ... and every step keeps it.                                            *)

(* post                                                                    *)
LEMMA PostKeepsHandlersInv ==
  ASSUME HandlersInv, NEW h \in RestApis, NEW payload \in Payloads,
         Post(h, payload)
  PROVE  HandlersInv'
<1> USE HandlersAssumption DEF HandlersAssumption
<1>1. /\ h \in live
      /\ open[h] < MaxOpen
      /\ handlerRetries' = [handlerRetries EXCEPT ![h] = 1]
      /\ currentPayload' = [currentPayload EXCEPT ![h] = payload]
      /\ open' = [open EXCEPT ![h] = @ + 1]
      /\ report' = [report EXCEPT ![h] = "none"]
      /\ CheckTimestamp(h)
      /\ UNCHANGED <<live, thread, fresh>>
  BY DEF Post, RetriesPerPost
<1>2. /\ ServerInv /\ NetworkOK(net)
      /\ HandlersTypeOK
      /\ Held(net, h, handlerReply[h])
      /\ owed[h] + Bit(handlerReply[h]) <= open[h]
      /\ owed \in [RestApis -> Nat]
  BY <1>1, HandlersInvFacts DEF ServerInv, ServerTypeOK
<1>3. /\ handlerRetries' \in [RestApis -> Nat]
      /\ currentPayload' \in [RestApis -> Payloads \cup {NoPayload}]
      /\ open' \in [RestApis -> 0 .. MaxOpen]
      /\ report' \in [RestApis -> {"none", "response", "failure"}]
      /\ thread' \in {"running", "blocked", "crashed"}
      /\ open'[h] = open[h] + 1 /\ open[h] \in Nat
      /\ \A a \in live \ {h} : open'[a] = open[a]
  BY <1>1, <1>2 DEF HandlersTypeOK
<1>4. CASE TimestampAccurate
  <2>1. TimestampUpdated(h, payload) /\ sent' = [sent EXCEPT ![h] = 1]
    BY <1>4 DEF Post
  <2>2. PICK p : /\ p # NoReply
                 /\ handlerReply' = [handlerReply EXCEPT ![h] = p]
                 /\ NetworkOK(net')
                 /\ Held(net', h, p)
                 /\ \A o : o # h => Kept(net, net', o)
    BY <1>1, <2>1, TimestampUpdatedFacts
  <2>3. ServerInv'
    BY <1>1, <1>2, <2>2, OwnersDiffer, CheckTimestampKeepsInv
  <2>4. owed' = owed
    BY <1>1, <1>4 DEF CheckTimestamp, MustWait, TimestampAccurate
  <2>5. sent' \in [RestApis -> Nat] /\ fresh' \in [RestApis -> BOOLEAN]
    BY <1>1, <1>2, <2>1 DEF HandlersTypeOK
  <2>6. owed'[h] + Bit(p) <= open'[h]
    BY <1>2, <1>3, <2>4 DEF Bit
  <2>7. \A a \in live \ {h} :
          /\ owed'[a] = owed[a] /\ open'[a] = open[a]
          /\ Held(net, a, handlerReply[a]) => Held(net', a, handlerReply[a])
    BY <1>3, <2>2, <2>4, OthersHeld
  <2> QED
    BY <1>1, <1>3, <2>2, <2>3, <2>5, <2>6, <2>7, OneHandlerMoves
<1>5. CASE ~ TimestampAccurate
  <2>1. /\ sent' = [sent EXCEPT ![h] = 0]
        /\ UNCHANGED <<net, handlerReply>>
    BY <1>5 DEF Post
  <2>2. ServerInv'
    <3>1. NetworkOK(net') /\ Kept(net, net', ServerOwner)
      BY <1>2, <2>1, KeptByAll
    <3> QED
      BY <1>1, <1>2, <3>1, CheckTimestampKeepsInv
  <2>3. owed' = [owed EXCEPT ![h] = @ + 1]
    BY <1>1, <1>5 DEF CheckTimestamp, MustWait, TimestampAccurate, Wait
  <2>4. sent' \in [RestApis -> Nat] /\ fresh' \in [RestApis -> BOOLEAN]
    BY <1>1, <1>2, <2>1 DEF HandlersTypeOK
  <2>5. owed'[h] + Bit(handlerReply[h]) <= open'[h]
    BY <1>2, <1>3, <2>3 DEF Bit
  <2>6. handlerReply' = [handlerReply EXCEPT ![h] = handlerReply[h]]
    BY <1>2, <2>1 DEF HandlersTypeOK
  <2>7. live \subseteq RestApis
    BY <1>2 DEF HandlersTypeOK
  <2>8. \A a \in live \ {h} :
          /\ owed'[a] = owed[a] /\ open'[a] = open[a]
          /\ Held(net, a, handlerReply[a]) => Held(net', a, handlerReply[a])
    BY <1>2, <1>3, <2>1, <2>3, <2>7
  <2>9. Held(net', h, handlerReply[h])
    BY <1>2, <2>1
  <2> QED
    BY <1>1, <1>3, <2>2, <2>4, <2>5, <2>6, <2>8, <2>9, OneHandlerMoves
<1> QED
  BY <1>4, <1>5

(* The slot: a refused signature                                           *)
LEMMA RefusedKeepsHandlersInv ==
  ASSUME HandlersInv, NEW h \in RestApis, AuthenticationRefused(h)
  PROVE  HandlersInv'
<1>1. /\ SlotTriggered(h)
      /\ handlerReply[h] # NoReply
      /\ handlerRetries[h] > 0
      /\ handlerReply' = [handlerReply EXCEPT ![h] = NoReply]
      /\ handlerRetries' = [handlerRetries EXCEPT ![h] = @ - 1]
      /\ UpdateTimeDelta(h, HandlerAfterRead(h))
      /\ fresh' = [fresh EXCEPT ![h] = FALSE]
      /\ UNCHANGED <<currentPayload, live, thread, open, report, sent>>
  BY DEF AuthenticationRefused, Refused, AsksForTimeDelta
<1>2. /\ h \in live
      /\ NetworkOK(HandlerAfterRead(h))
      /\ \A o : o # h => Kept(net, HandlerAfterRead(h), o)
      /\ owed[h] + 1 <= open[h]
  BY <1>1, HandlerSlotFacts
<1>3. ServerInv /\ HandlersTypeOK /\ owed \in [RestApis -> Nat]
  BY HandlersInvFacts DEF ServerInv, ServerTypeOK
<1>4. /\ ServerInv'
      /\ \A o : o # ServerOwner => Kept(HandlerAfterRead(h), net', o)
  <2>1. Kept(net, HandlerAfterRead(h), ServerOwner)
    BY <1>2, OwnersDiffer
  <2> QED
    BY <1>1, <1>2, <1>3, <2>1, UpdateTimeDeltaKeepsInv
<1>5. owed' = [owed EXCEPT ![h] = @ + 1]
  BY <1>1 DEF UpdateTimeDelta, Wait
<1>6. \A a \in live \ {h} :
        /\ owed'[a] = owed[a] /\ open'[a] = open[a]
        /\ Held(net, a, handlerReply[a]) => Held(net', a, handlerReply[a])
  <2> SUFFICES ASSUME NEW a \in live \ {h}
               PROVE  /\ owed'[a] = owed[a] /\ open'[a] = open[a]
                      /\ Kept(net, net', a)
    BY KeptOpen
  <2>1. a \in RestApis /\ a # ServerOwner
    BY <1>3, OwnersDiffer DEF HandlersTypeOK
  <2>2. Kept(net, net', a)
    BY <1>2, <1>4, <2>1, KeptThrough
  <2> QED
    BY <1>1, <1>3, <1>5, <2>1, <2>2
<1>7. owed'[h] + Bit(NoReply) <= open'[h]
  BY <1>1, <1>2, <1>3, <1>5 DEF Bit
<1>8. /\ handlerRetries' \in [RestApis -> Nat]
      /\ fresh' \in [RestApis -> BOOLEAN]
  BY <1>1, <1>3 DEF HandlersTypeOK
<1>9. Held(net', h, NoReply)
  BY DEF Held
<1> QED
  BY <1>1, <1>2, <1>3, <1>4, <1>6, <1>7, <1>8, <1>9, OneHandlerMoves
     DEF HandlersTypeOK

(* An outcome is reported.                                                 *)
LEMMA ReportOK ==
  ASSUME HandlersTypeOK, NEW h \in live, open[h] # 0,
         NEW outcome \in {"response", "failure"}, Report(h, outcome)
  PROVE  /\ open' \in [RestApis -> 0 .. MaxOpen]
         /\ report' \in [RestApis -> {"none", "response", "failure"}]
         /\ open'[h] = open[h] - 1
         /\ \A a \in live \ {h} : open'[a] = open[a] /\ report'[a] = report[a]
         /\ report'[h] = outcome
BY HandlersAssumption DEF HandlersAssumption, HandlersTypeOK, Report

(* The slot: any other answer                                              *)
LEMMA ResponseKeepsHandlersInv ==
  ASSUME HandlersInv, NEW h \in RestApis, ResponseReceived(h)
  PROVE  HandlersInv'
<1>1. /\ SlotTriggered(h)
      /\ handlerReply[h] # NoReply
      /\ net' = HandlerAfterRead(h)
      /\ handlerReply' = [handlerReply EXCEPT ![h] = NoReply]
      /\ Report(h, Outcome(h, HandlerAnswer(h)))
      /\ UNCHANGED <<serverVars, handlerRetries, currentPayload, live, thread,
                     sent, fresh>>
  BY DEF ResponseReceived
<1>2. /\ h \in live
      /\ NetworkOK(net')
      /\ \A o : o # h => Kept(net, net', o)
      /\ owed[h] + 1 <= open[h]
      /\ open[h] \in 1 .. MaxOpen
  BY <1>1, HandlerSlotFacts
<1>3. ServerInv /\ HandlersTypeOK /\ owed \in [RestApis -> Nat]
  BY HandlersInvFacts DEF ServerInv, ServerTypeOK
<1>4. ServerInv' /\ owed' = owed
  BY <1>1, <1>2, <1>3, OwnersDiffer, OthersKeepInv DEF serverVars
<1>5. Outcome(h, HandlerAnswer(h)) \in {"response", "failure"}
  BY DEF Outcome, BinaryOutcome, JsonOutcome
<1>6. /\ open' \in [RestApis -> 0 .. MaxOpen]
      /\ report' \in [RestApis -> {"none", "response", "failure"}]
      /\ open'[h] = open[h] - 1
      /\ \A a \in live \ {h} : open'[a] = open[a]
  BY <1>1, <1>2, <1>3, <1>5, ReportOK
<1>7. owed'[h] + Bit(NoReply) <= open'[h]
  BY <1>2, <1>3, <1>4, <1>6, HandlersAssumption DEF Bit, HandlersAssumption
<1>8. Held(net', h, NoReply)
  BY DEF Held
<1>9. \A a \in live \ {h} :
        /\ owed'[a] = owed[a] /\ open'[a] = open[a]
        /\ Held(net, a, handlerReply[a]) => Held(net', a, handlerReply[a])
  BY <1>2, <1>4, <1>6, OthersHeld
<1> QED
  BY <1>1, <1>2, <1>3, <1>4, <1>6, <1>7, <1>8, <1>9, OneHandlerMoves
     DEF HandlersTypeOK

(* timestampUpdated, called by the Server                                  *)
LEMMA UpdatedKeepsHandlersInv ==
  ASSUME HandlersInv, NEW h \in RestApis, CalledBackUpdated(h)
  PROVE  HandlersInv'
<1>1. /\ h \in live
      /\ CallBack(h)
      /\ TimestampUpdated(h, currentPayload[h])
      /\ sent' = [sent EXCEPT ![h] = @ + 1]
      /\ UNCHANGED <<handlerRetries, currentPayload, live, thread, open,
                     report, fresh>>
  BY DEF CalledBackUpdated
<1>2. /\ ServerInv /\ HandlersTypeOK
      /\ owed[h] + Bit(handlerReply[h]) <= open[h]
      /\ owed \in [RestApis -> Nat]
  BY <1>1, HandlersInvFacts DEF ServerInv, ServerTypeOK
<1>3. PICK p : /\ p # NoReply
               /\ handlerReply' = [handlerReply EXCEPT ![h] = p]
               /\ NetworkOK(net')
               /\ Held(net', h, p)
               /\ \A o : o # h => Kept(net, net', o)
  BY <1>1, TimestampUpdatedFacts
<1>4. ServerInv'
  BY <1>1, <1>2, <1>3, OwnersDiffer, CallBackKeepsInv
<1>5. /\ owed[h] \in Nat \ {0} /\ owed'[h] = owed[h] - 1
      /\ \A a \in live \ {h} : owed'[a] = owed[a]
  BY <1>1, <1>2, CallBackOwed DEF CallBack, HandlersTypeOK
<1>6. owed'[h] + Bit(p) <= open'[h]
  BY <1>1, <1>2, <1>5, HandlersAssumption
     DEF Bit, HandlersAssumption, HandlersTypeOK
<1>7. sent' \in [RestApis -> Nat] /\ fresh' \in [RestApis -> BOOLEAN]
  BY <1>1, <1>2 DEF HandlersTypeOK
<1>8. \A a \in live \ {h} :
        /\ owed'[a] = owed[a] /\ open'[a] = open[a]
        /\ Held(net, a, handlerReply[a]) => Held(net', a, handlerReply[a])
  BY <1>1, <1>3, <1>5, OthersHeld
<1> QED
  BY <1>1, <1>2, <1>3, <1>4, <1>6, <1>7, <1>8, OneHandlerMoves
     DEF HandlersTypeOK

(* timestampUpdateFailed, called by the Server                             *)
LEMMA FailedKeepsHandlersInv ==
  ASSUME HandlersInv, NEW h \in RestApis, CalledBackFailed(h)
  PROVE  HandlersInv'
<1>1. /\ h \in live
      /\ CallBack(h)
      /\ net' = PendingDropped(h)
      /\ handlerReply' = [handlerReply EXCEPT ![h] = NoReply]
      /\ Report(h, "failure")
      /\ UNCHANGED <<handlerRetries, currentPayload, live, thread, sent,
                     fresh>>
  BY DEF CalledBackFailed, TimestampUpdateFailed
<1>2. /\ ServerInv /\ HandlersTypeOK
      /\ owed[h] + Bit(handlerReply[h]) <= open[h]
      /\ owed \in [RestApis -> Nat]
  BY <1>1, HandlersInvFacts DEF ServerInv, ServerTypeOK
<1>3. NetworkOK(net') /\ \A o : o # h => Kept(net, net', o)
  BY <1>1, PendingDroppedFacts
<1>4. ServerInv'
  BY <1>1, <1>2, <1>3, OwnersDiffer, CallBackKeepsInv
<1>5. /\ owed[h] \in Nat \ {0} /\ owed'[h] = owed[h] - 1
      /\ \A a \in live \ {h} : owed'[a] = owed[a]
  BY <1>1, <1>2, CallBackOwed DEF CallBack, HandlersTypeOK
<1>6. open[h] \in Nat /\ owed[h] <= open[h] /\ open[h] # 0
  BY <1>1, <1>2, <1>5, HandlersAssumption
     DEF Bit, HandlersAssumption, HandlersTypeOK
<1>7. /\ open' \in [RestApis -> 0 .. MaxOpen]
      /\ report' \in [RestApis -> {"none", "response", "failure"}]
      /\ open'[h] = open[h] - 1
      /\ \A a \in live \ {h} : open'[a] = open[a]
  BY <1>1, <1>2, <1>6, ReportOK
<1>8. owed'[h] + Bit(NoReply) <= open'[h]
  BY <1>5, <1>6, <1>7 DEF Bit
<1>9. Held(net', h, NoReply)
  BY DEF Held
<1>10. \A a \in live \ {h} :
         /\ owed'[a] = owed[a] /\ open'[a] = open[a]
         /\ Held(net, a, handlerReply[a]) => Held(net', a, handlerReply[a])
  BY <1>3, <1>5, <1>7, OthersHeld
<1> QED
  BY <1>1, <1>2, <1>4, <1>7, <1>8, <1>9, <1>10, OneHandlerMoves
     DEF HandlersTypeOK

(* The destructor                                                          *)
LEMMA DestroyKeepsHandlersInv ==
  ASSUME HandlersInv, NEW h \in RestApis, Destroy(h)
  PROVE  HandlersInv'
<1>1. /\ live' = live \ {h}
      /\ net' = WithoutOwner(net, h)
      /\ handlerReply' = [handlerReply EXCEPT ![h] = NoReply]
      /\ open' = [open EXCEPT ![h] = 0]
      /\ UNCHANGED <<serverVars, handlerRetries, currentPayload, thread,
                     report, sent, fresh>>
  BY DEF Destroy
<1>2. /\ ServerInv /\ NetworkOK(net) /\ HandlersTypeOK
      /\ \A a \in live : Held(net, a, handlerReply[a])
      /\ \A a \in RestApis \ live : handlerReply[a] = NoReply
      /\ \A a \in live : owed[a] + Bit(handlerReply[a]) <= open[a]
  BY HandlersInvFacts
<1>3. NetworkOK(net') /\ \A o : o # h => Kept(net, net', o)
  BY <1>1, <1>2, WithoutOwnerOK, WithoutOwnerKeeps
<1>4. ServerInv' /\ owed' = owed
  BY <1>1, <1>2, <1>3, OwnersDiffer, OthersKeepInv DEF serverVars
<1>5. /\ live \subseteq RestApis
      /\ handlerReply'[h] = NoReply
      /\ \A a \in RestApis \ {h} : handlerReply'[a] = handlerReply[a]
      /\ handlerReply' = [a \in RestApis |-> handlerReply'[a]]
  BY <1>1, <1>2 DEF HandlersTypeOK
<1>6. \A a \in live' : Held(net', a, handlerReply'[a])
  BY <1>1, <1>2, <1>3, <1>5, OthersHeld
<1>7. \A a \in RestApis \ live' : handlerReply'[a] = NoReply
  BY <1>1, <1>2, <1>5
<1>8. handlerReply' \in [RestApis -> Alive(net') \cup {NoReply}]
  <2>1. \A a \in RestApis : handlerReply'[a] \in Alive(net') \cup {NoReply}
    BY <1>6, <1>7, HeldAlive
  <2> QED
    BY <1>5, <2>1
<1>9. /\ open' \in [RestApis -> 0 .. MaxOpen]
      /\ \A a \in live' : open'[a] = open[a]
  BY <1>1, <1>2, <1>5, HandlersAssumption
     DEF HandlersTypeOK, HandlersAssumption
<1>10. \A a \in live' : owed'[a] + Bit(handlerReply'[a]) <= open'[a]
  BY <1>1, <1>2, <1>4, <1>5, <1>9
<1> QED
  BY <1>1, <1>2, <1>4, <1>5, <1>6, <1>7, <1>8, <1>9, <1>10, HandlersInvNext
     DEF HandlersTypeOK

(* A callback to a handler that is no more, a signal for a handler without *)
(* a reply, a post within the loop: the thread is lost, nothing else       *)
(* changes.                                                                *)
LEMMA CrashKeepsHandlersInv ==
  ASSUME HandlersInv, NEW h \in RestApis,
         CalledBackDead(h) \/ ResponseWithoutReply(h) \/ PostInSlot(h)
  PROVE  HandlersInv'
<1>1. /\ thread' \in {"crashed", "blocked"}
      /\ UNCHANGED <<net, handlerReply, handlerRetries, currentPayload, live,
                     histories>>
      /\ \/ h \notin live /\ CallBack(h)
         \/ UNCHANGED serverVars
  BY DEF CalledBackDead, ResponseWithoutReply, PostInSlot
<1>2. ServerInv /\ HandlersTypeOK /\ NetworkOK(net)
  BY HandlersInvFacts
<1>3. NetworkOK(net') /\ \A o : Kept(net, net', o)
  BY <1>1, <1>2, KeptByAll
<1>4. ServerInv'
  BY <1>1, <1>2, <1>3, CallBackKeepsInv, OthersKeepInv
<1>5. \A a \in live : owed'[a] = owed[a]
  BY <1>1, <1>2 DEF CallBack, serverVars, HandlersTypeOK, ServerInv,
                    ServerTypeOK
<1> QED
  BY <1>1, <1>2, <1>4, <1>5, NoHandlerMoves DEF histories, HandlersTypeOK

(* The slot of the Server                                                  *)
LEMMA ServerSlotKeepsHandlersInv ==
  ASSUME HandlersInv, ServerSlot
  PROVE  HandlersInv'
<1>1. ServerInv /\ HandlersTypeOK
  BY HandlersInvFacts
<1>2. /\ ServerInv' /\ UNCHANGED owed
      /\ \A o : o # ServerOwner => Kept(net, net', o)
  <2>1. CASE RetryTimeDelta
    BY <1>1, <2>1, RetryKeepsInv DEF RetryTimeDelta
  <2>2. CASE TimeDeltaFailed
    BY <1>1, <2>2, FailedKeepsInv, OutcomeKeepsOthers
  <2>3. CASE EndFlush
    BY <1>1, <2>3, EndFlushKeepsInv, KeptByAll DEF EndFlush
  <2>4. CASE TimeDeltaReceived
    BY <1>1, <2>4, ReceivedKeepsInv, OutcomeKeepsOthers
  <2> QED
    BY <2>1, <2>2, <2>3, <2>4 DEF ServerSlot
<1>3. /\ UNCHANGED <<handlerReply, handlerRetries, currentPayload, live,
                     thread, open, report, sent>>
      /\ fresh' = fresh \/ fresh' = [h \in RestApis |-> TRUE]
  BY DEF ServerSlot, handlerVars, histories
<1>4. fresh' \in [RestApis -> BOOLEAN] /\ thread' = thread
  BY <1>1, <1>3 DEF HandlersTypeOK
<1>5. \A a \in live :
        Held(net, a, handlerReply[a]) => Held(net', a, handlerReply[a])
  BY <1>1, <1>2, OwnersDiffer, KeptOpen DEF HandlersTypeOK
<1> QED
  BY <1>1, <1>2, <1>3, <1>4, <1>5, NoHandlerMoves DEF HandlersTypeOK

(* The event loop and the network                                          *)
LEMMA NetworkKeepsHandlersInv ==
  ASSUME HandlersInv, UNCHANGED handlerVars,
         \/ RunDeferredDelete
         \/ ServerFinishes
         \/ \E h \in RestApis : HandlerFinishes(h)
  PROVE  HandlersInv'
<1>1. ServerInv /\ HandlersTypeOK /\ NetworkOK(net)
  BY HandlersInvFacts
<1>2. ServerInv' /\ \A o, p : Held(net, o, p) => Held(net', o, p)
  <2>1. CASE RunDeferredDelete
    BY <1>1, <2>1, DeferredDeleteKeepsInv, DeletedFrames
       DEF RunDeferredDelete
  <2>2. ASSUME NEW owner, NEW answers, FinishReply(owner, answers)
        PROVE  \A o, p : Held(net, o, p) => Held(net', o, p)
    BY <1>1, <2>2, FinishedFrames DEF FinishReply
  <2>3. CASE ServerFinishes
    BY <1>1, <2>2, <2>3, FinishKeepsInv DEF ServerFinishes
  <2>4. ASSUME NEW h \in RestApis, HandlerFinishes(h)
        PROVE  ServerInv' /\ \A o, p : Held(net, o, p) => Held(net', o, p)
    BY <1>1, <2>2, <2>4, FinishKeepsInv, OwnersDiffer DEF HandlerFinishes
  <2> QED
    BY <2>1, <2>3, <2>4
<1>3. UNCHANGED owed
  BY DEF RunDeferredDelete, ServerFinishes, HandlerFinishes, FinishReply,
         serverVars
<1> QED
  BY <1>1, <1>2, <1>3, NoHandlerMoves
     DEF handlerVars, histories, HandlersTypeOK

(* Any step                                                                *)
LEMMA NextKeepsHandlersInv == HandlersInv /\ [Next]_vars => HandlersInv'
<1> SUFFICES ASSUME HandlersInv, [Next]_vars PROVE HandlersInv'
  OBVIOUS
<1>1. CASE ServerSlot
  BY <1>1, ServerSlotKeepsHandlersInv
<1>2. ASSUME NEW h \in RestApis, HandlerSlot(h) PROVE HandlersInv'
  BY <1>2, RefusedKeepsHandlersInv, ResponseKeepsHandlersInv,
     UpdatedKeepsHandlersInv, FailedKeepsHandlersInv, CrashKeepsHandlersInv
     DEF HandlerSlot
<1>3. CASE RunDeferredDelete /\ UNCHANGED handlerVars
  BY <1>3, NetworkKeepsHandlersInv
<1>4. CASE ServerFinishes
  BY <1>4, NetworkKeepsHandlersInv DEF ServerFinishes
<1>5. ASSUME NEW h \in RestApis, HandlerFinishes(h) PROVE HandlersInv'
  BY <1>5, NetworkKeepsHandlersInv DEF HandlerFinishes
<1>6. ASSUME NEW h \in RestApis, Application(h) PROVE HandlersInv'
  BY <1>6, PostKeepsHandlersInv, CrashKeepsHandlersInv,
     DestroyKeepsHandlersInv DEF Application
<1>7. CASE UNCHANGED vars
  <2>1. ServerInv /\ HandlersTypeOK /\ NetworkOK(net)
    BY HandlersInvFacts
  <2>2. UNCHANGED <<net, serverVars, owed>> /\ Kept(net, net', ServerOwner)
    BY <1>7, KeptByAll DEF vars, serverVars
  <2>3. ServerInv'
    BY <2>1, <2>2, OthersKeepInv
  <2> QED
    BY <1>7, <2>1, <2>2, <2>3, NoHandlerMoves
       DEF vars, handlerVars, histories, HandlersTypeOK
<1> QED
  BY <1>1, <1>2, <1>3, <1>4, <1>5, <1>6, <1>7 DEF Next, ThreadRuns

-----------------------------------------------------------------------------
(* For any use of the handlers                                             *)

(* However the application posts, overlaps its posts and destroys its      *)
(* handlers, whatever the web server answers: HandlersInv is an invariant. *)
THEOREM HandlersInvariance == Spec => []HandlersInv
<1>1. Init => HandlersInv
  BY InitEstablishesHandlersInv
<1>2. HandlersInv /\ [Next]_vars => HandlersInv'
  BY NextKeepsHandlersInv
<1> QED
  BY <1>1, <1>2, PTL DEF Spec

(* The handlers are type correct: above all, what a pendingReply of theirs *)
(* points to exists, and the callbacks of timestampUpdated and of the slot *)
(* never read an object that is no more.                                   *)
THEOREM HandlersTypeCorrectness == Spec => []HandlersTypeOK
<1>1. HandlersInv => HandlersTypeOK
  BY DEF HandlersInv
<1> QED
  BY <1>1, HandlersInvariance, PTL

(* No request is answered twice, in any use: post, refusals, shared        *)
(* updates and callbacks leave a handler never more ways to report an      *)
(* outcome than it has posts without one.                                  *)
THEOREM OutcomesAreNotDoubled == Spec => []NoOutcomeTwice
<1>1. HandlersInv => NoOutcomeTwice
  BY DEF HandlersInv
<1> QED
  BY <1>1, HandlersInvariance, PTL

-----------------------------------------------------------------------------
(* The Server that serves handlers, in any use                             *)

(* The handlers change nothing of what the Server relies on: its slot      *)
(* reads the reply that called it, who waits has an answer to come, the    *)
(* retries are counted right, and after an update nobody is owed a call.   *)
THEOREM HandlersLeaveTheServerIntact ==
  Spec => [](/\ SlotReadsItsReply
             /\ WaitersHaveAReplyToCome
             /\ AttemptsAccounted
             /\ NoCallbackOwedWhenIdle)
<1>1. HandlersInv => /\ SlotReadsItsReply
                     /\ WaitersHaveAReplyToCome
                     /\ AttemptsAccounted
                     /\ NoCallbackOwedWhenIdle
  BY ServerInvSlot, ServerInvWaiters, ServerInvOwed
     DEF HandlersInv, ServerInv
<1> QED
  BY <1>1, HandlersInvariance, PTL

(* No callback is due to a handler whose posts have all had an outcome.    *)
LEMMA NoPostNoCallback ==
  ASSUME HandlersInv, NEW h \in live, open[h] = 0
  PROVE  DueTo(h) = {}
<1>1. /\ ServerInv /\ h \in RestApis
      /\ owed[h] + Bit(handlerReply[h]) <= open[h]
  BY HandlersInvFacts DEF HandlersTypeOK
<1> QED
  BY <1>1, ContinuationsOwed DEF Bit

(* Every step of the handlers, of their Server and of the network leaves   *)
(* the Server alone, or is one of its operations; a handler that is        *)
(* registered exists.                                                      *)
LEMMA ServerSteps ==
  ASSUME HandlersInv, [Next]_vars
  PROVE  \/ UNCHANGED <<serverVars, live>>
         \/ \E h \in live :
              /\ Wait(h)
              /\ flush = "none" /\ flush' = "none"
              /\ UNCHANGED <<currentTimeDelta, live>>
         \/ \E h \in RestApis : CallBack(h) /\ UNCHANGED live
         \/ \E h \in RestApis : Destroy(h)
         \/ ServerSlot /\ UNCHANGED live
<1>1. ASSUME NEW h \in RestApis, NEW payload \in Payloads, Post(h, payload)
      PROVE  /\ h \in live
             /\ UNCHANGED live
             /\ flush = "none" /\ flush' = "none"
             /\ UNCHANGED currentTimeDelta
             /\ Wait(h) \/ UNCHANGED serverVars
  BY <1>1 DEF Post, CheckTimestamp, RequestMutexFree, serverVars
<1>2. ASSUME NEW h \in RestApis, AuthenticationRefused(h)
      PROVE  /\ h \in live
             /\ Wait(h)
             /\ flush = "none" /\ flush' = "none"
             /\ UNCHANGED <<currentTimeDelta, live>>
  <2>1. h \in live
    BY <1>2, HandlerSlotFacts DEF AuthenticationRefused
  <2> QED
    BY <1>2, <2>1
       DEF AuthenticationRefused, AsksForTimeDelta, UpdateTimeDelta,
           RequestMutexFree
<1>3. ASSUME NEW h \in RestApis,
             CalledBackUpdated(h) \/ CalledBackFailed(h) \/ CalledBackDead(h)
      PROVE  CallBack(h) /\ UNCHANGED live
  BY <1>3 DEF CalledBackUpdated, CalledBackFailed, CalledBackDead
<1>4. ASSUME NEW h \in RestApis,
             ResponseReceived(h) \/ ResponseWithoutReply(h) \/ PostInSlot(h)
      PROVE  UNCHANGED <<serverVars, live>>
  BY <1>4 DEF ResponseReceived, ResponseWithoutReply, PostInSlot
<1>5. ServerSlot => UNCHANGED live
  BY DEF ServerSlot, handlerVars
<1>6. CASE \/ RunDeferredDelete /\ UNCHANGED handlerVars
           \/ ServerFinishes
           \/ \E h \in RestApis : HandlerFinishes(h)
           \/ UNCHANGED vars
  BY <1>6 DEF RunDeferredDelete, ServerFinishes, HandlerFinishes,
              FinishReply, handlerVars, vars
<1> QED
  BY <1>1, <1>2, <1>3, <1>4, <1>5, <1>6
     DEF Next, ThreadRuns, HandlerSlot, Application

(* A handler that is destroyed when no callback is due to it, or when its  *)
(* posts have all had an outcome, which comes to the same, leaves nothing  *)
(* behind that the Server will call, however posts overlap, also when it   *)
(* is destroyed within the loop.                                           *)
THEOREM NobodyDeadWaits ==
  ASSUME "destroyWaiting" \notin Liberties
  PROVE  Spec => []WaitingListHoldsInstances
<1>1. Init => WaitingListHoldsInstances
  BY DEF Init, Server, WaitingListHoldsInstances
<1>2. HandlersInv /\ WaitingListHoldsInstances /\ [Next]_vars
        => WaitingListHoldsInstances'
  <2> SUFFICES ASSUME HandlersInv, WaitingListHoldsInstances, [Next]_vars
               PROVE  WaitingListHoldsInstances'
    OBVIOUS
  <2>1. /\ waitingRestApis \in Seq(RestApis)
        /\ it \in Nat /\ (flush = "none" => it = 0)
    BY DEF HandlersInv, ServerInv, ServerTypeOK, IteratorInList
  <2>2. CASE UNCHANGED <<waitingRestApis, it, live>>
    BY <2>2 DEF WaitingListHoldsInstances
  <2>3. ASSUME NEW h \in live, Wait(h), flush = "none", UNCHANGED live
        PROVE  WaitingListHoldsInstances'
    BY <2>1, <2>3 DEF WaitingListHoldsInstances, Wait
  <2>4. ASSUME NEW h \in RestApis, Destroy(h)
        PROVE  WaitingListHoldsInstances'
    <3>1. open[h] = 0 => DueTo(h) = {}
      BY <2>4, NoPostNoCallback DEF Destroy
    <3>2. DueTo(h) = {} /\ live' = live \ {h}
          /\ UNCHANGED <<waitingRestApis, it>>
      BY <2>4, <3>1 DEF Destroy, serverVars
    <3> QED
      BY <3>2 DEF DueTo, WaitingListHoldsInstances
  <2>5. ASSUME NEW h \in RestApis, CallBack(h), UNCHANGED live
        PROVE  WaitingListHoldsInstances'
    BY <2>1, <2>5 DEF WaitingListHoldsInstances, CallBack
  <2>6. CASE ServerSlot /\ UNCHANGED live
    <3>1. \/ UNCHANGED <<waitingRestApis, it>>
          \/ /\ flush = "none"
             /\ waitingRestApis' = waitingRestApis /\ it' = 1
          \/ waitingRestApis' = << >>
      BY <2>6 DEF ServerSlot, RetryTimeDelta, TimeDeltaFailed, SlotRuns,
                  InEventLoop, TimeDeltaReceived, BeginFlush, EndFlush,
                  ListCleared
    <3>2. DOMAIN waitingRestApis = 1 .. Len(waitingRestApis)
      BY <2>1
    <3> QED
      BY <2>1, <2>6, <3>1, <3>2 DEF WaitingListHoldsInstances
  <2> QED
    BY <2>2, <2>3, <2>4, <2>5, <2>6, ServerSteps DEF serverVars
<1> QED
  BY <1>1, <1>2, HandlersInvariance, PTL DEF Spec

(* Every step is a step of TimeSync or none.                               *)
LEMMA NextIsSync ==
  ASSUME HandlersInv, HandlersInv', [Next]_vars
  PROVE  [Sync!Next]_(Sync!syncVars)
<1>1. /\ ServerInv /\ ServerInv'
      /\ live \subseteq RestApis
  BY DEF HandlersInv, HandlersTypeOK
<1>2. CASE UNCHANGED serverVars
  BY <1>2 DEF serverVars, StillToCall, Sync!syncVars
<1>3. ASSUME NEW h \in live, Wait(h), flush = "none", flush' = "none",
             UNCHANGED currentTimeDelta
      PROVE  Sync!Join(h)
  BY <1>1, <1>3, WaitAddsCall DEF Sync!Join
<1>4. ASSUME NEW h \in RestApis, CallBack(h) PROVE Sync!Call
  BY <1>1, <1>4, CallBackCallsNext DEF Sync!Call
<1>5. CASE RetryTimeDelta
  BY <1>1, <1>5, RetryKeepsInv DEF RetryTimeDelta, StillToCall, Sync!syncVars
<1>6. CASE TimeDeltaFailed
  BY <1>1, <1>6, BeginFlushCallsNobody
     DEF TimeDeltaFailed, Sync!Fail, Sync!Next
<1>7. CASE TimeDeltaReceived
  <2>1. currentTimeDelta' \in LongLong
    BY <1>1 DEF ServerInv, ServerTypeOK
  <2> QED
    BY <1>1, <1>7, <2>1, BeginFlushCallsNobody
       DEF TimeDeltaReceived, Sync!Succeed, Sync!Next
<1>8. CASE EndFlush
  BY <1>1, <1>8, EndFlushLeavesNone DEF Sync!Finish, Sync!Next
<1> QED
  BY <1>1, <1>2, <1>3, <1>4, <1>5, <1>6, <1>7, <1>8, ServerSteps
     DEF ServerSlot, Destroy, Sync!Next

(* The Server keeps its promise to the handlers in any use, as far as      *)
(* safety goes.                                                            *)
THEOREM ServerKeepsItsPromiseToHandlers == Spec => UpdatesAreShared
<1>1. Init => Sync!Init
  <2> SUFFICES ASSUME Init PROVE Sync!Init
    OBVIOUS
  <2>1. ServerInv /\ flush = "none" /\ waitingRestApis = << >>
    BY ServerEstablishesInv DEF Init, Server
  <2>2. StillToCall = << >>
    BY <2>1, StillToCallOutside
  <2> QED
    BY <2>1, <2>2 DEF Init, Server, Sync!Init
<1>2. HandlersInv /\ HandlersInv' /\ [Next]_vars
        => [Sync!Next]_(Sync!syncVars)
  BY NextIsSync
<1> QED
  BY <1>1, <1>2, HandlersInvariance, PTL
     DEF Spec, UpdatesAreShared, Sync!SafeSpec

(* What a handler posts, drops or asks for leaves a pending update as it   *)
(* is, or joins it.                                                        *)
LEMMA HandlerStepGoesOn ==
  ASSUME HandlersInv, NEW h \in RestApis, HandlerSlot(h) \/ Application(h)
  PROVE  UpdateGoesOn
<1>1. /\ ServerInv /\ NetworkOK(net)
      /\ h # ServerOwner
      /\ Kept(net, net, ServerOwner)
  BY HandlersInvFacts, OwnersDiffer, KeptByAll
<1>2. ASSUME NEW payload \in Payloads, Post(h, payload)
      PROVE  UpdateGoesOn
  <2>1. h \in live /\ UNCHANGED <<pendingReply, retriesRemaining>>
    BY <1>2 DEF Post, CheckTimestamp, serverVars
  <2>2. CASE TimestampUpdated(h, payload)
    BY <1>1, <2>1, <2>2, TimestampUpdatedFacts, KeptGoesOn
  <2>3. CASE net' = net
    BY <1>1, <2>1, <2>3, KeptGoesOn
  <2> QED
    BY <1>2, <2>2, <2>3 DEF Post
<1>3. CASE AuthenticationRefused(h)
  <2>1. /\ Kept(net, HandlerAfterRead(h), ServerOwner)
        /\ UpdateTimeDelta(h, HandlerAfterRead(h))
    BY <1>1, <1>3, HandlerSlotFacts DEF AuthenticationRefused, AsksForTimeDelta
  <2> QED
    BY <1>1, <2>1, UpdateTimeDeltaGoesOn
<1>4. CASE ResponseReceived(h)
  <2>1. /\ Kept(net, net', ServerOwner)
        /\ UNCHANGED <<pendingReply, retriesRemaining>>
    BY <1>1, <1>4, HandlerSlotFacts DEF ResponseReceived, serverVars
  <2> QED
    BY <1>1, <2>1, KeptGoesOn
<1>5. CASE ResponseWithoutReply(h) \/ PostInSlot(h)
  BY <1>1, <1>5, KeptGoesOn DEF ResponseWithoutReply, PostInSlot, serverVars
<1>6. CASE CalledBackUpdated(h) \/ CalledBackFailed(h) \/ CalledBackDead(h)
  BY <1>6 DEF CalledBackUpdated, CalledBackFailed, CalledBackDead, CallBack,
              UpdateGoesOn
<1>7. CASE Destroy(h)
  BY <1>1, <1>7, WithoutOwnerKeeps, KeptGoesOn DEF Destroy, serverVars
<1> QED
  BY <1>2, <1>3, <1>4, <1>5, <1>6, <1>7 DEF HandlerSlot, Application

(* However handlers are used, none prolongs an update of the time delta    *)
(* that others wait for: it ends after the retries of who asked first.     *)
THEOREM HandlersProlongNoUpdate == Spec => [][UpdateGoesOn]_vars
<1>1. HandlersInv /\ [Next]_vars => [UpdateGoesOn]_vars
  <2> SUFFICES ASSUME HandlersInv, Next PROVE UpdateGoesOn
    OBVIOUS
  <2>1. ServerInv
    BY HandlersInvFacts
  <2>2. CASE TimeDeltaFailed \/ TimeDeltaReceived \/ EndFlush
    BY <2>2 DEF TimeDeltaFailed, TimeDeltaReceived, BeginFlush, EndFlush,
                UpdateGoesOn
  <2>3. CASE RetryTimeDelta
    BY <2>1, <2>3, RetryGoesOn
  <2>4. CASE RunDeferredDelete
    BY <2>1, <2>4, DeferredDeleteGoesOn
  <2>5. CASE ServerFinishes \/ \E h \in RestApis : HandlerFinishes(h)
    BY <2>1, <2>5, FinishGoesOn DEF ServerFinishes, HandlerFinishes
  <2>6. CASE \E h \in RestApis : HandlerSlot(h) \/ Application(h)
    BY <2>6, HandlerStepGoesOn
  <2> QED
    BY <2>2, <2>3, <2>4, <2>5, <2>6 DEF Next, ThreadRuns, ServerSlot
<1> QED
  BY <1>1, HandlersInvariance, PTL DEF Spec
=============================================================================
