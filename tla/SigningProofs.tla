--------------------------- MODULE SigningProofs ---------------------------
(***************************************************************************)
(* Proofs about what the handlers sign and where they send it: the window  *)
(* of time a hash is made for, for every time, time delta and width of the *)
(* integers; that both transmissions of a message go to one host and that  *)
(* a default secret keys all hashes, in any use; and that the second one   *)
(* is signed for the right window, for handlers that are asked one thing   *)
(* at a time.                                                              *)
(***************************************************************************)
EXTENDS SignedHandlers, OneAtATimeProofs

-----------------------------------------------------------------------------
(* The arithmetic of calculateHash                                         *)

(* The conversion to unsigned of what is in range, ...                     *)
LEMMA UnsignedInRange ==
  ASSUME NEW x \in Int, 0 <= x, x < UnsignedRange
  PROVE  ToUnsigned(x) = x
BY HashWindowAssumption, SMT DEF HashWindowAssumption, ToUnsigned

(* ... negative, ...                                                       *)
LEMMA UnsignedBelow ==
  ASSUME NEW x \in Int, - UnsignedRange <= x, x < 0
  PROVE  ToUnsigned(x) = x + UnsignedRange
BY HashWindowAssumption, SMT DEF HashWindowAssumption, ToUnsigned

(* ... and too large                                                       *)
LEMMA UnsignedAbove ==
  ASSUME NEW x \in Int, UnsignedRange <= x, x < 2 * UnsignedRange
  PROVE  ToUnsigned(x) = x - UnsignedRange
BY HashWindowAssumption, SMT DEF HashWindowAssumption, ToUnsigned

(* Cutting the fraction of a second off moves a time by less than a        *)
(* window.                                                                 *)
LEMMA TruncationWithinOneWindow ==
  ASSUME NEW now \in Nat, NEW halves \in Int
  PROVE  (now + Truncated(halves)) \div 30 - WindowAt(now, halves) \in -1 .. 1
BY SMT DEF Truncated, WindowAt

(* The detour over unsigned numbers does no harm, a negative time delta    *)
(* included, as long as the web server's time is not before the epoch ...  *)
THEOREM SuffixIsTheWindow ==
  ASSUME NEW now \in 0 .. UnsignedRange - 1,
         NEW timeDelta \in - UnsignedRange .. UnsignedRange - 1,
         now + timeDelta \in 0 .. UnsignedRange - 1
  PROVE  HashSuffix(now, timeDelta) = (now + timeDelta) \div 30
<1>1. UnsignedRange \in Nat /\ now \in Int /\ timeDelta \in Int
  BY HashWindowAssumption DEF HashWindowAssumption
<1>2. CASE timeDelta >= 0
  <2>1. ToUnsigned(timeDelta) = timeDelta
    BY <1>1, <1>2, UnsignedInRange
  <2>2. ToUnsigned(now + timeDelta) = now + timeDelta
    BY <1>1, UnsignedInRange
  <2> QED
    BY <2>1, <2>2 DEF HashSuffix
<1>3. CASE timeDelta < 0
  <2>1. ToUnsigned(timeDelta) = timeDelta + UnsignedRange
    BY <1>1, <1>3, UnsignedBelow
  <2> DEFINE sum == now + (timeDelta + UnsignedRange)
  <2>2. /\ sum \in Int /\ UnsignedRange <= sum /\ sum < 2 * UnsignedRange
        /\ sum - UnsignedRange = now + timeDelta
    BY <1>1
  <2>3. ToUnsigned(sum) = sum - UnsignedRange
    BY <2>2, UnsignedAbove
  <2> QED
    BY <2>1, <2>2, <2>3 DEF HashSuffix
<1> QED
  BY <1>1, <1>2, <1>3

(* ... and if it is, the window is at the far end of the range.            *)
THEOREM SuffixWrapsBeforeTheEpoch ==
  ASSUME NEW now \in 0 .. UnsignedRange - 1,
         NEW timeDelta \in - UnsignedRange .. -1,
         now + timeDelta < 0
  PROVE  HashSuffix(now, timeDelta) = (now + timeDelta + UnsignedRange) \div 30
<1>1. UnsignedRange \in Nat /\ now \in Int /\ timeDelta \in Int
  BY HashWindowAssumption DEF HashWindowAssumption
<1>2. ToUnsigned(timeDelta) = timeDelta + UnsignedRange
  BY <1>1, UnsignedBelow
<1> DEFINE sum == now + (timeDelta + UnsignedRange)
<1>3. sum \in Int /\ 0 <= sum /\ sum < UnsignedRange
  BY <1>1
<1>4. ToUnsigned(sum) = sum
  BY <1>3, UnsignedInRange
<1>5. sum = now + timeDelta + UnsignedRange
  BY <1>1
<1> HIDE DEF sum
<1>6. HashSuffix(now, timeDelta) = ToUnsigned(sum) \div 30
  BY <1>2 DEF HashSuffix, sum
<1> QED
  BY <1>4, <1>5, <1>6

(* A message signed under a time delta measured right is signed for the    *)
(* window the web server is in, or one next to it.                         *)
THEOREM MeasuredIsInTime ==
  ASSUME NEW now \in 0 .. UnsignedRange - 1,
         NEW halves \in Int,
         Truncated(halves) \in - UnsignedRange .. UnsignedRange - 1,
         now + Truncated(halves) \in 0 .. UnsignedRange - 1
  PROVE  HashSuffix(now, Truncated(halves)) - WindowAt(now, halves) \in -1 .. 1
BY SuffixIsTheWindow, TruncationWithinOneWindow

-----------------------------------------------------------------------------
(* Which steps transmit                                                    *)

(* post transmits the message, or has transmitted nothing yet.             *)
LEMMA PostTransmits ==
  ASSUME HandlersInv, NEW h \in RestApis, NEW payload \in Payloads,
         Post(h, payload)
  PROVE  \/ sent'[h] = 1 /\ Transmits(h)
         \/ sent'[h] = 0
<1>1. HandlersTypeOK /\ h \in live
  BY HandlersInvFacts DEF Post
<1>2. CASE TimestampAccurate
  <2>1. TimestampUpdated(h, payload) /\ sent' = [sent EXCEPT ![h] = 1]
    BY <1>2 DEF Post
  <2>2. PICK p : /\ p # NoReply /\ Held(net', h, p)
                 /\ p \notin Alive(net) /\ p \in Alive(net')
    BY <1>1, <2>1, TimestampUpdatedFacts
  <2> QED
    BY <1>1, <2>1, <2>2 DEF Held, Transmits, HandlersTypeOK
<1>3. CASE ~ TimestampAccurate
  BY <1>1, <1>3 DEF Post, HandlersTypeOK
<1> QED
  BY <1>2, <1>3

(* timestampUpdated transmits it.                                          *)
LEMMA UpdatedTransmits ==
  ASSUME HandlersInv, NEW h \in RestApis, CalledBackUpdated(h)
  PROVE  sent'[h] = sent[h] + 1 /\ Transmits(h) /\ ~ Posts(h)
<1>1. HandlersTypeOK /\ h \in live /\ TimestampUpdated(h, currentPayload[h])
  BY HandlersInvFacts DEF CalledBackUpdated
<1>2. PICK p : /\ p # NoReply /\ Held(net', h, p)
               /\ p \notin Alive(net) /\ p \in Alive(net')
  BY <1>1, TimestampUpdatedFacts
<1>3. Transmits(h)
  BY <1>2 DEF Held, Transmits
<1>4. open[h] \in Nat /\ open' = open /\ sent'[h] = sent[h] + 1
  BY <1>1, HandlersAssumption
     DEF CalledBackUpdated, HandlersTypeOK, HandlersAssumption
<1> QED
  BY <1>3, <1>4 DEF Posts

(* No other step counts a transmission or opens a request.                 *)
LEMMA WhoCounts ==
  ASSUME HandlersInv, [Next]_vars, NEW h \in RestApis,
         sent'[h] # sent[h] \/ Posts(h)
  PROVE  \/ \E payload \in Payloads : Post(h, payload)
         \/ CalledBackUpdated(h)
<1>1. HandlersTypeOK
  BY HandlersInvFacts
<1>2. /\ open[h] \in Nat
      /\ \A a \in RestApis : open[a] \in Nat
  BY <1>1, HandlersAssumption DEF HandlersTypeOK, HandlersAssumption
<1>3. ~ UNCHANGED <<sent, open>>
  BY <1>2 DEF Posts
<1>4. ASSUME NEW a \in RestApis,
             \/ ResponseReceived(a)
             \/ CalledBackFailed(a)
             \/ Destroy(a)
      PROVE  FALSE
  <2>1. /\ sent' = sent
        /\ \/ open' = [open EXCEPT ![a] = @ - 1]
           \/ open' = [open EXCEPT ![a] = 0]
    BY <1>4 DEF ResponseReceived, CalledBackFailed, TimestampUpdateFailed,
                Report, Destroy
  <2>2. open'[h] = open[h] - 1 \/ open'[h] = 0 \/ open'[h] = open[h]
    BY <1>1, <2>1 DEF HandlersTypeOK
  <2> QED
    BY <1>2, <2>1, <2>2 DEF Posts
<1>5. ASSUME NEW a \in RestApis,
             \/ \E payload \in Payloads : Post(a, payload)
             \/ CalledBackUpdated(a)
      PROVE  a = h
  <2>1. PICK n : /\ sent' = [sent EXCEPT ![a] = n]
                 /\ \/ open' = [open EXCEPT ![a] = @ + 1]
                    \/ open' = open
    BY <1>5 DEF Post, CalledBackUpdated
  <2>2. a # h => sent'[h] = sent[h] /\ open'[h] = open[h]
    BY <1>1, <2>1 DEF HandlersTypeOK
  <2> QED
    BY <1>2, <2>2 DEF Posts
<1>6. /\ ~ ServerSlot /\ ~ ServerFinishes /\ ~ UNCHANGED handlerVars
      /\ ~ UNCHANGED vars
      /\ \A a \in RestApis :
           /\ ~ HandlerFinishes(a) /\ ~ ResponseWithoutReply(a)
           /\ ~ CalledBackDead(a) /\ ~ AuthenticationRefused(a)
           /\ ~ PostInSlot(a)
  BY <1>3 DEF ServerSlot, ServerFinishes, HandlerFinishes, handlerVars, vars,
              histories, ResponseWithoutReply, CalledBackDead,
              AuthenticationRefused, AsksForTimeDelta, PostInSlot
<1> QED
  BY <1>4, <1>5, <1>6 DEF Next, ThreadRuns, HandlerSlot, Application

-----------------------------------------------------------------------------
(* One destination                                                         *)

signingState == <<vars, signingVars>>

(* The host of the last transmission is that of the post.                  *)
SentToCurrentUrl ==
  /\ HandlersInv
  /\ \A h \in RestApis : sent[h] > 0 => signed[h].host = currentUrl[h]

(* What a step signs, and for which host                                   *)
LEMMA StepSigns ==
  ASSUME HandlersStep, NEW h \in RestApis
  PROVE  /\ Transmits(h) => signed'[h].host = currentUrl'[h]
         /\ ~ Transmits(h) => signed'[h] = signed[h]
         /\ ~ Posts(h) => currentUrl'[h] = currentUrl[h]
         /\ Posts(h) => currentUrl'[h] = schemeAndHost
BY DEF HandlersStep, CalculateHash, Destination

LEMMA SignedWhereSent ==
  ASSUME SentToCurrentUrl, [SigningNext]_signingState
  PROVE  /\ SentToCurrentUrl'
         /\ \A h \in RestApis :
              sent'[h] = 2 /\ sent[h] = 1 => signed'[h].host = signed[h].host
<1>1. HandlersInv /\ HandlersTypeOK
  BY HandlersInvFacts DEF SentToCurrentUrl
<1>2. [Next]_vars
  BY DEF SigningNext, HandlersStep, Configure, signingState
<1>3. HandlersInv'
  BY <1>1, <1>2, NextKeepsHandlersInv
<1>4. CASE UNCHANGED <<vars, currentUrl, signed>>
  BY <1>1, <1>3, <1>4 DEF SentToCurrentUrl, vars, handlerVars, histories
<1>5. CASE HandlersStep
  <2> SUFFICES ASSUME NEW h \in RestApis
               PROVE  /\ sent'[h] > 0 => signed'[h].host = currentUrl'[h]
                      /\ sent'[h] = 2 /\ sent[h] = 1
                           => signed'[h].host = signed[h].host
    BY <1>3 DEF SentToCurrentUrl
  <2>1. sent[h] \in Nat /\ (sent[h] > 0 => signed[h].host = currentUrl[h])
    BY <1>1 DEF SentToCurrentUrl, HandlersTypeOK
  <2>2. CASE \E payload \in Payloads : Post(h, payload)
    BY <1>1, <1>5, <2>2, PostTransmits, StepSigns
  <2>3. CASE CalledBackUpdated(h)
    BY <1>1, <1>5, <2>1, <2>3, UpdatedTransmits, StepSigns
  <2>4. CASE sent'[h] = sent[h] /\ ~ Posts(h)
    BY <1>5, <2>1, <2>4, StepSigns
  <2> QED
    BY <1>1, <1>2, <2>2, <2>3, <2>4, WhoCounts
<1> QED
  BY <1>4, <1>5 DEF SigningNext, Configure, signingState, signingVars

(* In any use, posts that overlap and hosts that are switched included,    *)
(* both transmissions of a message go to the same host.                    *)
THEOREM BothGoToOneHost == SigningSpec => OneDestination
<1>1. SigningInit => SentToCurrentUrl
  BY InitEstablishesHandlersInv DEF SigningInit, Init, SentToCurrentUrl
<1>2. SentToCurrentUrl /\ [SigningNext]_signingState
        => /\ SentToCurrentUrl'
           /\ \A h \in RestApis :
                sent'[h] = 2 /\ sent[h] = 1 => signed'[h].host = signed[h].host
  BY SignedWhereSent
<1> QED
  BY <1>1, <1>2, PTL DEF SigningSpec, OneDestination, signingState

-----------------------------------------------------------------------------
(* The key                                                                 *)

(* The Server has a default secret, and so every hash so far a key.        *)
KeyedInv ==
  /\ HandlersInv
  /\ defaultSecret \in Secrets
  /\ HashesAreKeyed

LEMMA KeyIsASecret ==
  ASSUME defaultSecret \in Secrets, HandlersStep,
         NEW h \in RestApis, Transmits(h)
  PROVE  signed'[h].key # NoSecret
<1>1. KeyOf(h) # NoSecret
  BY SignedHandlersAssumption DEF KeyOf, SignedHandlersAssumption
<1>2. PICK now \in Times : signed'[h] = CalculateHash(h, now)
  BY DEF HandlersStep
<1> QED
  BY <1>1, <1>2 DEF CalculateHash

LEMMA NextKeepsKeyed ==
  ASSUME KeyedInv, [SigningNext]_signingState
  PROVE  KeyedInv'
<1>1. HandlersInv /\ [Next]_vars
  BY DEF KeyedInv, SigningNext, HandlersStep, Configure, signingState
<1>2. HandlersInv'
  BY <1>1, NextKeepsHandlersInv
<1>3. CASE HandlersStep
  <2>1. defaultSecret' \in Secrets
    BY <1>3 DEF KeyedInv, HandlersStep, configuration
  <2> SUFFICES ASSUME NEW h \in RestApis, sent'[h] > 0
               PROVE  signed'[h].key # NoSecret
    BY <1>2, <2>1 DEF KeyedInv, HashesAreKeyed
  <2>2. CASE Transmits(h)
    BY <1>3, <2>2, KeyIsASecret DEF KeyedInv
  <2>3. CASE ~ Transmits(h)
    <3>1. sent'[h] = sent[h]
      BY <1>1, <2>3, WhoCounts, PostTransmits, UpdatedTransmits
    <3>2. signed'[h] = signed[h]
      BY <1>3, <2>3, StepSigns
    <3> QED
      BY <3>1, <3>2 DEF KeyedInv, HashesAreKeyed
  <2> QED
    BY <2>2, <2>3
<1>4. CASE Configure
  BY <1>2, <1>4
     DEF KeyedInv, HashesAreKeyed, Configure, SetSchemeAndHost,
         SetTimeDeltaSlug, SetDefaultSecret, SetSecret, vars, handlerVars,
         histories
<1>5. CASE UNCHANGED signingState
  BY <1>2, <1>5
     DEF KeyedInv, HashesAreKeyed, signingState, vars, handlerVars,
         histories, signingVars, configuration
<1> QED
  BY <1>3, <1>4, <1>5 DEF SigningNext

(* A Server built with a default secret is enough: in any use, whatever is *)
(* set meanwhile, and with handlers that have no secret of their own,      *)
(* every hash is keyed by a secret.                                        *)
THEOREM DefaultSecretKeysHashes ==
  ASSUME FirstDefaults \subseteq Secrets
  PROVE  SigningSpec => []HashesAreKeyed
<1>1. SigningInit => KeyedInv
  BY InitEstablishesHandlersInv
     DEF SigningInit, Init, KeyedInv, HashesAreKeyed
<1>2. KeyedInv /\ [SigningNext]_signingState => KeyedInv'
  BY NextKeepsKeyed
<1>3. KeyedInv => HashesAreKeyed
  BY DEF KeyedInv
<1> QED
  BY <1>1, <1>2, <1>3, PTL DEF SigningSpec, signingState

-----------------------------------------------------------------------------
(* Who transmits, when handlers are asked one thing at a time              *)

(* Who keeps his replies gets no other.                                    *)
LEMMA KeptIsSilent ==
  ASSUME NEW owner, Kept(net, net', owner)
  PROVE  ~ Transmits(owner)
BY DEF Kept, Transmits, Alive

(* No replies are added to those there are.                                *)
LEMMA NobodyTransmits ==
  ASSUME Alive(net') \subseteq Alive(net), NEW owner
  PROVE  ~ Transmits(owner)
BY DEF Transmits, Alive

(* A slot of a handler leaves the replies as they are.                     *)
LEMMA HandlerSlotReplies ==
  ASSUME HandlersInv, NEW h \in RestApis, SlotTriggered(h),
         handlerReply[h] # NoReply
  PROVE  HandlerAfterRead(h).reply = net.reply
<1>1. h \in live /\ NetworkOK(net) /\ Held(net, h, handlerReply[h])
  BY HandlerSlotFacts, HandlersInvFacts
<1>2. handlerReply[h] \in Alive(net) /\ net.events # << >>
  BY <1>1 DEF Held, SlotTriggered, SlotReady
<1>3. NetworkOK(Taken(net)) /\ Taken(net).reply = net.reply
      /\ Alive(Taken(net)) = Alive(net)
  BY <1>1, <1>2, TakenOK
<1> QED
  BY <1>2, <1>3, DeleteLaterOK DEF HandlerAfterRead

(* A step of the network neither adds replies nor changes anything else.   *)
LEMMA NetworkIsSilent ==
  ASSUME HandlersInv,
         \/ RunDeferredDelete /\ UNCHANGED handlerVars
         \/ ServerFinishes
         \/ \E h \in RestApis : HandlerFinishes(h)
         \/ UNCHANGED vars
  PROVE  /\ Alive(net') \subseteq Alive(net)
         /\ UNCHANGED <<serverVars, handlerVars>>
<1>1. NetworkOK(net)
  BY HandlersInvFacts
<1>2. CASE RunDeferredDelete /\ UNCHANGED handlerVars
  BY <1>1, <1>2, DeletedOK DEF RunDeferredDelete
<1>3. CASE ServerFinishes \/ \E h \in RestApis : HandlerFinishes(h)
  BY <1>1, <1>3, FinishedOK DEF ServerFinishes, HandlerFinishes, FinishReply
<1>4. CASE UNCHANGED vars
  BY <1>4 DEF vars
<1> QED
  BY <1>2, <1>3, <1>4

(* The slot of the Server transmits nothing for a handler ...              *)
LEMMA ServerSlotSilent ==
  ASSUME HandlersInv, ServerSlot, NEW h \in RestApis
  PROVE  ~ Transmits(h)
<1>1. ServerInv /\ h # ServerOwner
  BY HandlersInvFacts, OwnersDiffer
<1>2. CASE RetryTimeDelta
  BY <1>1, <1>2, RetryKeepsInv, KeptIsSilent
<1>3. CASE TimeDeltaFailed \/ TimeDeltaReceived
  BY <1>1, <1>3, OutcomeKeepsOthers, KeptIsSilent
<1>4. CASE EndFlush
  BY <1>4, NobodyTransmits DEF EndFlush
<1> QED
  BY <1>2, <1>3, <1>4 DEF ServerSlot

(* ... nor does any step but post and timestampUpdated.                    *)
LEMMA WhoTransmits ==
  ASSUME OneAtATimeInv, [Next]_vars, NEW h \in RestApis, Transmits(h)
  PROVE  \/ \E payload \in Payloads : Post(h, payload)
         \/ CalledBackUpdated(h)
<1>1. HandlersInv /\ NetworkOK(net) /\ ServerInv
  BY AskedFacts
<1>2. ASSUME NEW a \in RestApis, AuthenticationRefused(a) PROVE FALSE
  <2> DEFINE n == HandlerAfterRead(a)
  <2>1. /\ SlotTriggered(a) /\ handlerReply[a] # NoReply
        /\ UpdateTimeDelta(a, n)
    BY <1>2 DEF AuthenticationRefused, AsksForTimeDelta
  <2>2. NetworkOK(n) /\ n.reply = net.reply /\ Kept(net, n, ServerOwner)
    BY <1>1, <2>1, HandlerSlotFacts, HandlerSlotReplies, OwnersDiffer
  <2> HIDE DEF n
  <2>3. Kept(n, net', h)
    BY <1>1, <2>1, <2>2, UpdateTimeDeltaKeepsInv, OwnersDiffer
  <2> QED
    BY <2>2, <2>3 DEF Kept, Transmits, Alive
<1>3. ASSUME NEW a \in RestApis, ResponseReceived(a) PROVE FALSE
  <2>1. net'.reply = net.reply
    BY <1>1, <1>3, HandlerSlotReplies DEF ResponseReceived
  <2> QED
    BY <2>1, NobodyTransmits DEF Alive
<1>4. ASSUME NEW a \in RestApis, CalledBackFailed(a) PROVE FALSE
  <2>1. net' = net
    BY <1>4, CalledBackAsked DEF CalledBackFailed, TimestampUpdateFailed
  <2> QED
    BY <2>1, NobodyTransmits
<1>5. ASSUME NEW a \in RestApis, CalledBackUpdated(a) PROVE a = h
  BY <1>1, <1>5, TimestampUpdatedFacts, KeptIsSilent DEF CalledBackUpdated
<1>6. ASSUME NEW a \in RestApis, NEW payload \in Payloads, Post(a, payload)
      PROVE  a = h
  <2>1. CASE TimestampAccurate
    BY <1>1, <1>6, <2>1, TimestampUpdatedFacts, KeptIsSilent DEF Post
  <2>2. CASE ~ TimestampAccurate
    BY <1>6, <2>2, NobodyTransmits DEF Post
  <2> QED
    BY <2>1, <2>2
<1>7. ASSUME NEW a \in RestApis, Destroy(a) PROVE FALSE
  <2>1. Alive(net') \subseteq Alive(net)
    BY <1>1, <1>7, WithoutOwnerOK DEF Destroy
  <2> QED
    BY <2>1, NobodyTransmits
<1>8. ASSUME NEW a \in RestApis,
             CalledBackDead(a) \/ ResponseWithoutReply(a) \/ PostInSlot(a)
      PROVE  FALSE
  BY <1>8, NobodyTransmits DEF CalledBackDead, ResponseWithoutReply, PostInSlot
<1>9. CASE \/ RunDeferredDelete /\ UNCHANGED handlerVars
           \/ ServerFinishes
           \/ \E a \in RestApis : HandlerFinishes(a)
           \/ UNCHANGED vars
  BY <1>1, <1>9, NetworkIsSilent, NobodyTransmits
<1>10. ~ ServerSlot
  BY <1>1, ServerSlotSilent
<1> QED
  BY <1>2, <1>3, <1>4, <1>5, <1>6, <1>7, <1>8, <1>9, <1>10
     DEF Next, ThreadRuns, HandlerSlot, Application

(* A request for a time delta has not been answered when it is posted.     *)
LEMMA IssuedUnanswered ==
  ASSUME NEW n, NetworkOK(n), Alive(n) = Alive(net), IssueTimeDeltaRequest(n)
  PROVE  /\ ~ net'.reply[pendingReply'].answer.json
         /\ Transmits(ServerOwner)
<1>1. pendingReply' = NewReply(n) /\ net' = Posted(n, ServerOwner, 0)
  BY DEF IssueTimeDeltaRequest
<1>2. /\ Posted(n, ServerOwner, 0).reply[NewReply(n)]
           = [owner |-> ServerOwner, payload |-> 0,
              finished |-> FALSE, answer |-> NothingRead]
      /\ Alive(Posted(n, ServerOwner, 0)) = Alive(n) \cup {NewReply(n)}
      /\ NewReply(n) \notin Alive(n)
  BY PostedOK
<1>3. NewReply(n) \in Alive(net') \ Alive(net)
  BY <1>1, <1>2
<1>4. net'.reply[NewReply(n)].owner = ServerOwner
  BY <1>1, <1>2
<1>5. ~ net'.reply[pendingReply'].answer.json
  BY <1>1, <1>2 DEF NothingRead
<1> QED
  BY <1>3, <1>4, <1>5 DEF Transmits

(* What a step does to the Server's request: it leaves it as it is, ends   *)
(* it, or posts the next one.                                              *)
LEMMA ServerAsks ==
  ASSUME HandlersInv, [Next]_vars, pendingReply' # NoReply
  PROVE  \/ pendingReply' = pendingReply /\ ~ Transmits(ServerOwner)
         \/ /\ Transmits(ServerOwner)
            /\ ~ net'.reply[pendingReply'].answer.json
<1>1. ServerInv /\ NetworkOK(net)
  BY HandlersInvFacts
<1>2. CASE RetryTimeDelta
  <2>1. SlotRuns /\ IssueTimeDeltaRequest(AfterRead)
    BY <1>2 DEF RetryTimeDelta
  <2>2. NetworkOK(AfterRead) /\ Alive(AfterRead) = Alive(net)
    BY <1>1, <2>1, Parts, SlotFacts
  <2> QED
    BY <2>1, <2>2, IssuedUnanswered
<1>3. CASE TimeDeltaFailed \/ TimeDeltaReceived
  <2>1. SlotRuns /\ net' = AfterRead /\ pendingReply' = pendingReply
    BY <1>3 DEF TimeDeltaFailed, TimeDeltaReceived, BeginFlush
  <2>2. Alive(net') = Alive(net)
    BY <1>1, <2>1, Parts, SlotFacts
  <2> QED
    BY <2>1, <2>2, NobodyTransmits
<1>4. CASE EndFlush
  BY <1>4 DEF EndFlush
<1>5. ASSUME NEW a \in RestApis, AuthenticationRefused(a)
      PROVE  \/ pendingReply' = pendingReply /\ ~ Transmits(ServerOwner)
             \/ /\ Transmits(ServerOwner)
                /\ ~ net'.reply[pendingReply'].answer.json
  <2> DEFINE n == HandlerAfterRead(a)
  <2>1. /\ SlotTriggered(a) /\ handlerReply[a] # NoReply
        /\ UpdateTimeDelta(a, n)
    BY <1>5 DEF AuthenticationRefused, AsksForTimeDelta
  <2>2. NetworkOK(n) /\ Kept(net, n, ServerOwner) /\ Alive(n) = Alive(net)
    BY <2>1, HandlerSlotFacts, HandlerSlotReplies, OwnersDiffer DEF Alive
  <2> HIDE DEF n
  <2>3. \/ IssueTimeDeltaRequest(n)
        \/ net' = n /\ pendingReply' = pendingReply
    BY <2>1 DEF UpdateTimeDelta
  <2> QED
    BY <2>2, <2>3, IssuedUnanswered, KeptIsSilent
<1>6. ASSUME NEW a \in RestApis,
             \/ ResponseReceived(a) \/ CalledBackUpdated(a)
             \/ CalledBackFailed(a) \/ CalledBackDead(a)
             \/ ResponseWithoutReply(a) \/ Application(a)
      PROVE  pendingReply' = pendingReply /\ ~ Transmits(ServerOwner)
  <2>1. CASE ResponseReceived(a)
    BY <1>1, <2>1, HandlerSlotFacts, OwnersDiffer, KeptIsSilent
       DEF ResponseReceived, serverVars
  <2>2. CASE CalledBackUpdated(a)
    BY <1>1, <2>2, TimestampUpdatedFacts, OwnersDiffer, KeptIsSilent
       DEF CalledBackUpdated, CallBack
  <2>3. CASE CalledBackFailed(a)
    BY <1>1, <2>3, PendingDroppedFacts, OwnersDiffer, KeptIsSilent
       DEF CalledBackFailed, TimestampUpdateFailed, CallBack
  <2>4. CASE CalledBackDead(a) \/ ResponseWithoutReply(a) \/ PostInSlot(a)
    BY <2>4, NobodyTransmits
       DEF CalledBackDead, ResponseWithoutReply, PostInSlot, CallBack,
           serverVars
  <2>5. CASE Destroy(a)
    BY <1>1, <2>5, WithoutOwnerKeeps, OwnersDiffer, KeptIsSilent
       DEF Destroy, serverVars
  <2>6. ASSUME NEW payload \in Payloads, Post(a, payload)
        PROVE  pendingReply' = pendingReply /\ ~ Transmits(ServerOwner)
    <3>1. pendingReply' = pendingReply /\ a \in live
      BY <2>6 DEF Post, CheckTimestamp
    <3>2. CASE TimestampAccurate
      BY <1>1, <2>6, <3>1, <3>2, TimestampUpdatedFacts, OwnersDiffer,
         KeptIsSilent DEF Post
    <3>3. CASE ~ TimestampAccurate
      BY <2>6, <3>1, <3>3, NobodyTransmits DEF Post
    <3> QED
      BY <3>2, <3>3
  <2> QED
    BY <1>6, <2>1, <2>2, <2>3, <2>4, <2>5, <2>6 DEF Application
<1>7. CASE \/ RunDeferredDelete /\ UNCHANGED handlerVars
           \/ ServerFinishes
           \/ \E a \in RestApis : HandlerFinishes(a)
           \/ UNCHANGED vars
  BY <1>7, NetworkIsSilent, NobodyTransmits DEF serverVars
<1> QED
  BY <1>2, <1>3, <1>4, <1>5, <1>6, <1>7
     DEF Next, ThreadRuns, ServerSlot, HandlerSlot

-----------------------------------------------------------------------------
(* The invariant                                                           *)

(* The loop of responseReceived is left with no reply pending.             *)
LEMMA PendingOutsideLoops ==
  ASSUME [Next]_vars, pendingReply' # NoReply, flush' = "none"
  PROVE  flush = "none"
<1>1. ~ EndFlush
  BY DEF EndFlush
<1>2. CASE ServerSlot
  BY <1>1, <1>2 DEF ServerSlot, RetryTimeDelta, SlotRuns, InEventLoop,
                    TimeDeltaFailed, TimeDeltaReceived
<1>3. ASSUME NEW h \in RestApis, HandlerSlot(h) PROVE flush' = flush
  BY <1>3 DEF HandlerSlot, AuthenticationRefused, AsksForTimeDelta,
              UpdateTimeDelta, ResponseReceived, ResponseWithoutReply,
              serverVars, CalledBackUpdated, CalledBackFailed, CalledBackDead,
              CallBack
<1>4. ASSUME NEW h \in RestApis, Application(h) PROVE flush' = flush
  BY <1>4 DEF Application, Post, CheckTimestamp, PostInSlot, Destroy,
              serverVars
<1>5. CASE \/ RunDeferredDelete /\ UNCHANGED handlerVars
           \/ ServerFinishes
           \/ \E h \in RestApis : HandlerFinishes(h)
           \/ UNCHANGED vars
  BY <1>5 DEF RunDeferredDelete, ServerFinishes, HandlerFinishes, FinishReply,
              vars, serverVars
<1> QED
  BY <1>2, <1>3, <1>4, <1>5 DEF Next, ThreadRuns

(* In the loop over the handlers that are to sign again, the time delta    *)
(* stays as it is and only the calls of the loop are accounted for.        *)
LEMMA InTheLoop ==
  ASSUME OneAtATimeInv, [Next]_vars, flush' = "updated", ~ TimeDeltaReceived,
         NEW h \in live'
  PROVE  /\ flush = "updated" /\ currentTimeDelta' = currentTimeDelta
         /\ h \in live
         /\ owed'[h] = owed[h] \/ CalledBackUpdated(h)
<1>1. /\ ServerInv /\ live \subseteq RestApis
      /\ owed \in [RestApis -> Nat]
  BY AskedFacts DEF ServerInv, ServerTypeOK
<1>2. ~ ServerSlot
  BY DEF ServerSlot, RetryTimeDelta, SlotRuns, InEventLoop, TimeDeltaFailed,
         BeginFlush, EndFlush
<1>3. ASSUME NEW a \in RestApis, HandlerSlot(a)
      PROVE  /\ flush = "updated" /\ currentTimeDelta' = currentTimeDelta
             /\ h \in live
             /\ owed'[h] = owed[h] \/ CalledBackUpdated(h)
  <2>1. CASE CalledBackUpdated(a)
    BY <1>1, <2>1 DEF CalledBackUpdated, CallBack
  <2>2. CASE CalledBackDead(a)
    BY <1>1, <2>2 DEF CalledBackDead, CallBack
  <2>3. ~ CalledBackFailed(a)
    BY DEF CalledBackFailed, CallBack
  <2>4. ~ AuthenticationRefused(a)
    BY DEF AuthenticationRefused, AsksForTimeDelta, SlotTriggered, InEventLoop,
           UpdateTimeDelta
  <2>5. ~ ResponseReceived(a) /\ ~ ResponseWithoutReply(a)
    BY DEF ResponseReceived, ResponseWithoutReply, SlotTriggered, InEventLoop,
           serverVars
  <2> QED
    BY <1>3, <2>1, <2>2, <2>3, <2>4, <2>5 DEF HandlerSlot
<1>4. ASSUME NEW a \in RestApis PROVE ~ Application(a)
  BY DEF Application, Post, CheckTimestamp, RequestMutexFree, PostInSlot,
         Destroy, InEventLoop, InFailureSlot, serverVars
<1>5. CASE \/ RunDeferredDelete /\ UNCHANGED handlerVars
           \/ ServerFinishes
           \/ \E a \in RestApis : HandlerFinishes(a)
           \/ UNCHANGED vars
  BY <1>5 DEF RunDeferredDelete, ServerFinishes, HandlerFinishes, FinishReply,
              vars, serverVars, handlerVars
<1> QED
  BY <1>2, <1>3, <1>4, <1>5 DEF Next, ThreadRuns

(* A slot of the Server leaves the handlers as they are.                   *)
LEMMA ReceivedLeavesHandlers ==
  ASSUME [Next]_vars, TimeDeltaReceived
  PROVE  UNCHANGED <<handlerReply, live, open, sent>>
<1>1. SlotRuns /\ flush = "none" /\ flush' = "updated"
  BY DEF TimeDeltaReceived, SlotRuns, InEventLoop, BeginFlush
<1>2. ASSUME NEW h \in RestApis, HandlerSlot(h) PROVE flush' = flush
  BY <1>2 DEF HandlerSlot, AuthenticationRefused, AsksForTimeDelta,
              UpdateTimeDelta, ResponseReceived, ResponseWithoutReply,
              serverVars, CalledBackUpdated, CalledBackFailed, CalledBackDead,
              CallBack
<1>3. ASSUME NEW h \in RestApis, Application(h) PROVE flush' = flush
  BY <1>3 DEF Application, Post, CheckTimestamp, PostInSlot, Destroy,
              serverVars
<1> QED
  BY <1>1, <1>2, <1>3
     DEF Next, ThreadRuns, ServerSlot, ServerFinishes, HandlerFinishes,
         handlerVars, histories, vars

(* What a step does to a handler: it opens a request, signs it again, or   *)
(* leaves what is signed as it is.                                         *)
SignsNothing(h) ==
  /\ sent'[h] = sent[h] /\ signed'[h] = signed[h]
  /\ currentUrl'[h] = currentUrl[h]
  /\ open'[h] > 0 => open[h] > 0

OpensRequest(h) ==
  /\ flush = "none" /\ flush' = "none"
  /\ pendingReply' = pendingReply
  /\ \/ sent'[h] = 0
     \/ sent'[h] = 1 /\ pendingReply = NoReply

LEMMA StepOfOne ==
  ASSUME OneAtATimeInv, HandlersStep, NEW h \in RestApis
  PROVE  \/ SignsNothing(h) \/ OpensRequest(h) \/ CalledBackUpdated(h)
<1>1. /\ HandlersInv /\ HandlersTypeOK /\ [Next]_vars
      /\ open[h] \in Nat
  BY AskedFacts, HandlersAssumption
     DEF HandlersTypeOK, HandlersAssumption, HandlersStep
<1>2. ASSUME NEW payload \in Payloads, Post(h, payload)
      PROVE  OpensRequest(h)
  <2>1. /\ flush = "none" /\ flush' = "none"
        /\ pendingReply' = pendingReply
        /\ \/ pendingReply = NoReply /\ sent' = [sent EXCEPT ![h] = 1]
           \/ sent' = [sent EXCEPT ![h] = 0]
    BY <1>2 DEF Post, CheckTimestamp, RequestMutexFree, TimestampAccurate
  <2> QED
    BY <1>1, <2>1 DEF HandlersTypeOK, OpensRequest
<1>3. CASE /\ ~ CalledBackUpdated(h)
           /\ \A payload \in Payloads : ~ Post(h, payload)
  <2>1. sent'[h] = sent[h] /\ ~ Posts(h) /\ ~ Transmits(h)
    BY <1>1, <1>3, WhoCounts, WhoTransmits
  <2>2. signed'[h] = signed[h] /\ currentUrl'[h] = currentUrl[h]
    BY <2>1, StepSigns
  <2>3. open' \in [RestApis -> 0 .. MaxOpen]
    BY <1>1, NextKeepsHandlersInv DEF HandlersInv, HandlersTypeOK
  <2>4. open'[h] \in Nat
    BY <2>3, HandlersAssumption DEF HandlersAssumption
  <2> QED
    BY <1>1, <2>1, <2>2, <2>4 DEF Posts, SignsNothing
<1> QED
  BY <1>2, <1>3

(* A message that is signed again is signed for the right window, ...      *)
LEMMA SignedAgainInTime ==
  ASSUME \A now \in Times, host \in Hosts :
           /\ now \in 0 .. UnsignedRange - 1
           /\ Truncated(ClockOffset[host])
                \in - UnsignedRange .. UnsignedRange - 1
           /\ now + Truncated(ClockOffset[host]) \in 0 .. UnsignedRange - 1,
         SigningInv, HandlersStep, NEW h \in RestApis, CalledBackUpdated(h),
         sent'[h] = 2
  PROVE  signed'[h].off \in -1 .. 1
<1>1. /\ OneAtATimeInv /\ HandlersInv /\ HandlersTypeOK
      /\ currentUrl[h] \in Hosts
      /\ h \in live /\ flush = "updated" /\ CallBack(h)
  BY AskedFacts DEF SigningInv, CalledBackUpdated
<1>2. sent'[h] = sent[h] + 1 /\ Transmits(h) /\ ~ Posts(h)
  BY <1>1, UpdatedTransmits
<1>3. sent[h] = 1 /\ owed[h] = 1
  BY <1>1, <1>2, CalledBackAsked
<1> DEFINE halves == ClockOffset[currentUrl[h]]
<1>4. currentTimeDelta = Truncated(halves) /\ halves \in Int
  BY <1>1, <1>3, SignedHandlersAssumption
     DEF SigningInv, MeasuredForTheRefused, SignedHandlersAssumption
<1>5. PICK now \in Times : signed'[h] = CalculateHash(h, now)
  BY <1>2 DEF HandlersStep
<1>6. /\ now \in 0 .. UnsignedRange - 1
      /\ Truncated(halves) \in - UnsignedRange .. UnsignedRange - 1
      /\ now + Truncated(halves) \in 0 .. UnsignedRange - 1
  BY <1>1
<1>7. HashSuffix(now, Truncated(halves)) - WindowAt(now, halves) \in -1 .. 1
  BY <1>4, <1>6, MeasuredIsInTime
<1>8. currentUrl'[h] = currentUrl[h]
  BY <1>2, StepSigns
<1> QED
  BY <1>4, <1>5, <1>7, <1>8 DEF CalculateHash, Destination

(* ... and the answer that begins the loop is right for its host.          *)
LEMMA ReceivedForTheRefused ==
  ASSUME SigningInv, HandlersStep, TimeDeltaReceived, NEW h \in live',
         SignsNothing(h), owed'[h] > 0, sent'[h] = 1
  PROVE  currentTimeDelta' = Truncated(ClockOffset[currentUrl'[h]])
<1>1. /\ OneAtATimeInv /\ ServerInv /\ HandlersTypeOK
      /\ live \subseteq RestApis
  BY AskedFacts DEF SigningInv
<1>2. SlotRuns /\ Success(Answer)
      /\ currentTimeDelta' = Truncated(Answer.document.halves)
      /\ owed' = owed
  BY DEF TimeDeltaReceived, BeginFlush
<1>3. /\ flush = "none" /\ pendingReply # NoReply
      /\ Answer = net.reply[pendingReply].answer /\ Answer.json
  BY <1>1, <1>2, Parts, SlotFacts DEF Success
<1>4. /\ h \in live /\ open[h] \in Nat
      /\ owed[h] + Bit(handlerReply[h]) <= open[h]
  BY <1>1, ReceivedLeavesHandlers, HandlersInvFacts, HandlersAssumption
     DEF HandlersStep, OneAtATimeInv, HandlersTypeOK, HandlersAssumption
<1>5. open[h] > 0 /\ sent[h] = 1
  <2>1. owed[h] \in Nat /\ owed[h] > 0
    BY <1>1, <1>2, <1>4 DEF ServerInv, ServerTypeOK
  <2>2. Bit(handlerReply[h]) \in Nat
    BY DEF Bit
  <2> QED
    BY <1>4, <2>1, <2>2 DEF SignsNothing
<1>6. measuring.host = currentUrl[h]
  BY <1>1, <1>3, <1>4, <1>5 DEF SigningInv, MeasuringForTheRefused
<1>7. Answer.document.halves = ClockOffset[measuring.host]
  BY <1>3 DEF SigningInv, AnswerIsRight, MeasuredRight
<1> QED
  BY <1>2, <1>6, <1>7 DEF SignsNothing

(* The steps of the handlers keep each part of SigningInv.                 *)
LEMMA StepKeepsSigningInv ==
  ASSUME "overlap" \notin Liberties,
         \A now \in Times, host \in Hosts :
           /\ now \in 0 .. UnsignedRange - 1
           /\ Truncated(ClockOffset[host])
                \in - UnsignedRange .. UnsignedRange - 1
           /\ now + Truncated(ClockOffset[host]) \in 0 .. UnsignedRange - 1,
         SigningInv, HandlersStep
  PROVE  SigningInv'
<1>1. /\ OneAtATimeInv /\ HandlersInv /\ HandlersTypeOK /\ [Next]_vars
      /\ live \subseteq RestApis
      /\ \A h \in RestApis : open[h] \in Nat
  BY AskedFacts, HandlersAssumption
     DEF SigningInv, HandlersStep, HandlersTypeOK, HandlersAssumption
<1>2. /\ OneAtATimeInv' /\ HandlersTypeOK'
      /\ \A h \in RestApis : open'[h] \in 0 .. MaxOpen
  BY <1>1, NextKeepsOneAtATime DEF OneAtATimeInv, HandlersInv, HandlersTypeOK
<1>3. \A h \in RestApis : open'[h] \in Nat
  BY <1>2, HandlersAssumption DEF HandlersAssumption
<1>4. \A h \in RestApis :
        SignsNothing(h) \/ OpensRequest(h) \/ CalledBackUpdated(h)
  BY <1>1, StepOfOne
<1>5. /\ schemeAndHost' = schemeAndHost /\ schemeAndHost \in Hosts
      /\ currentUrl \in [RestApis -> Hosts]
      /\ currentUrl' = [h \in RestApis |-> IF Posts(h) THEN schemeAndHost
                                                      ELSE currentUrl[h]]
  BY DEF HandlersStep, configuration, SigningInv
<1>6. currentUrl' \in [RestApis -> Hosts]
  BY <1>5
<1>7. OpenHere'
  BY <1>1, <1>3, <1>5 DEF OpenHere, SigningInv, Posts
<1>8. AnswerIsRight'
  <2> SUFFICES ASSUME pendingReply' # NoReply
               PROVE  MeasuredRight(net.reply[pendingReply].answer)'
    BY DEF AnswerIsRight
  <2>1. CASE Transmits(ServerOwner)
    BY <1>1, <2>1, ServerAsks DEF MeasuredRight
  <2> QED
    BY <1>1, <2>1, ServerAsks DEF MeasuredRight, HandlersStep
<1>9. MeasuringForTheRefused'
  <2> SUFFICES ASSUME pendingReply' # NoReply, flush' = "none",
                      NEW h \in RestApis, open'[h] > 0, sent'[h] = 1
               PROVE  measuring'.host = currentUrl'[h]
    BY DEF MeasuringForTheRefused
  <2>1. CASE Transmits(ServerOwner)
    BY <1>5, <1>7, <2>1 DEF HandlersStep, TimeDeltaUrl, OpenHere
  <2>2. CASE ~ Transmits(ServerOwner)
    <3>1. /\ pendingReply # NoReply /\ flush = "none"
          /\ measuring' = measuring
      BY <1>1, <2>2, ServerAsks, PendingOutsideLoops DEF HandlersStep
    <3>2. SignsNothing(h)
      BY <1>4, <3>1 DEF OpensRequest, CalledBackUpdated
    <3> QED
      BY <3>1, <3>2 DEF SignsNothing, SigningInv, MeasuringForTheRefused
  <2> QED
    BY <2>1, <2>2
<1>10. MeasuredForTheRefused'
  <2> SUFFICES ASSUME flush' = "updated",
                      NEW h \in live', owed'[h] > 0, sent'[h] = 1
               PROVE  currentTimeDelta'
                        = Truncated(ClockOffset[currentUrl'[h]])
    BY DEF MeasuredForTheRefused
  <2>1. h \in RestApis
    BY <1>2 DEF HandlersTypeOK
  <2>2. ~ CalledBackUpdated(h)
    BY <1>1, CalledBackAsked DEF CalledBackUpdated
  <2>3. SignsNothing(h)
    BY <1>4, <2>1, <2>2 DEF OpensRequest
  <2>4. CASE TimeDeltaReceived
    BY <2>3, <2>4, ReceivedForTheRefused
  <2>5. CASE ~ TimeDeltaReceived
    BY <1>1, <2>2, <2>3, <2>5, InTheLoop
       DEF SignsNothing, SigningInv, MeasuredForTheRefused
  <2> QED
    BY <2>4, <2>5
<1>11. RetryIsInTime'
  <2> SUFFICES ASSUME NEW h \in RestApis, open'[h] > 0, sent'[h] = 2
               PROVE  signed'[h].off \in -1 .. 1
    BY DEF RetryIsInTime
  <2>1. CASE CalledBackUpdated(h)
    BY <2>1, SignedAgainInTime
  <2>2. CASE SignsNothing(h)
    BY <2>2 DEF SignsNothing, SigningInv, RetryIsInTime
  <2> QED
    BY <1>4, <2>1, <2>2 DEF OpensRequest
<1> QED
  BY <1>2, <1>5, <1>6, <1>7, <1>8, <1>9, <1>10, <1>11 DEF SigningInv

(* While the host is only set when no request is open, and no time is      *)
(* before the epoch or beyond an unsigned long long, a message that was    *)
(* refused is signed again for the window of the web server it goes to,    *)
(* whoever else posts, is refused or destroyed meanwhile.                  *)
THEOREM RetriesAreInTime ==
  ASSUME "overlap" \notin Liberties, SwitchesAnytime = FALSE,
         \A now \in Times, host \in Hosts :
           /\ now \in 0 .. UnsignedRange - 1
           /\ Truncated(ClockOffset[host])
                \in - UnsignedRange .. UnsignedRange - 1
           /\ now + Truncated(ClockOffset[host]) \in 0 .. UnsignedRange - 1
  PROVE  SigningSpec => []RetryIsInTime
<1>1. SigningInit => SigningInv
  <2> SUFFICES ASSUME SigningInit PROVE SigningInv
    OBVIOUS
  <2>1. OneAtATimeInv
    BY InitEstablishesOneAtATime DEF SigningInit
  <2>2. /\ pendingReply = NoReply /\ flush = "none"
        /\ \A h \in RestApis : open[h] = 0
        /\ schemeAndHost \in Hosts
        /\ currentUrl = [h \in RestApis |-> schemeAndHost]
    BY DEF SigningInit, Init, Server
  <2> QED
    BY <2>1, <2>2 DEF SigningInv, OpenHere, AnswerIsRight, RetryIsInTime,
                      MeasuringForTheRefused, MeasuredForTheRefused
<1>2. SigningInv /\ [SigningNext]_signingState => SigningInv'
  <2> SUFFICES ASSUME SigningInv, [SigningNext]_signingState
               PROVE  SigningInv'
    OBVIOUS
  <2>1. CASE HandlersStep
    BY <2>1, StepKeepsSigningInv
  <2>2. CASE Configure \/ UNCHANGED signingState
    <3>1. UNCHANGED <<vars, currentUrl, measuring, signed>>
      BY <2>2 DEF Configure, signingState, signingVars
    <3>2. OneAtATimeInv'
      BY <3>1, NextKeepsOneAtATime DEF SigningInv
    <3>3. /\ schemeAndHost' \in Hosts
          /\ \/ schemeAndHost' = schemeAndHost
             \/ \A h \in RestApis : open[h] = 0
      BY <2>2 DEF Configure, SetSchemeAndHost, SetTimeDeltaSlug, SetSecret,
                  SetDefaultSecret, signingState, signingVars, configuration,
                  SigningInv
    <3>4. UNCHANGED <<net, serverVars, handlerVars>>
      BY <3>1 DEF vars
    <3> QED
      BY <3>1, <3>2, <3>3, <3>4
         DEF SigningInv, OpenHere, AnswerIsRight, MeasuredRight,
             MeasuringForTheRefused, MeasuredForTheRefused, RetryIsInTime,
             serverVars, handlerVars, histories
  <2> QED
    BY <2>1, <2>2 DEF SigningNext
<1>3. SigningInv => RetryIsInTime
  BY DEF SigningInv
<1> QED
  BY <1>1, <1>2, <1>3, PTL DEF SigningSpec, signingState
=============================================================================
