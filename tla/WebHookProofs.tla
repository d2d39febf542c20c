--------------------------- MODULE WebHookProofs ----------------------------
(***************************************************************************)
(* Proofs about the WebHook class, for every number of retries and every   *)
(* answer: WebHookInv is an inductive invariant, of which its type         *)
(* invariant and its safety properties are consequences.                   *)
(*                                                                         *)
(* Most steps either drop the pending reply, or post a request when none   *)
(* is pending; the first part says what both do to the network, the second *)
(* follows the counts.                                                     *)
(***************************************************************************)
EXTENDS WebHook, QtNetworkProofs

-----------------------------------------------------------------------------
(* The one reply that is pending                                           *)

(* Replies belong to one of the slots; what they answer may be read.       *)
RepliesOK(n) ==
  \A r \in Alive(n) :
    /\ n.reply[r].owner \in Slots
    /\ n.reply[r].owner = TimestampSlot =>
         LET answer == n.reply[r].answer
         IN  "correction" \in DOMAIN answer => answer.correction \in Int

(* No reply is still to be answered.                                       *)
Quiet(n) ==
  /\ NetworkOK(n)
  /\ RepliesOK(n)
  /\ \A slot \in Slots : OnlyOpen(n, slot, NoReply)

(* The null pointer is no reply, and belongs to no slot.                   *)
LEMMA PendingSlotFacts ==
  ASSUME WebHookInv
  PROVE  /\ NetworkOK(net) /\ RepliesOK(net)
         /\ pendingReply = NoReply <=> PendingSlot = "none"
         /\ PendingSlot \in Slots \cup {"none"}
BY DEF WebHookInv, OnlyPending, RepliesOK, PendingSlot, Slots, MessageSlot,
       TimestampSlot

(* While nothing is pending, the network is quiet.                         *)
LEMMA QuietWhenNonePends ==
  ASSUME WebHookInv, pendingReply = NoReply
  PROVE  Quiet(net)
BY PendingSlotFacts DEF WebHookInv, OnlyPending, Quiet

(* A slot is run by the pending reply, and leaves none.                    *)
LEMMA SlotLeavesQuiet ==
  ASSUME WebHookInv, NEW slot \in Slots, Ready(slot)
  PROVE  /\ PendingSlot = slot
         /\ pendingReply \in Alive(net)
         /\ net.reply[pendingReply].owner = slot
         /\ Answer = net.reply[pendingReply].answer
         /\ Quiet(AfterRead)
<1> DEFINE p == IF PendingSlot = slot THEN pendingReply ELSE NoReply
<1>1. /\ NetworkOK(net) /\ RepliesOK(net)
      /\ SlotReady(net, slot) /\ OnlyOpen(net, slot, p)
  BY PendingSlotFacts DEF WebHookInv, OnlyPending, Ready
<1>2. p # NoReply
  BY <1>1, SlotReads
<1>3. PendingSlot = slot /\ p = pendingReply
  BY <1>2
<1>4. /\ pendingReply \in Alive(net)
      /\ net.reply[pendingReply].owner = slot
      /\ Answer = net.reply[pendingReply].answer
      /\ NetworkOK(AfterRead)
      /\ AfterRead.reply = net.reply /\ Alive(AfterRead) = Alive(net)
      /\ OnlyOpen(AfterRead, slot, NoReply)
      /\ \A o : o # slot => Kept(net, AfterRead, o)
  <2> HIDE DEF p
  <2> QED
    BY <1>1, <1>3, SlotReads DEF Answer, AfterRead
<1>5. \A other \in Slots : OnlyOpen(AfterRead, other, NoReply)
  <2> SUFFICES ASSUME NEW other \in Slots, other # slot
               PROVE  OnlyOpen(AfterRead, other, NoReply)
    BY <1>4
  <2>1. OnlyOpen(net, other, NoReply)
    BY <1>3 DEF WebHookInv, OnlyPending
  <2> QED
    BY <1>4, <2>1, KeptOpen
<1>6. RepliesOK(AfterRead)
  BY <1>1, <1>4 DEF RepliesOK
<1> QED
  BY <1>3, <1>4, <1>5, <1>6 DEF Quiet

(* After the slot nothing is pending, ...                                  *)
LEMMA DroppedPendsNone ==
  ASSUME WebHookInv, NEW slot \in Slots, Ready(slot), DropReply
  PROVE  /\ NetworkOK(net') /\ OnlyPending' /\ PendingSlot' = "none"
         /\ pendingReply' = NoReply
<1>1. Quiet(net') /\ pendingReply' = NoReply
  BY SlotLeavesQuiet DEF DropReply
<1>2. PendingSlot' = "none"
  BY <1>1 DEF PendingSlot
<1>3. OnlyPending'
  BY <1>1, <1>2 DEF Quiet, RepliesOK, OnlyPending, Slots, MessageSlot,
                    TimestampSlot, OnlyOpen, Undelivered, Queued, Alive
<1> QED
  BY <1>1, <1>2, <1>3 DEF Quiet

(* ... and after a post one reply is.                                      *)
LEMMA PostedPends ==
  ASSUME NEW n, Quiet(n), NEW slot \in Slots, NEW payload,
         net' = Posted(n, slot, payload), pendingReply' = NewReply(n)
  PROVE  /\ NetworkOK(net') /\ OnlyPending' /\ PendingSlot' = slot
         /\ pendingReply' # NoReply
<1> DEFINE new == NewReply(n)
<1>1. /\ NetworkOK(net')
      /\ Alive(net') = Alive(n) \cup {new}
      /\ new \in Nat \ {NoReply} /\ new \notin Alive(n)
      /\ \A q \in Alive(n) : net'.reply[q] = n.reply[q]
      /\ net'.reply[new] = [owner |-> slot, payload |-> payload,
                            finished |-> FALSE, answer |-> NothingRead]
  BY PostedOK DEF Quiet
<1>2. PendingSlot' = slot /\ pendingReply' = new /\ new # NoReply
  BY <1>1 DEF PendingSlot
<1>3. OnlyOpen(net', slot, new)
  BY PostedOpen DEF Quiet
<1>4. \A other \in Slots : other # slot => OnlyOpen(net', other, NoReply)
  BY PostedKeeps, KeptOpen DEF Quiet
<1>5. \A other \in Slots :
        OnlyOpen(net', other,
                 IF PendingSlot' = other THEN pendingReply' ELSE NoReply)
  BY <1>2, <1>3, <1>4
<1>6. "correction" \notin DOMAIN NothingRead
  BY DEF NothingRead
<1>7. RepliesOK(net')
  BY <1>1, <1>6 DEF Quiet, RepliesOK
<1>8. OnlyPending'
  BY <1>1, <1>2, <1>5, <1>7
     DEF RepliesOK, OnlyPending, OnlyOpen, Undelivered, Queued, Alive
<1> QED
  BY <1>1, <1>2, <1>8

(* The event loop and the network leave what is pending as it is.          *)
LEMMA NetworkLeavesPending ==
  ASSUME WebHookInv, RunDeferredDelete \/ FinishReply
  PROVE  /\ NetworkOK(net') /\ OnlyPending' /\ PendingSlot' = PendingSlot
<1> DEFINE p(slot) == IF PendingSlot = slot THEN pendingReply ELSE NoReply
<1>1. /\ NetworkOK(net) /\ RepliesOK(net) /\ pendingReply' = pendingReply
      /\ \A slot \in Slots : OnlyOpen(net, slot, p(slot))
      /\ PendingSlot \in Slots \cup {"none"}
      /\ pendingReply = NoReply <=> PendingSlot = "none"
  BY PendingSlotFacts
     DEF WebHookInv, OnlyPending, RunDeferredDelete, FinishReply
<1>2. /\ NetworkOK(net') /\ RepliesOK(net')
      /\ \A slot \in Slots : OnlyOpen(net', slot, p(slot))
  <2>1. CASE RunDeferredDelete
    <3>1. DeleteReady(net) /\ net' = Deleted(net)
      BY <2>1 DEF RunDeferredDelete
    <3>2. /\ NetworkOK(net') /\ Alive(net') \subseteq Alive(net)
          /\ \A q \in Alive(net') : net'.reply[q] = net.reply[q]
      BY <1>1, <3>1, DeletedOK
    <3>3. \A slot \in Slots : OnlyOpen(net', slot, p(slot))
      BY <1>1, <3>1, DeletedFrames
    <3> QED
      BY <1>1, <3>2, <3>3 DEF RepliesOK
  <2>2. CASE FinishReply
    <3>1. PICK r, a : /\ r \in Alive(net) /\ CanFinish(net, r)
                      /\ a \in AnswersTo(net.reply[r])
                      /\ net' = Finished(net, r, a)
      BY <2>2 DEF FinishReply
    <3>2. /\ NetworkOK(net') /\ Alive(net') = Alive(net)
          /\ \A q \in Alive(net) :
               /\ net'.reply[q].owner = net.reply[q].owner
               /\ q # r => net'.reply[q] = net.reply[q]
          /\ net'.reply[r].answer = a
      BY <1>1, <3>1, FinishedOK
    <3>3. \A slot \in Slots : OnlyOpen(net', slot, p(slot))
      BY <1>1, <3>1, FinishedFrames
    <3>4. net.reply[r].owner = TimestampSlot =>
            ("correction" \in DOMAIN a => a.correction \in Int)
      BY <3>1, WebHookAssumption DEF AnswersTo, WebHookAssumption
    <3> QED
      BY <1>1, <3>1, <3>2, <3>3, <3>4 DEF RepliesOK
  <2> QED
    BY <2>1, <2>2
<1>3. PendingSlot' = PendingSlot
  <2>1. CASE pendingReply = NoReply
    BY <1>1, <2>1 DEF PendingSlot
  <2>2. CASE pendingReply # NoReply
    <3>1. PendingSlot \in Slots /\ p(PendingSlot) = pendingReply
      BY <1>1, <2>2
    <3>2. net'.reply[pendingReply].owner = PendingSlot
      BY <1>2, <2>2, <3>1 DEF OnlyOpen
    <3> QED
      BY <1>1, <2>2, <3>2 DEF PendingSlot
  <2> QED
    BY <2>1, <2>2
<1>4. pendingReply' \in Alive(net') \cup {NoReply}
  BY <1>1, <1>2 DEF OnlyOpen
<1>5. \A slot \in Slots :
        OnlyOpen(net', slot,
                 IF PendingSlot' = slot THEN pendingReply' ELSE NoReply)
  BY <1>1, <1>2, <1>3
<1>6. OnlyPending'
  BY <1>2, <1>4, <1>5
     DEF RepliesOK, OnlyPending, OnlyOpen, Undelivered, Queued, Alive
<1> QED
  BY <1>2, <1>3, <1>6

-----------------------------------------------------------------------------
(* The counts                                                              *)

(* WebHookInv without the network                                          *)
Counts ==
  /\ currentUrl \in Messages \cup {NoUrl}
  /\ remainingRetries \in 0 .. MaximumNumberRetries
  /\ resendTimer \in BOOLEAN /\ timeDeltaTimer \in BOOLEAN
  /\ globalTimeDelta \in Int
  /\ job \in {"idle", "send", "force", "slot", "lost"}
  /\ sent \in Nat /\ asked \in Nat /\ outcomes \in {0, 1}
  /\ OneInProgress
  /\ NoMessageWhenForced
  /\ RetriesPay
  /\ TransmissionsBounded

LEMMA CountsNow ==
  ASSUME WebHookInv
  PROVE  Counts
BY DEF WebHookInv, WebHookTypeOK, Counts

LEMMA CountsNext ==
  ASSUME NetworkOK(net'), OnlyPending', Counts'
  PROVE  WebHookInv'
BY DEF WebHookInv, WebHookTypeOK, Counts, NetworkOK, NetworkTypeOK, EventsOK,
       FinishedFirst, Queued, Alive, OnlyPending

(* A count grows by one at most.                                           *)
LEMMA CountedByOne ==
  ASSUME NEW n \in Nat
  PROVE  Counted(n) \in Nat /\ Counted(n) <= n + 1
BY DEF Counted

(* A request more of one kind, and one less to come                        *)
LEMMA OneMore ==
  ASSUME NEW s \in Nat, NEW t \in Nat, t <= s + 1,
         NEW left \in Nat, NEW bound \in Nat, s + (left + 1) <= bound
  PROVE  t + left <= bound /\ t <= bound
OBVIOUS

(* A transmission more, ...                                                *)
LEMMA OneMoreSent ==
  ASSUME NEW s \in Nat, NEW a \in Nat, NEW t \in Nat, t <= s + 1,
         NEW left \in Nat, NEW bound \in Nat, s + a + (left + 1) <= bound
  PROVE  t + a + left <= bound /\ t + a <= bound
OBVIOUS

(* ... or a time delta request                                             *)
LEMMA OneMoreAsked ==
  ASSUME NEW s \in Nat, NEW a \in Nat, NEW t \in Nat, t <= a + 1,
         NEW left \in Nat, NEW bound \in Nat, s + a + (left + 1) <= bound
  PROVE  s + t + left <= bound /\ s + t <= bound
OBVIOUS

(* No request, and no more to come than before                             *)
LEMMA NoneMore ==
  ASSUME NEW s \in Nat, NEW a \in Nat, NEW left \in Nat, NEW then \in Nat,
         then <= left, NEW bound \in Nat, s + a + left <= bound
  PROVE  s + a + then <= bound
OBVIOUS

(* The bound of the requests, in the terms of RequestsLeft                 *)
LEMMA RequestBoundIs ==
  /\ MaximumNumberRetries \in Nat /\ RequestBound \in Nat
  /\ RequestBound = 1 + (IF MaximumNumberRetries = 0
                         THEN 0 ELSE 2 * MaximumNumberRetries - 1)
  /\ MaximumNumberRetries + 1 <= RequestBound
BY WebHookAssumption DEF WebHookAssumption, RequestBound

-----------------------------------------------------------------------------
(* Each operation keeps WebHookInv.                                        *)

LEMMA SendKeepsInv ==
  ASSUME WebHookInv, NEW message \in Messages, Send(message)
  PROVE  WebHookInv'
<1>1. Counts /\ pendingReply = NoReply /\ ~ resendTimer /\ ~ timeDeltaTimer
  BY CountsNow DEF Send, Counts, OneInProgress
<1>2. /\ NetworkOK(net') /\ OnlyPending' /\ PendingSlot' = MessageSlot
      /\ pendingReply' # NoReply
  BY <1>1, QuietWhenNonePends, PostedPends DEF Send, DoSend, Slots
<1>3. Counts'
  BY <1>1, <1>2, RequestBoundIs
     DEF Send, Counts, OneInProgress, NoMessageWhenForced, RetriesPay,
         TransmissionsBounded, TransmissionsLeft, RequestsLeft, Free,
         MessageSlot, TimestampSlot
<1> QED
  BY <1>2, <1>3, CountsNext

LEMMA ForceKeepsInv ==
  ASSUME WebHookInv, ForceTimeDeltaAdjustment
  PROVE  WebHookInv'
<1>1. Counts /\ pendingReply = NoReply /\ ~ resendTimer /\ ~ timeDeltaTimer
  BY CountsNow DEF ForceTimeDeltaAdjustment, Counts, OneInProgress
<1>2. /\ NetworkOK(net') /\ OnlyPending' /\ PendingSlot' = TimestampSlot
      /\ pendingReply' # NoReply
  BY <1>1, QuietWhenNonePends, PostedPends
     DEF ForceTimeDeltaAdjustment, DoTimestampAdjustment, Slots
<1>3. Counts'
  BY <1>1, <1>2, RequestBoundIs
     DEF ForceTimeDeltaAdjustment, Counts, OneInProgress, NoMessageWhenForced,
         RetriesPay, TransmissionsBounded, TransmissionsLeft, RequestsLeft,
         Free, UrlOfForced, MessageSlot, TimestampSlot
<1> QED
  BY <1>2, <1>3, CountsNext

LEMMA ResendKeepsInv ==
  ASSUME WebHookInv, ResendTimeout
  PROVE  WebHookInv'
<1>1. Counts /\ pendingReply = NoReply /\ resendTimer /\ ~ timeDeltaTimer
  BY CountsNow DEF ResendTimeout, Counts, OneInProgress
<1>2. /\ NetworkOK(net') /\ OnlyPending' /\ PendingSlot' = MessageSlot
      /\ pendingReply' # NoReply
  BY <1>1, QuietWhenNonePends, PostedPends DEF ResendTimeout, DoSend, Slots
<1>3. /\ sent \in Nat /\ asked \in Nat /\ asked' = asked /\ job' = job
      /\ sent' \in Nat /\ sent' <= sent + 1
      /\ remainingRetries \in 0 .. MaximumNumberRetries
      /\ remainingRetries' = remainingRetries
      /\ resendTimer /\ ~ timeDeltaTimer
      /\ ~ resendTimer' /\ ~ timeDeltaTimer'
  BY <1>1, CountedByOne DEF ResendTimeout, Counts
<1>4. job \in {"send", "slot"}
  BY <1>1 DEF Counts, OneInProgress, NoMessageWhenForced, Free
<1>5. RetriesPay' /\ TransmissionsBounded'
  <2> DEFINE r == remainingRetries
             R == MaximumNumberRetries
             F == IF r = 0 THEN 0 ELSE 2 * r - 1
  <2>1. R \in Nat /\ R + 1 \in Nat /\ r \in Nat /\ F \in Nat
    BY <1>3, WebHookAssumption DEF WebHookAssumption
  <2>2. TransmissionsLeft = r + 1
    BY <1>3 DEF TransmissionsLeft
  <2>3. RequestsLeft = F + 1
    BY <1>3, <2>1 DEF RequestsLeft
  <2>4. TransmissionsLeft' = r
    BY <1>2, <1>3, <2>1 DEF TransmissionsLeft, MessageSlot, TimestampSlot
  <2>5. RequestsLeft' = F
    BY <1>2, <1>3, <2>1 DEF RequestsLeft, MessageSlot, TimestampSlot
  <2>6. sent + (r + 1) <= R + 1
    BY <1>1, <1>4, <2>2 DEF Counts, RetriesPay
  <2>7. sent + asked + (F + 1) <= RequestBound
    BY <1>1, <1>4, <2>3 DEF Counts, RetriesPay
  <2>8. sent' + r <= R + 1 /\ sent' <= R + 1
    BY <1>3, <2>1, <2>6, OneMore
  <2>9. sent' + asked' + F <= RequestBound /\ sent' + asked' <= RequestBound
    <3>1. RequestBound \in Nat
      BY RequestBoundIs
    <3>2. ASSUME NEW f \in Nat, NEW bound \in Nat,
                 sent + asked + (f + 1) <= bound
          PROVE  sent' + asked + f <= bound /\ sent' + asked <= bound
      BY <1>3, <3>2, OneMoreSent
    <3> HIDE DEF F
    <3> QED
      BY <1>3, <2>1, <2>7, <3>1, <3>2
  <2>10. RetriesPay'
    BY <1>3, <1>4, <2>4, <2>5, <2>8, <2>9 DEF RetriesPay
  <2> QED
    BY <2>8, <2>9, <2>10 DEF TransmissionsBounded
<1>6. Counts'
  BY <1>1, <1>2, <1>3, <1>4, <1>5
     DEF ResendTimeout, Counts, OneInProgress, NoMessageWhenForced, Free
<1> QED
  BY <1>2, <1>6, CountsNext

LEMMA TimeDeltaTimeoutKeepsInv ==
  ASSUME WebHookInv, TimeDeltaTimeout
  PROVE  WebHookInv'
<1>1. Counts /\ pendingReply = NoReply /\ ~ resendTimer /\ timeDeltaTimer
  BY CountsNow DEF TimeDeltaTimeout, Counts, OneInProgress
<1>2. /\ NetworkOK(net') /\ OnlyPending' /\ PendingSlot' = TimestampSlot
      /\ pendingReply' # NoReply
  BY <1>1, QuietWhenNonePends, PostedPends
     DEF TimeDeltaTimeout, DoTimestampAdjustment, Slots
<1>3. /\ sent \in Nat /\ asked \in Nat /\ sent' = sent /\ job' = job
      /\ asked' \in Nat /\ asked' <= asked + 1
      /\ remainingRetries \in 0 .. MaximumNumberRetries
      /\ remainingRetries' = remainingRetries
      /\ ~ resendTimer /\ timeDeltaTimer
      /\ ~ resendTimer' /\ ~ timeDeltaTimer'
  BY <1>1, CountedByOne DEF TimeDeltaTimeout, Counts
<1>4. job # "idle" /\ job # "lost" /\ PendingSlot = "none"
  BY <1>1, PendingSlotFacts DEF Counts, OneInProgress, Free
<1>5. RetriesPay' /\ TransmissionsBounded'
  <2> DEFINE r == remainingRetries
             F == IF r = 0 THEN 0 ELSE 2 * r - 1
  <2>1. /\ MaximumNumberRetries + 1 \in Nat /\ r \in Nat /\ F \in Nat
        /\ RequestBound \in Nat /\ MaximumNumberRetries + 1 <= RequestBound
    BY <1>3, RequestBoundIs
  <2>2. TransmissionsLeft = r + 1 /\ TransmissionsLeft' = r + 1
    BY <1>2, <1>3 DEF TransmissionsLeft
  <2>3. RequestsLeft = (F + 1) + 1
    BY <1>3, <1>4, <2>1 DEF RequestsLeft, TimestampSlot
  <2>4. RequestsLeft' = F + 1
    BY <1>2, <1>3, <2>1 DEF RequestsLeft
  <2>5. sent <= MaximumNumberRetries + 1
    BY <1>1 DEF Counts, TransmissionsBounded
  <2>6. ASSUME NEW f \in Nat, NEW bound \in Nat,
               sent + asked + (f + 1) <= bound
        PROVE  sent + asked' + f <= bound /\ sent + asked' <= bound
    <3>1. /\ sent \in Nat /\ asked \in Nat
          /\ asked' \in Nat /\ asked' <= asked + 1
      BY <1>3
    <3> QED
      BY <2>6, <3>1, OneMoreAsked
  <2> HIDE DEF F
  <2>7. CASE job # "force"
    <3>1. sent + (r + 1) <= MaximumNumberRetries + 1
      BY <1>1, <1>4, <2>2, <2>7 DEF Counts, RetriesPay
    <3>2. sent + asked + ((F + 1) + 1) <= RequestBound
      BY <1>1, <1>4, <2>3, <2>7 DEF Counts, RetriesPay
    <3>3. /\ sent + asked' + (F + 1) <= RequestBound
          /\ sent + asked' <= RequestBound
      <4>1. F + 1 \in Nat
        BY <2>1
      <4> QED
        BY <2>1, <2>6, <3>2, <4>1
    <3> QED
      BY <1>3, <2>2, <2>4, <2>5, <2>7, <3>1, <3>3
         DEF RetriesPay, TransmissionsBounded
  <2>8. CASE job = "force"
    <3>1. sent = 0 /\ asked + (r + 1) <= MaximumNumberRetries + 1
      BY <1>1, <1>3, <2>1, <2>8 DEF Counts, RetriesPay, NoMessageWhenForced
    <3>2. /\ asked' + r <= MaximumNumberRetries + 1
          /\ asked' <= MaximumNumberRetries + 1
      BY <1>3, <2>1, <3>1, OneMore
    <3>3. asked' <= RequestBound
      BY <1>3, <2>1, <3>2
    <3> QED
      BY <1>3, <2>5, <2>8, <3>1, <3>2, <3>3
         DEF RetriesPay, TransmissionsBounded
  <2> QED
    BY <2>7, <2>8
<1>6. Counts'
  BY <1>1, <1>2, <1>3, <1>5
     DEF TimeDeltaTimeout, Counts, OneInProgress, NoMessageWhenForced, Free,
         MessageSlot, TimestampSlot
<1> QED
  BY <1>2, <1>6, CountsNext

(* An outcome is reported, and perhaps the class called in that slot.      *)
LEMMA ReportKeepsInv ==
  ASSUME WebHookInv, NEW slot \in Slots, Ready(slot),
         NEW clears \in BOOLEAN, Report(clears),
         UNCHANGED <<resendTimer, timeDeltaTimer, globalTimeDelta>>
  PROVE  WebHookInv'
<1>1. /\ Counts /\ pendingReply # NoReply
      /\ ~ resendTimer /\ ~ timeDeltaTimer
  BY CountsNow DEF Ready, Counts, OneInProgress
<1>4. outcomes' \in {0, 1}
  BY <1>1 DEF Counts, Report
<1>2. CASE /\ DropReply /\ job' = "idle"
           /\ currentUrl' = IF clears THEN NoUrl ELSE currentUrl
           /\ UNCHANGED <<remainingRetries, sent, asked>>
  <2>1. /\ NetworkOK(net') /\ OnlyPending' /\ pendingReply' = NoReply
    BY <1>2, DroppedPendsNone
  <2>2. Counts'
    BY <1>1, <1>2, <1>4, <2>1
       DEF Counts, OneInProgress, NoMessageWhenForced, RetriesPay,
           TransmissionsBounded, Free
  <2> QED
    BY <2>1, <2>2, CountsNext
<1>3. ASSUME NEW message \in Messages, DoSend(AfterRead, message),
             currentUrl' = IF clears THEN NoUrl ELSE message,
             job' = IF clears THEN "slot" ELSE "send",
             remainingRetries' = MaximumNumberRetries,
             sent' = 1, asked' = 0
      PROVE  WebHookInv'
  <2>1. /\ NetworkOK(net') /\ OnlyPending' /\ PendingSlot' = MessageSlot
        /\ pendingReply' # NoReply
    BY <1>3, SlotLeavesQuiet, PostedPends DEF DoSend, Slots
  <2>2. Counts'
    BY <1>1, <1>3, <1>4, <2>1, RequestBoundIs
       DEF Counts, OneInProgress, NoMessageWhenForced, RetriesPay,
           TransmissionsBounded, TransmissionsLeft, RequestsLeft, Free,
           MessageSlot, TimestampSlot
  <2> QED
    BY <2>1, <2>2, CountsNext
<1>5. CASE /\ DoTimestampAdjustment(AfterRead)
           /\ currentUrl' = IF clears THEN NoUrl ELSE UrlOfForced
           /\ job' = "force"
           /\ remainingRetries' = MaximumNumberRetries
           /\ sent' = 0 /\ asked' = 1
  <2>1. /\ NetworkOK(net') /\ OnlyPending' /\ PendingSlot' = TimestampSlot
        /\ pendingReply' # NoReply
    BY <1>5, SlotLeavesQuiet, PostedPends DEF DoTimestampAdjustment, Slots
  <2>2. Counts'
    BY <1>1, <1>4, <1>5, <2>1, RequestBoundIs
       DEF Counts, OneInProgress, NoMessageWhenForced, RetriesPay,
           TransmissionsBounded, TransmissionsLeft, RequestsLeft, Free,
           UrlOfForced, MessageSlot, TimestampSlot
  <2> QED
    BY <2>1, <2>2, CountsNext
<1> QED
  BY <1>2, <1>3, <1>5 DEF Report

(* A failed message is followed by one of the timers.                      *)
LEMMA RetryMessageKeepsInv ==
  ASSUME WebHookInv, RetryMessage
  PROVE  WebHookInv'
<1>1. /\ Counts /\ pendingReply # NoReply
      /\ Ready(MessageSlot) /\ DropReply
      /\ PendingSlot = MessageSlot
  BY CountsNow, SlotLeavesQuiet DEF RetryMessage, Slots, Ready
<1>2. /\ NetworkOK(net') /\ OnlyPending' /\ PendingSlot' = "none"
      /\ pendingReply' = NoReply
  BY <1>1, DroppedPendsNone DEF Slots
<1>3. /\ sent \in Nat /\ asked \in Nat
      /\ remainingRetries \in 1 .. MaximumNumberRetries
      /\ remainingRetries' = remainingRetries - 1
      /\ UNCHANGED <<currentUrl, globalTimeDelta, job, sent, asked, outcomes>>
  BY <1>1, RequestBoundIs
     DEF RetryMessage, MayRetry, RetriesAfter, Counts, histories
<1>4. ~ resendTimer /\ ~ timeDeltaTimer /\ job \in {"send", "slot"}
  BY <1>1 DEF Counts, OneInProgress, NoMessageWhenForced, Free
<1>5. \/ timeDeltaTimer' /\ ~ resendTimer' /\ remainingRetries' > 0
      \/ resendTimer' /\ ~ timeDeltaTimer'
  BY <1>4 DEF RetryMessage, NeedsTimeDelta, ResendsAtOnce, RetriesAfter
<1>6. resendTimer' \in BOOLEAN /\ timeDeltaTimer' \in BOOLEAN
  BY <1>1 DEF RetryMessage, Counts
<1>7. RetriesPay'
  <2> DEFINE r == remainingRetries
  <2>1. /\ r \in Nat /\ r - 1 \in Nat /\ 2 * r - 1 \in Nat
        /\ RequestBound \in Nat /\ MaximumNumberRetries + 1 \in Nat
    BY <1>3, RequestBoundIs
  <2>2. TransmissionsLeft = r /\ RequestsLeft = 2 * r - 1
    BY <1>1, <1>3, <1>4
       DEF TransmissionsLeft, RequestsLeft, MessageSlot, TimestampSlot
  <2>3. TransmissionsLeft' = r
    BY <1>3, <1>5 DEF TransmissionsLeft
  <2>4. RequestsLeft' \in Nat /\ RequestsLeft' <= 2 * r - 1
    BY <1>2, <1>3, <1>5 DEF RequestsLeft, TimestampSlot
  <2>5. /\ sent + r <= MaximumNumberRetries + 1
        /\ sent + asked + (2 * r - 1) <= RequestBound
    BY <1>1, <1>4, <2>2 DEF Counts, RetriesPay
  <2>6. sent + asked + RequestsLeft' <= RequestBound
    <3>1. ASSUME NEW q \in Nat, q <= 2 * r - 1
          PROVE  sent + asked + q <= RequestBound
      BY <1>3, <2>1, <2>5, <3>1, NoneMore
    <3> QED
      BY <2>4, <3>1
  <2> QED
    BY <1>3, <1>4, <2>3, <2>5, <2>6 DEF RetriesPay
<1>8. /\ remainingRetries' \in 0 .. MaximumNumberRetries
      /\ TransmissionsBounded' /\ job # "force"
  BY <1>1, <1>3, <1>4, RequestBoundIs DEF Counts, TransmissionsBounded
<1>9. OneInProgress' /\ NoMessageWhenForced'
  BY <1>2, <1>3, <1>4, <1>5 DEF OneInProgress, NoMessageWhenForced, Free
<1>10. Counts'
  BY <1>1, <1>3, <1>6, <1>7, <1>8, <1>9 DEF Counts
<1> QED
  BY <1>2, <1>10, CountsNext

(* The answer with the new time delta: the message is sent again, or there *)
(* was none.                                                               *)
LEMMA TimeDeltaUpdatedKeepsInv ==
  ASSUME WebHookInv, TimeDeltaUpdated
  PROVE  WebHookInv'
<1>1. /\ Counts /\ pendingReply # NoReply
      /\ Ready(TimestampSlot) /\ DropReply
      /\ PendingSlot = TimestampSlot
      /\ Answer = net.reply[pendingReply].answer
      /\ pendingReply \in Alive(net)
      /\ net.reply[pendingReply].owner = TimestampSlot
  BY CountsNow, SlotLeavesQuiet DEF TimeDeltaUpdated, Slots, Ready
<1>2. /\ NetworkOK(net') /\ OnlyPending' /\ PendingSlot' = "none"
      /\ pendingReply' = NoReply
  BY <1>1, DroppedPendsNone DEF Slots
<1>3. globalTimeDelta' \in Int
  BY <1>1, PendingSlotFacts DEF TimeDeltaUpdated, IsNumber, RepliesOK
<1>4. /\ ~ resendTimer /\ ~ timeDeltaTimer /\ ~ timeDeltaTimer'
      /\ UNCHANGED <<currentUrl, remainingRetries, sent, asked>>
      /\ job \notin {"idle", "lost"} /\ outcomes' \in {0, 1}
  BY <1>1 DEF TimeDeltaUpdated, Counts, OneInProgress, Free
<1>5. TransmissionsBounded'
  BY <1>1, <1>4 DEF Counts, TransmissionsBounded
<1>6. CASE currentUrl # NoUrl /\ resendTimer' /\ job' = job
  <2>1. job \in {"send", "slot"}
    BY <1>1, <1>4, <1>6 DEF Counts, NoMessageWhenForced
  <2>2. /\ TransmissionsLeft' = TransmissionsLeft
        /\ RequestsLeft' = RequestsLeft
    BY <1>1, <1>2, <1>4, <1>6 DEF TransmissionsLeft, RequestsLeft
  <2>3. RetriesPay'
    BY <1>1, <1>4, <1>6, <2>1, <2>2 DEF Counts, RetriesPay
  <2>4. OneInProgress' /\ NoMessageWhenForced'
    BY <1>2, <1>4, <1>6, <2>1 DEF OneInProgress, NoMessageWhenForced, Free
  <2>5. resendTimer' \in BOOLEAN /\ timeDeltaTimer' \in BOOLEAN
    BY <1>1 DEF TimeDeltaUpdated, Counts
  <2>6. Counts'
    BY <1>1, <1>3, <1>4, <1>5, <2>1, <2>3, <2>4, <2>5, <1>6 DEF Counts
  <2> QED
    BY <1>2, <2>6, CountsNext
<1>7. CASE job' \in {"idle", "lost"} /\ resendTimer' = resendTimer
  <2>1. RetriesPay'
    BY <1>7 DEF RetriesPay
  <2>2. OneInProgress' /\ NoMessageWhenForced'
    BY <1>2, <1>4, <1>7 DEF OneInProgress, NoMessageWhenForced, Free
  <2>3. resendTimer' \in BOOLEAN /\ timeDeltaTimer' \in BOOLEAN
    BY <1>1 DEF TimeDeltaUpdated, Counts
  <2>4. Counts'
    BY <1>1, <1>3, <1>4, <1>5, <1>7, <2>1, <2>2, <2>3 DEF Counts
  <2> QED
    BY <1>2, <2>4, CountsNext
<1> QED
  BY <1>6, <1>7 DEF TimeDeltaUpdated

(* A time delta request is repeated after a while.                         *)
LEMMA RetryTimestampKeepsInv ==
  ASSUME WebHookInv, RetryTimestamp
  PROVE  WebHookInv'
<1>1. /\ Counts /\ pendingReply # NoReply
      /\ Ready(TimestampSlot) /\ DropReply
      /\ PendingSlot = TimestampSlot
  BY CountsNow, SlotLeavesQuiet DEF RetryTimestamp, Slots, Ready
<1>2. /\ NetworkOK(net') /\ OnlyPending' /\ PendingSlot' = "none"
      /\ pendingReply' = NoReply
  BY <1>1, DroppedPendsNone DEF Slots
<1>3. /\ sent \in Nat /\ asked \in Nat
      /\ remainingRetries \in 1 .. MaximumNumberRetries
      /\ remainingRetries' = remainingRetries - 1
      /\ UNCHANGED <<currentUrl, globalTimeDelta, job, sent, asked, outcomes>>
  BY <1>1, RequestBoundIs
     DEF RetryTimestamp, MayRetry, RetriesAfter, Counts, histories
<1>4. /\ ~ resendTimer /\ ~ timeDeltaTimer
      /\ ~ resendTimer' /\ timeDeltaTimer'
      /\ job \in {"send", "slot", "force"}
  BY <1>1 DEF RetryTimestamp, Counts, OneInProgress, Free
<1>5. RetriesPay'
  <2> DEFINE r == remainingRetries
  <2>1. /\ r \in Nat /\ r - 1 \in Nat /\ 2 * r - 1 \in Nat
        /\ RequestBound \in Nat /\ MaximumNumberRetries + 1 \in Nat
    BY <1>3, RequestBoundIs
  <2>2. CASE job # "force"
    <3>1. TransmissionsLeft = r + 1 /\ RequestsLeft = (2 * r - 1) + 1
      BY <1>1, <1>3, <1>4 DEF TransmissionsLeft, RequestsLeft
    <3>2. TransmissionsLeft' = r
      BY <1>3, <1>4 DEF TransmissionsLeft
    <3>3. /\ RequestsLeft' \in Nat
          /\ RequestsLeft' <= (2 * r - 1) + 1
      BY <1>2, <1>3, <1>4 DEF RequestsLeft, TimestampSlot
    <3>4. /\ sent + (r + 1) <= MaximumNumberRetries + 1
          /\ sent + asked + ((2 * r - 1) + 1) <= RequestBound
      BY <1>1, <1>4, <2>2, <3>1 DEF Counts, RetriesPay
    <3>5. sent + asked + RequestsLeft' <= RequestBound
      <4>1. ASSUME NEW q \in Nat, q <= (2 * r - 1) + 1
            PROVE  sent + asked + q <= RequestBound
        BY <1>3, <2>1, <3>4, <4>1, NoneMore
      <4> QED
        BY <3>3, <4>1
    <3>6. sent + r <= MaximumNumberRetries + 1
      BY <1>3, <2>1, <3>4
    <3> QED
      BY <1>3, <1>4, <2>2, <3>2, <3>5, <3>6 DEF RetriesPay
  <2>3. CASE job = "force"
    <3>1. asked + r <= MaximumNumberRetries + 1
      BY <1>1, <1>3, <1>4, <2>3 DEF Counts, RetriesPay
    <3>2. asked + (r - 1) + 1 <= MaximumNumberRetries + 1
      BY <1>3, <2>1, <3>1
    <3> QED
      BY <1>3, <1>4, <2>3, <3>2 DEF RetriesPay
  <2> QED
    BY <2>2, <2>3
<1>6. /\ remainingRetries' \in 0 .. MaximumNumberRetries
      /\ TransmissionsBounded'
  BY <1>1, <1>3, RequestBoundIs DEF Counts, TransmissionsBounded
<1>7. OneInProgress' /\ NoMessageWhenForced'
  BY <1>1, <1>2, <1>3, <1>4
     DEF Counts, OneInProgress, NoMessageWhenForced, Free, MessageSlot
<1>8. resendTimer' \in BOOLEAN /\ timeDeltaTimer' \in BOOLEAN
  BY <1>1 DEF RetryTimestamp, Counts
<1>9. Counts'
  BY <1>1, <1>3, <1>4, <1>5, <1>6, <1>7, <1>8 DEF Counts
<1> QED
  BY <1>2, <1>9, CountsNext

LEMMA SlotKeepsInv ==
  ASSUME WebHookInv, Slot
  PROVE  WebHookInv'
<1>1. CASE MessageDone
  BY <1>1, ReportKeepsInv DEF MessageDone, Slots
<1>2. CASE CorrectionUnreadable
  BY <1>2, ReportKeepsInv DEF CorrectionUnreadable, Slots
<1>3. CASE TimestampFailed
  BY <1>3, ReportKeepsInv DEF TimestampFailed, Slots
<1> QED
  BY <1>1, <1>2, <1>3, RetryMessageKeepsInv, TimeDeltaUpdatedKeepsInv,
     RetryTimestampKeepsInv DEF Slot

(* What neither the class nor a reply of its does leaves the counts alone. *)
LEMMA NetworkKeepsInv ==
  ASSUME WebHookInv, RunDeferredDelete \/ FinishReply
  PROVE  WebHookInv'
<1>1. NetworkOK(net') /\ OnlyPending' /\ PendingSlot' = PendingSlot
  BY NetworkLeavesPending
<1>2. UNCHANGED <<pendingReply, currentUrl, remainingRetries, resendTimer,
                  timeDeltaTimer, globalTimeDelta, histories>>
  BY DEF RunDeferredDelete, FinishReply
<1>3. RetriesPay'
  BY <1>1, <1>2, CountsNow
     DEF Counts, RetriesPay, TransmissionsLeft, RequestsLeft, histories
<1>4. Counts'
  BY <1>1, <1>2, <1>3, CountsNow
     DEF Counts, OneInProgress, NoMessageWhenForced, TransmissionsBounded,
         Free, histories
<1> QED
  BY <1>1, <1>4, CountsNext

LEMMA InitInv ==
  ASSUME Init
  PROVE  WebHookInv
<1>1. NetworkOK(net) /\ Alive(net) = {}
  BY EmptyNetworkOK DEF Init
<1>2. PendingSlot = "none"
  BY DEF Init, PendingSlot
<1>3. OnlyPending
  BY <1>1, <1>2
     DEF Init, OnlyPending, OnlyOpen, Slots, MessageSlot, TimestampSlot
<1>4. OneInProgress /\ NoMessageWhenForced /\ RetriesPay
  BY DEF Init, OneInProgress, NoMessageWhenForced, RetriesPay, Free
<1>5. TransmissionsBounded
  BY RequestBoundIs DEF Init, TransmissionsBounded
<1>6. resendTimer \in BOOLEAN /\ timeDeltaTimer \in BOOLEAN
  BY DEF Init
<1>7. Counts
  BY <1>4, <1>5, <1>6, RequestBoundIs DEF Init, Counts
<1> QED
  BY <1>1, <1>3, <1>7
     DEF WebHookInv, WebHookTypeOK, Counts, NetworkOK, OnlyPending

LEMMA StutterKeepsInv ==
  ASSUME WebHookInv, UNCHANGED vars
  PROVE  WebHookInv'
BY DEF vars, histories, WebHookInv, WebHookTypeOK, OnlyPending, PendingSlot,
       OneInProgress, NoMessageWhenForced, RetriesPay, TransmissionsBounded,
       TransmissionsLeft, RequestsLeft, Free, OnlyOpen

-----------------------------------------------------------------------------
(* The theorems                                                            *)

(* What makes the class correct is kept by all it does: one request at     *)
(* most is on its way, and the retries that are left pay for those that    *)
(* may follow it.                                                          *)
THEOREM WebHookInvariance == Spec => []WebHookInv
<1>1. Init => WebHookInv
  BY InitInv
<1>2. WebHookInv /\ [Next]_vars => WebHookInv'
  BY SendKeepsInv, ForceKeepsInv, ResendKeepsInv, TimeDeltaTimeoutKeepsInv,
     SlotKeepsInv, NetworkKeepsInv, StutterKeepsInv DEF Next
<1> QED
  BY <1>1, <1>2, PTL DEF Spec

(* All variables stay in their types; in particular remainingRetries never *)
(* falls below zero although both slots take from it.                      *)
THEOREM WebHookTypeCorrectness == Spec => []WebHookTypeOK
<1>1. WebHookInv => WebHookTypeOK
  BY DEF WebHookInv
<1> QED
  BY <1>1, WebHookInvariance, PTL

(* The requests and timers of send and forceTimeDeltaAdjustment never run  *)
(* side by side, although they share pendingReply.                         *)
THEOREM OneRequestAtATime == Spec => []OneThingPending
<1>1. WebHookInv => OneThingPending
  <2> SUFFICES ASSUME WebHookInv
               PROVE  OneThingPending
    OBVIOUS
  <2>1. InFlight = IF pendingReply = NoReply THEN {} ELSE {pendingReply}
    <3>1. /\ RepliesOK(net) /\ NetworkOK(net)
          /\ pendingReply \in Alive(net) \cup {NoReply}
          /\ pendingReply = NoReply <=> PendingSlot = "none"
          /\ PendingSlot \in Slots \cup {"none"}
          /\ \A slot \in Slots :
               OnlyOpen(net, slot, IF PendingSlot = slot THEN pendingReply
                                                         ELSE NoReply)
      BY PendingSlotFacts DEF WebHookInv, OnlyPending
    <3>2. NoReply \notin Alive(net)
      BY <3>1 DEF NetworkOK, NetworkTypeOK
    <3>3. ASSUME NEW r \in Alive(net)
          PROVE  Undelivered(net, r) <=> r = pendingReply
      <4>1. /\ net.reply[r].owner \in Slots
            /\ OnlyOpen(net, net.reply[r].owner,
                        IF PendingSlot = net.reply[r].owner
                        THEN pendingReply ELSE NoReply)
        BY <3>1 DEF RepliesOK
      <4>2. r = pendingReply => PendingSlot = net.reply[r].owner
        BY <3>2 DEF PendingSlot
      <4> QED
        BY <3>2, <4>1, <4>2 DEF OnlyOpen, Undelivered
    <3> QED
      BY <3>1, <3>2, <3>3 DEF InFlight
  <2>2. Cardinality(InFlight) = IF pendingReply = NoReply THEN 0 ELSE 1
    BY <2>1, FS_EmptySet, FS_Singleton
  <2>3. OneInProgress /\ resendTimer \in BOOLEAN /\ timeDeltaTimer \in BOOLEAN
    BY DEF WebHookInv, WebHookTypeOK
  <2>4. Pending = IF Free THEN 0 ELSE 1
    BY <2>2, <2>3 DEF Pending, OneInProgress
  <2> QED
    BY <2>1, <2>4 DEF OneThingPending
<1> QED
  BY <1>1, WebHookInvariance, PTL

(* However often transmissions and time deltas fail, and in whatever       *)
(* order, a message does not cost more requests than its retries allow.    *)
THEOREM MessagesArePaidFor == Spec => []TransmissionsBounded
<1>1. WebHookInv => TransmissionsBounded
  BY DEF WebHookInv
<1> QED
  BY <1>1, WebHookInvariance, PTL

(* A forced adjustment never sends the message of an earlier send.         *)
THEOREM ForcedAdjustmentsSendNothing == Spec => []ForcedAdjustmentSendsNothing
<1>1. WebHookInv => ForcedAdjustmentSendsNothing
  <2> SUFFICES ASSUME WebHookInv, job = "force"
               PROVE  /\ ~ resendTimer
                      /\ \A r \in InFlight :
                           net.reply[r].owner = TimestampSlot
    BY DEF ForcedAdjustmentSendsNothing
  <2>1. ~ resendTimer /\ PendingSlot # MessageSlot
    BY DEF WebHookInv, NoMessageWhenForced
  <2>2. OnlyOpen(net, MessageSlot, NoReply) /\ RepliesOK(net)
    BY <2>1, PendingSlotFacts DEF WebHookInv, OnlyPending, Slots
  <2>3. NoReply \notin Alive(net)
    BY DEF WebHookInv, NetworkOK, NetworkTypeOK
  <2> QED
    BY <2>1, <2>2, <2>3
       DEF InFlight, RepliesOK, Slots, OnlyOpen, Undelivered
<1> QED
  BY <1>1, WebHookInvariance, PTL
=============================================================================
