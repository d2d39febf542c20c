------------------------------- MODULE WebHook -------------------------------
(***************************************************************************)
(* Wh::WebHook, the class that posted messages before there was a Server   *)
(* and its handlers.  One object sends one message at a time and measures  *)
(* the time delta itself: requests of both kinds share pendingReply and    *)
(* remainingRetries, and two single-shot timers start the next of each.    *)
(*                                                                         *)
(* As with the Server, everything runs in one thread, and each slot to its *)
(* end.  The owner of a reply is the slot its finished signal is tied to.  *)
(* The class has no header in the repository: the members are those the    *)
(* code names, and maximumNumberRetries is a parameter.                    *)
(*                                                                         *)
(* send and forceTimeDeltaAdjustment are called when the class has nothing *)
(* left to do, or, if CallsInSlots, one of them also by an application     *)
(* slot tied to jsonResponseReceived, responseReceived or failedToSend.    *)
(***************************************************************************)
EXTENDS Integers, QtNetwork

CONSTANTS
  Messages,               (* the messages, each with its URL                *)
  MaximumNumberRetries,   (* WebHook::maximumNumberRetries                  *)
  MessageAnswers,         (* what may come back from a destination ...      *)
  TimestampAnswers,       (* ... and from globalTimestampUrl                *)
  CallsInSlots            (* such slots may call the class                  *)

NoUrl == 0

MessageSlot == "messageResponseReceived"
TimestampSlot == "timestampReplyReceived"

ASSUME WebHookAssumption ==
  /\ NoUrl \notin Messages
  /\ MaximumNumberRetries \in Nat
  /\ CallsInSlots \in BOOLEAN
  /\ \A a \in TimestampAnswers :
       "correction" \in DOMAIN a => a.correction \in Int

VARIABLES
  net,
  pendingReply,
  currentUrl,             (* with currentPayload, which it is set with      *)
  remainingRetries,
  resendTimer,            (* a timer runs                                   *)
  timeDeltaTimer,
  globalTimeDelta,
  job,                    (* history: what the class was asked for and has  *)
                          (* not reported: "send", "force", "idle"; "slot"  *)
                          (* for a send whose URL was cleared by the slot   *)
                          (* it was called in; "lost" if that job ended     *)
                          (* with no report                                 *)
  sent,                   (* history: transmissions of the message          *)
  asked,                  (* history: time delta requests of the same job   *)
  outcomes                (* history: the outcomes reported, modulo 2       *)

histories == <<job, sent, asked, outcomes>>

vars == <<net, pendingReply, currentUrl, remainingRetries, resendTimer,
          timeDeltaTimer, globalTimeDelta, histories>>

Init ==
  /\ net = EmptyNetwork
  /\ pendingReply = NoReply
  /\ currentUrl = NoUrl
  /\ remainingRetries = 0
  /\ resendTimer = FALSE
  /\ timeDeltaTimer = FALSE
  /\ globalTimeDelta = 0
  /\ job = "idle"
  /\ sent = 0
  /\ asked = 0
  /\ outcomes = 0

-----------------------------------------------------------------------------
(* Requests                                                                *)

(* The requests a message may need, as TransmissionsBounded says; sent and *)
(* asked are counted no further than one more.                             *)
RequestBound ==
  IF MaximumNumberRetries = 0 THEN 1 ELSE 2 * MaximumNumberRetries

Counted(n) == IF n <= RequestBound THEN n + 1 ELSE n

(* doSend, from the network n                                              *)
DoSend(n, url) ==
  /\ net' = Posted(n, MessageSlot, url)
  /\ pendingReply' = NewReply(n)

(* doTimestampAdjustment, from the network n                               *)
DoTimestampAdjustment(n) ==
  /\ net' = Posted(n, TimestampSlot, NoUrl)
  /\ pendingReply' = NewReply(n)

Free == job \in {"idle", "lost"}

Send(message) ==
  /\ Free
  /\ currentUrl' = message
  /\ remainingRetries' = MaximumNumberRetries
  /\ DoSend(net, message)
  /\ job' = "send"
  /\ sent' = 1
  /\ asked' = 0
  /\ UNCHANGED <<resendTimer, timeDeltaTimer, globalTimeDelta, outcomes>>

(* Slip: the URL of an earlier message is kept.                            *)
UrlKept == currentUrl

UrlOfForced == NoUrl

ForceTimeDeltaAdjustment ==
  /\ Free
  /\ remainingRetries' = MaximumNumberRetries
  /\ currentUrl' = UrlOfForced
  /\ DoTimestampAdjustment(net)
  /\ job' = "force"
  /\ sent' = 0
  /\ asked' = 1
  /\ UNCHANGED <<resendTimer, timeDeltaTimer, globalTimeDelta, outcomes>>

ResendTimeout ==
  /\ resendTimer
  /\ resendTimer' = FALSE
  /\ DoSend(net, currentUrl)
  /\ sent' = Counted(sent)
  /\ UNCHANGED <<currentUrl, remainingRetries, timeDeltaTimer,
                 globalTimeDelta, job, asked, outcomes>>

TimeDeltaTimeout ==
  /\ timeDeltaTimer
  /\ timeDeltaTimer' = FALSE
  /\ DoTimestampAdjustment(net)
  /\ asked' = Counted(asked)
  /\ UNCHANGED <<currentUrl, remainingRetries, resendTimer, globalTimeDelta,
                 job, sent, outcomes>>

-----------------------------------------------------------------------------
(* The slots                                                               *)

Ready(slot) == SlotReady(net, slot) /\ pendingReply # NoReply

Answer == Read(net, pendingReply)

AfterRead == DeleteLater(Taken(net), pendingReply)

Failed == Answer.error # "NoError"

(* Slip: the count is not looked at.                                       *)
AlwaysRetries == TRUE

MayRetry == remainingRetries > 0

(* Slip: the retry is not taken from the count.                            *)
RetryForFree == remainingRetries

RetriesAfter == remainingRetries - 1

(* A refused hash is followed by a new time delta except before the last   *)
(* transmission ...                                                        *)
NeedsTimeDelta == Answer.error = "ContentAccessDenied" /\ RetriesAfter > 0

(* Slip: the message does not wait for the time delta.                     *)
ResendsAnyway == TRUE

(* ... and any other error by a transmission.                              *)
ResendsAtOnce == ~ NeedsTimeDelta

(* The reply is done with and nothing is posted in its place.              *)
DropReply ==
  /\ net' = AfterRead
  /\ pendingReply' = NoReply

(* An outcome is reported by a signal.  In a slot tied to it the           *)
(* application may call send or forceTimeDeltaAdjustment, once.  What runs *)
(* after the signal may clear the URL, and then that of a new message.     *)
Report(clears) ==
  /\ outcomes' = 1 - outcomes
  /\ \/ /\ DropReply
        /\ currentUrl' = IF clears THEN NoUrl ELSE currentUrl
        /\ job' = "idle"
        /\ UNCHANGED <<remainingRetries, sent, asked>>
     \/ /\ CallsInSlots
        /\ \E message \in Messages :
             /\ DoSend(AfterRead, message)
             /\ currentUrl' = IF clears THEN NoUrl ELSE message
        /\ job' = IF clears THEN "slot" ELSE "send"
        /\ remainingRetries' = MaximumNumberRetries
        /\ sent' = 1
        /\ asked' = 0
     \/ /\ CallsInSlots
        /\ DoTimestampAdjustment(AfterRead)
        /\ currentUrl' = IF clears THEN NoUrl ELSE UrlOfForced
        /\ job' = "force"
        /\ remainingRetries' = MaximumNumberRetries
        /\ sent' = 0
        /\ asked' = 1

(* messageResponseReceived: the message has arrived, or is given up.       *)
MessageDone ==
  /\ Ready(MessageSlot)
  /\ Failed => ~ MayRetry
  /\ Report(TRUE)
  /\ UNCHANGED <<resendTimer, timeDeltaTimer, globalTimeDelta>>

(* messageResponseReceived: the message has failed, and may be repeated.   *)
RetryMessage ==
  /\ Ready(MessageSlot)
  /\ Failed
  /\ MayRetry
  /\ remainingRetries' = RetriesAfter
  /\ IF NeedsTimeDelta THEN timeDeltaTimer' = TRUE
                       ELSE UNCHANGED timeDeltaTimer
  /\ IF ResendsAtOnce THEN resendTimer' = TRUE ELSE UNCHANGED resendTimer
  /\ DropReply
  /\ UNCHANGED <<currentUrl, globalTimeDelta, histories>>

IsNumber(answer) == ~ Failed /\ "correction" \in DOMAIN answer

(* timestampReplyReceived: there is a new time delta.                      *)
TimeDeltaUpdated ==
  /\ Ready(TimestampSlot)
  /\ IsNumber(Answer)
  /\ globalTimeDelta' = Answer.correction
  /\ \/ /\ currentUrl # NoUrl
        /\ resendTimer' = TRUE
        /\ UNCHANGED <<job, outcomes>>
     \/ /\ currentUrl = NoUrl
        /\ job = "force"
        /\ job' = "idle"
        /\ outcomes' = 1 - outcomes
        /\ UNCHANGED resendTimer
     \/ /\ currentUrl = NoUrl
        /\ job # "force"
        /\ job' = "lost"
        /\ UNCHANGED <<resendTimer, outcomes>>
  /\ DropReply
  /\ UNCHANGED <<currentUrl, remainingRetries, timeDeltaTimer, sent, asked>>

(* timestampReplyReceived: the answer is no number.  The URL stays.        *)
CorrectionUnreadable ==
  /\ Ready(TimestampSlot)
  /\ ~ Failed
  /\ ~ IsNumber(Answer)
  /\ Report(FALSE)
  /\ UNCHANGED <<resendTimer, timeDeltaTimer, globalTimeDelta>>

(* timestampReplyReceived: the request has failed, and is repeated ...     *)
RetryTimestamp ==
  /\ Ready(TimestampSlot)
  /\ Failed
  /\ MayRetry
  /\ remainingRetries' = RetriesAfter
  /\ timeDeltaTimer' = TRUE
  /\ DropReply
  /\ UNCHANGED <<currentUrl, resendTimer, globalTimeDelta, histories>>

(* ... or given up.                                                        *)
TimestampFailed ==
  /\ Ready(TimestampSlot)
  /\ Failed
  /\ ~ MayRetry
  /\ Report(TRUE)
  /\ UNCHANGED <<resendTimer, timeDeltaTimer, globalTimeDelta>>

-----------------------------------------------------------------------------

RunDeferredDelete ==
  /\ DeleteReady(net)
  /\ net' = Deleted(net)
  /\ UNCHANGED <<pendingReply, currentUrl, remainingRetries, resendTimer,
                 timeDeltaTimer, globalTimeDelta, histories>>

(* A message posted to an empty URL is not sent.                           *)
AnswersTo(request) ==
  IF request.owner = TimestampSlot THEN TimestampAnswers
  ELSE {a \in MessageAnswers :
          request.payload = NoUrl => a.error = "OtherError"}

FinishReply ==
  /\ \E r \in Alive(net) :
       /\ CanFinish(net, r)
       /\ \E a \in AnswersTo(net.reply[r]) : net' = Finished(net, r, a)
  /\ UNCHANGED <<pendingReply, currentUrl, remainingRetries, resendTimer,
                 timeDeltaTimer, globalTimeDelta, histories>>

Slot ==
  \/ MessageDone
  \/ RetryMessage
  \/ TimeDeltaUpdated
  \/ CorrectionUnreadable
  \/ RetryTimestamp
  \/ TimestampFailed

Next ==
  \/ \E message \in Messages : Send(message)
  \/ ForceTimeDeltaAdjustment
  \/ ResendTimeout
  \/ TimeDeltaTimeout
  \/ Slot
  \/ RunDeferredDelete
  \/ FinishReply

(* The event loop goes on, timers expire, and every request ends, at the   *)
(* latest by its transfer timeout.                                         *)
Fairness ==
  /\ WF_vars(Slot)
  /\ WF_vars(ResendTimeout)
  /\ WF_vars(TimeDeltaTimeout)
  /\ WF_vars(RunDeferredDelete)
  /\ WF_vars(FinishReply)

Spec == Init /\ [][Next]_vars /\ Fairness

-----------------------------------------------------------------------------
(* Properties                                                              *)

(* Type invariant.                                                         *)
WebHookTypeOK ==
  /\ NetworkTypeOK(net)
  /\ pendingReply \in Alive(net) \cup {NoReply}
  /\ currentUrl \in Messages \cup {NoUrl}
  /\ remainingRetries \in 0 .. MaximumNumberRetries
  /\ resendTimer \in BOOLEAN
  /\ timeDeltaTimer \in BOOLEAN
  /\ globalTimeDelta \in Int
  /\ job \in {"idle", "send", "force", "slot", "lost"}
  /\ sent \in Nat
  /\ asked \in Nat
  /\ outcomes \in {0, 1}

InFlight == {r \in Alive(net) : Undelivered(net, r)}

(* How many things will go on by themselves                                *)
Pending ==
  Cardinality(InFlight) + (IF resendTimer THEN 1 ELSE 0)
                        + (IF timeDeltaTimer THEN 1 ELSE 0)

(* The two timers and the two kinds of request never run side by side,     *)
(* although they share one pendingReply and one count: while there is      *)
(* something to do exactly one of them is on its way, and the slot that    *)
(* its reply will run finds that reply in pendingReply.                    *)
OneThingPending ==
  /\ Pending = (IF Free THEN 0 ELSE 1)
  /\ InFlight = (IF pendingReply = NoReply THEN {} ELSE {pendingReply})

(* A message is transmitted at most once more than there are retries; the  *)
(* requests for time deltas in between are paid from the same count, and   *)
(* the last retry is not preceded by one.                                  *)
TransmissionsBounded ==
  /\ sent <= MaximumNumberRetries + 1
  /\ sent + asked <= RequestBound

(* A forced adjustment transmits no message, not even one that was given   *)
(* up earlier and whose URL was left behind.                               *)
ForcedAdjustmentSendsNothing ==
  job = "force" =>
    /\ ~ resendTimer
    /\ \A r \in InFlight : net.reply[r].owner = TimestampSlot

(* Whatever is asked of the class ends in a signal that reports an         *)
(* outcome, also when it is asked for in the slot that is told of the      *)
(* outcome before, except a message whose URL that slot clears.            *)
EverySendHasAnOutcome ==
  \A o \in {0, 1} :
    job \in {"send", "force"} /\ outcomes = o ~> outcomes # o

-----------------------------------------------------------------------------
(* The inductive invariant of which these properties are consequences      *)

(* The slot that will read pendingReply                                    *)
PendingSlot ==
  IF pendingReply = NoReply THEN "none" ELSE net.reply[pendingReply].owner

Slots == {MessageSlot, TimestampSlot}

(* pendingReply is the only reply that is still to be answered.            *)
OnlyPending ==
  /\ pendingReply \in Alive(net) \cup {NoReply}
  /\ \A r \in Alive(net) :
       /\ net.reply[r].owner \in Slots
       /\ net.reply[r].owner = TimestampSlot =>
            LET answer == net.reply[r].answer
            IN  "correction" \in DOMAIN answer => answer.correction \in Int
  /\ \A slot \in Slots :
       OnlyOpen(net, slot,
                IF PendingSlot = slot THEN pendingReply ELSE NoReply)

OneInProgress ==
  /\ ~ (resendTimer /\ timeDeltaTimer)
  /\ pendingReply # NoReply => ~ resendTimer /\ ~ timeDeltaTimer
  /\ Free <=> pendingReply = NoReply /\ ~ resendTimer /\ ~ timeDeltaTimer

NoMessageWhenForced ==
  job = "force" =>
    /\ currentUrl = NoUrl /\ sent = 0
    /\ ~ resendTimer /\ PendingSlot # MessageSlot

(* The requests of each kind that a message may still need: a retry that   *)
(* is left pays for a time delta and a transmission, the last one for only *)
(* one of them.                                                            *)
TransmissionsLeft ==
  remainingRetries
    + (IF resendTimer \/ timeDeltaTimer \/ PendingSlot = TimestampSlot
       THEN 1 ELSE 0)

RequestsLeft ==
  (IF remainingRetries = 0 THEN 0 ELSE 2 * remainingRetries - 1)
    + (IF resendTimer \/ PendingSlot = TimestampSlot THEN 1 ELSE 0)
    + (IF timeDeltaTimer THEN 2 ELSE 0)

RetriesPay ==
  /\ job \in {"send", "slot"} =>
       /\ sent + TransmissionsLeft <= MaximumNumberRetries + 1
       /\ sent + asked + RequestsLeft <= RequestBound
  /\ job = "force" =>
       asked + remainingRetries + (IF timeDeltaTimer THEN 1 ELSE 0)
         <= MaximumNumberRetries + 1

WebHookInv ==
  /\ WebHookTypeOK
  /\ NetworkOK(net)
  /\ OnlyPending
  /\ OneInProgress
  /\ NoMessageWhenForced
  /\ RetriesPay
  /\ TransmissionsBounded
=============================================================================
