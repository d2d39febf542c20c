------------------------------ MODULE QtNetwork ------------------------------
(***************************************************************************)
(* The part of Qt the library runs on, as its code uses it: the            *)
(* QNetworkReply objects that QNetworkAccessManager::post creates, and the *)
(* queue of events posted to the one thread in which the Server and the    *)
(* handlers live.  Everything here is external to the repository.          *)
(*                                                                         *)
(* A network is a record                                                   *)
(*   reply:  the reply objects that exist, a function from their addresses *)
(*           to what they hold,                                            *)
(*   events: the posted events in the order they will be run.  "finished"  *)
(*           makes the reply emit its signal, "delete" is a deferred       *)
(*           delete.                                                       *)
(*                                                                         *)
(* The operators map one network to the next, so that a handler which      *)
(* drops one reply and posts another is written as their composition.      *)
(***************************************************************************)
EXTENDS Naturals, Sequences, FiniteSets

(* The null pointer; addresses are positive and are reused.                *)
NoReply == 0

(* What error() and readAll() give on a reply that has not finished: no    *)
(* error, and no bytes that parse as JSON.                                 *)
NothingRead == [error |-> "NoError", json |-> FALSE]

EmptyNetwork == [reply |-> << >>, events |-> << >>]

Alive(n) == DOMAIN n.reply

(* The address of the next reply to be allocated: a free one.              *)
NewReply(n) == CHOOSE r \in 1 .. Cardinality(Alive(n)) + 1 : r \notin Alive(n)

-----------------------------------------------------------------------------

Queued(n, kind, r) ==
  \E i \in DOMAIN n.events : n.events[i] = [kind |-> kind, reply |-> r]

(* The finished signal of r is still to come.                              *)
Undelivered(n, r) ==
  \/ ~ n.reply[r].finished /\ ~ Queued(n, "delete", r)
  \/ Queued(n, "finished", r)

(* QNetworkAccessManager::post and the connection of the reply's finished  *)
(* signal to the slot of its owner.  The payload names the request.        *)
Posted(n, owner, payload) ==
  [reply |-> [r \in Alive(n) \cup {NewReply(n)} |->
                IF r = NewReply(n)
                THEN [owner    |-> owner,
                      payload  |-> payload,
                      finished |-> FALSE,
                      answer   |-> NothingRead]
                ELSE n.reply[r]],
   events |-> n.events]

(* QObject::deleteLater; a second call on the same object adds nothing.    *)
DeleteLater(n, r) ==
  IF Queued(n, "delete", r) THEN n
  ELSE [reply  |-> n.reply,
        events |-> Append(n.events, [kind |-> "delete", reply |-> r])]

(* The HTTP thread, or the transfer timeout, ends the exchange: the event  *)
(* that hands the answer to the reply and emits finished is queued.        *)
Finished(n, r, answer) ==
  [reply  |-> [n.reply EXCEPT ![r].finished = TRUE, ![r].answer = answer],
   events |-> Append(n.events, [kind |-> "finished", reply |-> r])]

(* A signal queued behind the deferred delete dies with the object, so     *)
(* only a reply without one is worth finishing.                            *)
CanFinish(n, r) == ~ n.reply[r].finished /\ ~ Queued(n, "delete", r)

-----------------------------------------------------------------------------

(* The next event is the finished signal of a reply of this owner.         *)
SlotReady(n, owner) ==
  /\ n.events # << >>
  /\ Head(n.events).kind = "finished"
  /\ n.reply[Head(n.events).reply].owner = owner

DeleteReady(n) == n.events # << >> /\ Head(n.events).kind = "delete"

(* What a slot reads from r.  A reply takes in its answer in the step that *)
(* emits its finished signal: a slot that looks at another one than the    *)
(* sender finds neither an error nor a complete answer.                    *)
Read(n, r) ==
  IF Head(n.events).reply = r THEN n.reply[r].answer ELSE NothingRead

(* The event is taken from the queue before its receiver runs.             *)
Taken(n) == [reply |-> n.reply, events |-> Tail(n.events)]

(* The deferred delete runs.                                               *)
Deleted(n) ==
  [reply  |-> [r \in Alive(n) \ {Head(n.events).reply} |-> n.reply[r]],
   events |-> Tail(n.events)]

(* The events of a queue that are not posted to one of the replies gone,   *)
(* in their order.  (A recursive function, not SelectSeq, which the proofs *)
(* could not look into.)                                                   *)
Remaining(events, gone) ==
  LET f[i \in 0 .. Len(events)] ==
        IF i = 0 THEN << >>
        ELSE IF events[i].reply \in gone THEN f[i - 1]
        ELSE Append(f[i - 1], events[i])
  IN  f[Len(events)]

(* The destructor of a handler deletes its children, the replies it owns,  *)
(* and Qt drops the events posted to them.                                 *)
WithoutOwner(n, owner) ==
  LET gone == {r \in Alive(n) : n.reply[r].owner = owner}
  IN  [reply  |-> [r \in Alive(n) \ gone |-> n.reply[r]],
       events |-> Remaining(n.events, gone)]

-----------------------------------------------------------------------------
(* Properties of a network, whoever uses it                                *)

EventRecords == [kind : {"finished", "delete"}, reply : Nat \ {NoReply}]

NetworkTypeOK(n) ==
  /\ Alive(n) \subseteq Nat \ {NoReply}
  /\ IsFiniteSet(Alive(n))
  /\ \A r \in Alive(n) : n.reply[r].finished \in BOOLEAN
  /\ n.events \in Seq(EventRecords)

(* The finished event of a reply comes before its deferred delete.         *)
FinishedFirst(n) ==
  \A i, j \in DOMAIN n.events :
    /\ n.events[i].kind = "delete"
    /\ n.events[j].kind = "finished"
    /\ n.events[i].reply = n.events[j].reply
    => j < i

(* No event is posted twice, and none to a reply that is no more; a reply  *)
(* whose finished event is queued counts as finished.                      *)
EventsOK(n) ==
  /\ \A i \in DOMAIN n.events : n.events[i].reply \in Alive(n)
  /\ \A i, j \in DOMAIN n.events : n.events[i] = n.events[j] => i = j
  /\ FinishedFirst(n)
  /\ \A r \in Alive(n) : Queued(n, "finished", r) => n.reply[r].finished

NetworkOK(n) == NetworkTypeOK(n) /\ EventsOK(n)

(* Of the replies of an owner, p has its signal to come and is not to be   *)
(* deleted; every other one has had its signal and waits for its deferred  *)
(* delete.                                                                 *)
OnlyOpen(n, owner, p) ==
  /\ p # NoReply => p \in Alive(n) /\ n.reply[p].owner = owner
  /\ \A r \in Alive(n) :
       n.reply[r].owner = owner =>
         IF r = p THEN ~ Queued(n, "delete", r) /\ Undelivered(n, r)
                  ELSE Queued(n, "delete", r) /\ ~ Queued(n, "finished", r)

(* p is null, or a reply of this owner that is not to be deleted.          *)
Held(n, owner, p) ==
  p # NoReply =>
    p \in Alive(n) /\ n.reply[p].owner = owner /\ ~ Queued(n, "delete", p)
=============================================================================
