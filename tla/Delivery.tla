------------------------------ MODULE Delivery ------------------------------
(***************************************************************************)
(* What a handler promises its user for each message that is posted, when  *)
(* it is asked one thing at a time: the message is sent, at once or after  *)
(* the update of the time delta that is on its way; it is sent once more   *)
(* at most, and only after it was refused and the time delta was updated;  *)
(* and in the end there is one outcome, unless the handler is destroyed.   *)
(***************************************************************************)
CONSTANT Handlers

VARIABLES
  message,     (* of each handler: "none", "waiting" for the update that    *)
               (* was on its way when it was posted, "sent", "refused", or  *)
               (* "sent again"                                              *)
  outcome,     (* of the last message: "none", "response", "failure"        *)
  users        (* the handlers that have not been destroyed                 *)

deliveryVars == <<message, outcome, users>>

Init ==
  /\ message = [h \in Handlers |-> "none"]
  /\ outcome = [h \in Handlers |-> "none"]
  /\ users = Handlers

Becomes(h, m) ==
  /\ message' = [message EXCEPT ![h] = m]
  /\ UNCHANGED <<outcome, users>>

Ends(h, o) ==
  /\ message' = [message EXCEPT ![h] = "none"]
  /\ outcome' = [outcome EXCEPT ![h] = o]
  /\ UNCHANGED users

Post(h) ==
  /\ h \in users
  /\ message[h] = "none"
  /\ \E m \in {"waiting", "sent"} : message' = [message EXCEPT ![h] = m]
  /\ outcome' = [outcome EXCEPT ![h] = "none"]
  /\ UNCHANGED users

Sync(h) ==
  \/ message[h] = "waiting" /\ Becomes(h, "sent")
  \/ message[h] = "refused" /\ Becomes(h, "sent again")

SyncFails(h) ==
  /\ message[h] \in {"waiting", "refused"}
  /\ Ends(h, "failure")

Refuse(h) == message[h] = "sent" /\ Becomes(h, "refused")

Answer(h) ==
  /\ message[h] \in {"sent", "sent again"}
  /\ \E o \in {"response", "failure"} : Ends(h, o)

GoOn(h) == Sync(h) \/ SyncFails(h) \/ Refuse(h) \/ Answer(h)

(* The only way for a message to get lost: its user gives up the handler.  *)
Destroy(h) ==
  /\ h \in users
  /\ users' = users \ {h}
  /\ message' = [message EXCEPT ![h] = "none"]
  /\ UNCHANGED outcome

Next == \E h \in Handlers : Post(h) \/ GoOn(h) \/ Destroy(h)

SafeSpec == Init /\ [][Next]_deliveryVars

(* No message is left where it is.                                         *)
Spec == SafeSpec /\ \A h \in Handlers : WF_deliveryVars(GoOn(h))
=============================================================================
