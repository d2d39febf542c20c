------------------------------ MODULE TimeSync ------------------------------
(***************************************************************************)
(* What RestApiOutV1::Server promises to the RestApi instances tied to it, *)
(* without the network: there is at most one update of the time delta at a *)
(* time, who asks for one while it lasts shares it, it comes to an end,    *)
(* and then everybody is called back once for each time he asked, in the   *)
(* order of asking and all with the same result.                           *)
(***************************************************************************)
EXTENDS Integers, Sequences

CONSTANTS
  Clients,     (* who may ask for an update                                 *)
  TimeDeltas,  (* the values the time delta may take                        *)
  Forced       (* those it may be forced to                                 *)

VARIABLES
  updating,    (* an update is on its way                                   *)
  result,      (* how it ended: "updated", "failed", or "none"              *)
  promised,    (* the callbacks owed, in the order they will be made        *)
  timeDelta

syncVars == <<updating, result, promised, timeDelta>>

Init ==
  /\ updating = FALSE
  /\ result = "none"
  /\ promised = << >>
  /\ timeDelta = 0

(* Start an update, or share the one that is on its way.                   *)
Join(c) ==
  /\ result = "none"
  /\ updating' = TRUE
  /\ promised' = Append(promised, c)
  /\ UNCHANGED <<result, timeDelta>>

Force(d) ==
  /\ result = "none"
  /\ timeDelta' = d
  /\ UNCHANGED <<updating, result, promised>>

Succeed ==
  /\ updating /\ result = "none"
  /\ result' = "updated"
  /\ timeDelta' \in TimeDeltas
  /\ UNCHANGED <<updating, promised>>

Fail ==
  /\ updating /\ result = "none"
  /\ result' = "failed"
  /\ UNCHANGED <<updating, promised, timeDelta>>

Call ==
  /\ result # "none"
  /\ promised # << >>
  /\ promised' = Tail(promised)
  /\ UNCHANGED <<updating, result, timeDelta>>

Finish ==
  /\ result # "none"
  /\ promised = << >>
  /\ updating' = FALSE
  /\ result' = "none"
  /\ UNCHANGED <<promised, timeDelta>>

Next ==
  \/ \E c \in Clients : Join(c)
  \/ \E d \in Forced : Force(d)
  \/ Succeed
  \/ Fail
  \/ Call
  \/ Finish

SafeSpec == Init /\ [][Next]_syncVars

(* Every update ends and is followed by its callbacks; how it ends is for  *)
(* the web server to say.                                                  *)
Spec == SafeSpec /\ WF_syncVars(Succeed \/ Fail \/ Call \/ Finish)
=============================================================================
