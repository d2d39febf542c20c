--------------------------- MODULE MCServerClients ---------------------------
(***************************************************************************)
(* Values for the constants of ServerClients.  A long long has 3 bits, so  *)
(* the documents reach every boundary of the range parseResponse accepts.  *)
(***************************************************************************)
EXTENDS ServerClients

MCLowestLongLong == -4

Document(obj, n, st, dbl, h) ==
  [object |-> obj, size |-> n, status |-> st, isDouble |-> dbl, halves |-> h]

Json(document) ==
  [error |-> "NoError", json |-> TRUE, document |-> document]

(* Accepted: the lowest value and -0.5, which is cast to 0.                *)
AcceptedAnswers ==
  { Json(Document(TRUE, 2, "OK", TRUE, h)) : h \in {-8, -1, 4} }

(* Refused: just below and just above the range, and above long long.      *)
RefusedByRange ==
  { Json(Document(TRUE, 2, "OK", TRUE, h)) : h \in {-9, 5, 8} }

RefusedByShape ==
  { Json(Document(FALSE, 2, "OK", TRUE, 4)),
    Json(Document(TRUE, 3, "OK", TRUE, 4)),
    Json(Document(TRUE, 2, "failed", TRUE, 4)),
    Json(Document(TRUE, 2, "OK", FALSE, 4)) }

NotJson == [error |-> "NoError", json |-> FALSE]

NetworkErrors ==
  { [error |-> e, json |-> FALSE] :
      e \in {"AuthenticationRequiredError", "OtherError"} }

AllAnswers ==
  AcceptedAnswers \cup RefusedByRange \cup RefusedByShape \cup {NotJson}
    \cup NetworkErrors

(* Enough to tell success, refusal and network failure apart.              *)
FewAnswers ==
  { Json(Document(TRUE, 2, "OK", TRUE, -1)),
    Json(Document(TRUE, 2, "OK", TRUE, 4)),
    Json(Document(TRUE, 2, "OK", TRUE, 8)),
    [error |-> "OtherError", json |-> FALSE] }

MCUninitialized == {0, 5}
MCForcedTimeDeltas == {-4, 3}
=============================================================================
