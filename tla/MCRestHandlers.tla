--------------------------- MODULE MCRestHandlers ---------------------------
(***************************************************************************)
(* Values for the constants of RestHandlers: the time delta endpoint gives *)
(* a good answer or none, the other endpoints each kind of answer the      *)
(* handlers tell apart.                                                    *)
(***************************************************************************)
EXTENDS RestHandlers

MCLowestLongLong == -4

MCTimeDeltaAnswers ==
  { [error |-> "NoError", json |-> TRUE,
     document |-> [object |-> TRUE, size |-> 2, status |-> "OK",
                   isDouble |-> TRUE, halves |-> 2]],
    [error |-> "OtherError", json |-> FALSE] }

AllHandlerAnswers ==
  { [error |-> "NoError", json |-> TRUE],
    [error |-> "NoError", json |-> FALSE],
    [error |-> "AuthenticationRequiredError", json |-> FALSE],
    [error |-> "OtherError", json |-> FALSE] }

(* Enough when only the path of a request matters, not what is reported.   *)
FewHandlerAnswers ==
  { [error |-> "NoError", json |-> TRUE],
    [error |-> "AuthenticationRequiredError", json |-> FALSE] }

MCUninitialized == {0}
DestroyingIdle == {"destroyIdle"}
Overlapping == {"overlap"}
Reposting == {"repostInSlot"}
AnyUse == {"overlap", "repostInSlot", "destroyIdle", "destroyWaiting"}
DestroyingWaiting == {"destroyWaiting"}
=============================================================================
