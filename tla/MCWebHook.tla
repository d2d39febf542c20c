------------------------------ MODULE MCWebHook ------------------------------
(***************************************************************************)
(* Values for the constants of WebHook: each kind of answer its slots tell *)
(* apart.                                                                  *)
(***************************************************************************)
EXTENDS WebHook

MCMessageAnswers ==
  { [error |-> e, json |-> FALSE] :
      e \in {"NoError", "ContentAccessDenied", "OtherError"} }

MCTimestampAnswers ==
  { [error |-> "NoError", json |-> FALSE, correction |-> 5],
    [error |-> "NoError", json |-> FALSE],
    [error |-> "OtherError", json |-> FALSE] }
=============================================================================
