-------------------------- MODULE MCSignedHandlers --------------------------
(***************************************************************************)
(* Values for the constants of SignedHandlers: a long long has 8 bits; the *)
(* clock of one host is 45.5 s ahead, that of the other 30.5 s behind, so  *)
(* that a time delta of the wrong one is off by more than one window.      *)
(***************************************************************************)
EXTENDS SignedHandlers

MCLowestLongLong == -128

MCClockOffset == [host \in Hosts |-> IF host = "ahead" THEN 91 ELSE -61]

Measured(halves) ==
  [error |-> "NoError", json |-> TRUE,
   document |-> [object |-> TRUE, size |-> 2, status |-> "OK",
                 isDouble |-> TRUE, halves |-> halves]]

MCTimeDeltaAnswers ==
  { Measured(MCClockOffset[host]) : host \in Hosts }
    \cup { [error |-> "OtherError", json |-> FALSE] }

MCHandlerAnswers ==
  { [error |-> "NoError", json |-> TRUE],
    [error |-> "AuthenticationRequiredError", json |-> FALSE] }

(* The last second of a window of the local clock and the first of the     *)
(* next                                                                    *)
MCTimes == {89, 90}

MCUninitialized == {0}
OneAtATime == {}
=============================================================================
