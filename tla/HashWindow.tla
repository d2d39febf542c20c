----------------------------- MODULE HashWindow -----------------------------
(***************************************************************************)
(* The arithmetic of InesonicRestHandlerBase::calculateHash: a message is  *)
(* signed for a window of 30 s of the web server's time, which is the      *)
(* local time plus the time delta, added as unsigned numbers.              *)
(***************************************************************************)
EXTENDS Integers

CONSTANT
  UnsignedRange      (* how many values an unsigned long long has           *)

ASSUME HashWindowAssumption == UnsignedRange \in Nat \ {0}

ToUnsigned(x) == x % UnsignedRange

(* Slip: the time delta is taken from the time.                            *)
HashSuffixBackwards(currentTimestamp, timeDelta) ==
  ToUnsigned(currentTimestamp - timeDelta) \div 30

HashSuffix(currentTimestamp, timeDelta) ==
  ToUnsigned(currentTimestamp + ToUnsigned(timeDelta)) \div 30

(* The window a web server is in when its clock is this many halves of a   *)
(* second ahead of a local clock that shows currentTimestamp.              *)
WindowAt(currentTimestamp, halves) == (2 * currentTimestamp + halves) \div 60
=============================================================================
