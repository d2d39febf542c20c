--------------------------- MODULE ServerThreads ----------------------------
(***************************************************************************)
(* Server with callers in other threads, which requestMutex is there for.  *)
(* Of its methods they can call checkTimestamp and timeDelta only:         *)
(* updateTimeDelta posts a request, and a QNetworkAccessManager must not   *)
(* be used outside of its thread.                                          *)
(*                                                                         *)
(* Server says what a method does; here it is cut at the points where      *)
(* another thread sees the difference: responseReceived changes            *)
(* pendingReply and currentTimeDelta without the mutex, and takes it for   *)
(* the loops only.  Within updateTimeDelta, which holds the mutex in the   *)
(* thread of the Server, no such point is left.  What the network does is  *)
(* in QtNetwork; here a reply is no more than its address.                 *)
(***************************************************************************)
EXTENDS Integers, Sequences

CONSTANTS
  OtherThreads,      (* each of them checks the timestamp for a RestApi of  *)
                     (* its own, of the same name                           *)
  Home,              (* the thread of the Server; also its own RestApi      *)
  NumberRetries,
  TimeDeltas,        (* what parseResponse may accept                       *)
  MaxWaiting         (* bound: the length the list may grow to              *)

Nobody == "nobody"

Null == 0

ASSUME ThreadsAssumption ==
  /\ Nobody \notin OtherThreads \cup {Home}
  /\ Home \notin OtherThreads
  /\ NumberRetries \in Nat
  /\ TimeDeltas \subseteq Int
  /\ MaxWaiting \in Nat

VARIABLES
  requestMutex,      (* who holds it                                        *)
  pendingReply,      (* an address, of which two suffice, or Null           *)
  retriesRemaining,
  waitingRestApis,
  currentTimeDelta,
  home,              (* where the thread of the Server is:                  *)
                     (*   "events"  in the event loop,                      *)
                     (*   "issue"   before issueTimeDeltaRequest,           *)
                     (*   "lock"    before it takes the mutex,              *)
                     (*   "loop"    in the loop, "forget" after the list is *)
                     (*             cleared, "unlock" before it ends        *)
  it,
  result,            (* of the answer: "updated" or "failed", or "none"     *)
  at,                (* where the other threads are: "out", "read" before   *)
                     (* they read pendingReply, "append" after it           *)
  announced          (* history: the time delta before the update that is   *)
                     (* not announced yet, or the current one               *)

homeVars == <<home, it, result>>
vars == <<requestMutex, pendingReply, retriesRemaining, waitingRestApis,
          currentTimeDelta, homeVars, at, announced>>

Init ==
  /\ requestMutex = Nobody
  /\ pendingReply = Null
  /\ retriesRemaining = 0
  /\ waitingRestApis = << >>
  /\ currentTimeDelta = 0
  /\ home = "events" /\ it = 0 /\ result = "none"
  /\ at = [t \in OtherThreads |-> "out"]
  /\ announced = 0

NextReply == IF pendingReply = 1 THEN 2 ELSE 1

-----------------------------------------------------------------------------
(* checkTimestamp in another thread                                        *)

(* Slip: the mutex is not taken.                                           *)
NoMutex == TRUE

MutexFree == requestMutex = Nobody

CheckLocks(t) ==
  /\ at[t] = "out"
  /\ Len(waitingRestApis) < MaxWaiting
  /\ MutexFree
  /\ requestMutex' = t
  /\ at' = [at EXCEPT ![t] = "read"]
  /\ UNCHANGED <<pendingReply, retriesRemaining, waitingRestApis,
                 currentTimeDelta, homeVars, announced>>

(* It reads pendingReply: no update, and the mutex is released ...         *)
CheckReturnsTrue(t) ==
  /\ at[t] = "read"
  /\ pendingReply = Null
  /\ requestMutex' = Nobody
  /\ at' = [at EXCEPT ![t] = "out"]
  /\ UNCHANGED <<pendingReply, retriesRemaining, waitingRestApis,
                 currentTimeDelta, homeVars, announced>>

(* ... or there is one.                                                    *)
CheckSeesUpdate(t) ==
  /\ at[t] = "read"
  /\ pendingReply # Null
  /\ at' = [at EXCEPT ![t] = "append"]
  /\ UNCHANGED <<requestMutex, pendingReply, retriesRemaining,
                 waitingRestApis, currentTimeDelta, homeVars, announced>>

CheckRegisters(t) ==
  /\ at[t] = "append"
  /\ waitingRestApis' = Append(waitingRestApis, t)
  /\ requestMutex' = Nobody
  /\ at' = [at EXCEPT ![t] = "out"]
  /\ UNCHANGED <<pendingReply, retriesRemaining, currentTimeDelta, homeVars,
                 announced>>

CheckTimestamp(t) ==
  \/ CheckLocks(t)
  \/ CheckReturnsTrue(t)
  \/ CheckSeesUpdate(t)
  \/ CheckRegisters(t)

-----------------------------------------------------------------------------
(* The thread of the Server                                                *)

UpdateTimeDelta ==
  /\ home = "events"
  /\ Len(waitingRestApis) < MaxWaiting
  /\ requestMutex = Nobody
  /\ IF pendingReply = Null
     THEN pendingReply' = NextReply /\ retriesRemaining' = NumberRetries
     ELSE UNCHANGED <<pendingReply, retriesRemaining>>
  /\ waitingRestApis' = Append(waitingRestApis, Home)
  /\ UNCHANGED <<requestMutex, currentTimeDelta, homeVars, at, announced>>

(* responseReceived up to its first lock; an answer was accepted ...       *)
AnswerAccepted ==
  /\ home = "events" /\ pendingReply # Null
  /\ currentTimeDelta' \in TimeDeltas
  /\ home' = "lock" /\ result' = "updated"
  /\ UNCHANGED <<requestMutex, pendingReply, retriesRemaining,
                 waitingRestApis, it, at, announced>>

(* ... or the request has failed, and will be repeated, or not.            *)
AnswerRefused ==
  /\ home = "events" /\ pendingReply # Null
  /\ IF retriesRemaining > 0
     THEN /\ retriesRemaining' = retriesRemaining - 1
          /\ home' = "issue"
          /\ UNCHANGED result
     ELSE /\ home' = "lock" /\ result' = "failed"
          /\ UNCHANGED retriesRemaining
  /\ UNCHANGED <<requestMutex, pendingReply, waitingRestApis,
                 currentTimeDelta, it, at, announced>>

(* issueTimeDeltaRequest, without the mutex                                *)
IssueAgain ==
  /\ home = "issue"
  /\ pendingReply' = NextReply
  /\ home' = "events"
  /\ UNCHANGED <<requestMutex, retriesRemaining, waitingRestApis,
                 currentTimeDelta, it, result, at, announced>>

LockForLoop ==
  /\ home = "lock"
  /\ requestMutex = Nobody
  /\ requestMutex' = Home
  /\ home' = "loop" /\ it' = 1
  /\ announced' = currentTimeDelta
  /\ UNCHANGED <<pendingReply, retriesRemaining, waitingRestApis,
                 currentTimeDelta, result, at>>

CallNext ==
  /\ home = "loop"
  /\ it <= Len(waitingRestApis)
  /\ it' = it + 1
  /\ UNCHANGED <<requestMutex, pendingReply, retriesRemaining,
                 waitingRestApis, currentTimeDelta, home, result, at,
                 announced>>

(* Slip: the mutex is released as soon as the list is cleared.             *)
ReleasedEarly == Nobody

HeldForLoop == Home

ClearList ==
  /\ home = "loop"
  /\ it > Len(waitingRestApis)
  /\ waitingRestApis' = << >> /\ it' = 1
  /\ requestMutex' = HeldForLoop
  /\ home' = "forget"
  /\ UNCHANGED <<pendingReply, retriesRemaining, currentTimeDelta, result, at,
                 announced>>

ForgetReply ==
  /\ home = "forget"
  /\ pendingReply' = Null
  /\ home' = "unlock" /\ it' = 0 /\ result' = "none"
  /\ UNCHANGED <<requestMutex, retriesRemaining, waitingRestApis,
                 currentTimeDelta, at, announced>>

Unlock ==
  /\ home = "unlock"
  /\ requestMutex' = Nobody
  /\ home' = "events"
  /\ UNCHANGED <<pendingReply, retriesRemaining, waitingRestApis,
                 currentTimeDelta, it, result, at, announced>>

SlotGoesOn == IssueAgain \/ CallNext \/ ClearList \/ ForgetReply \/ Unlock

Next ==
  \/ \E t \in OtherThreads : CheckTimestamp(t)
  \/ UpdateTimeDelta
  \/ AnswerAccepted
  \/ AnswerRefused
  \/ LockForLoop
  \/ SlotGoesOn

(* Every thread runs on, every request ends, and a thread that waits for   *)
(* the mutex gets it in the end although others come and go.               *)
Fairness ==
  /\ \A t \in OtherThreads :
       WF_vars(CheckReturnsTrue(t) \/ CheckSeesUpdate(t) \/ CheckRegisters(t))
  /\ WF_vars(AnswerAccepted \/ AnswerRefused)
  /\ SF_vars(LockForLoop)
  /\ WF_vars(SlotGoesOn)

Spec == Init /\ [][Next]_vars /\ Fairness

-----------------------------------------------------------------------------
(* Properties                                                              *)

(* The iterators of the loop stay valid: nobody changes the list while the *)
(* thread of the Server goes through it.                                   *)
ListStableInLoop ==
  [][home = "loop" /\ home' = "loop" => UNCHANGED waitingRestApis]_vars

InLoop == home \in {"loop", "forget"}

(* The callbacks that are owed, and how the update ended, as far as the    *)
(* loop has come.                                                          *)
Promised ==
  SubSeq(waitingRestApis, IF InLoop THEN it ELSE 1, Len(waitingRestApis))

Result == IF InLoop THEN result ELSE "none"

Promise ==
  INSTANCE TimeSync WITH
    Clients <- OtherThreads \cup {Home}, Forced <- {},
    updating <- pendingReply # Null, result <- Result,
    promised <- Promised, timeDelta <- announced

(* Also to callers in other threads the Server keeps its promise: whoever  *)
(* is told to wait is called back, although pendingReply changes under his *)
(* hands and the time delta is written before the mutex is taken.          *)
PromiseKeptToThreads == Promise!Spec

-----------------------------------------------------------------------------
(* The inductive invariant of which these properties are consequences      *)

(* Type invariant.                                                         *)
ThreadsTypeOK ==
  /\ requestMutex \in OtherThreads \cup {Home, Nobody}
  /\ pendingReply \in {Null, 1, 2}
  /\ retriesRemaining \in Nat
  /\ waitingRestApis \in Seq(OtherThreads \cup {Home})
  /\ currentTimeDelta \in Int
  /\ home \in {"events", "issue", "lock", "loop", "forget", "unlock"}
  /\ it \in Nat
  /\ result \in {"none", "updated", "failed"}
  /\ at \in [OtherThreads -> {"out", "read", "append"}]

(* Who is where only the holder of the mutex may be holds it.              *)
MutexHeld ==
  /\ \A t \in OtherThreads : at[t] # "out" <=> requestMutex = t
  /\ home \in {"loop", "forget", "unlock"} <=> requestMutex = Home

(* What a thread read in pendingReply is still true when it acts on it:    *)
(* without the mutex pendingReply is only changed from one reply to        *)
(* another.  And nobody is on the list when no update will serve it.       *)
UpdateToCome ==
  /\ \A t \in OtherThreads : at[t] = "append" => pendingReply # Null
  /\ home \in {"issue", "lock", "loop", "forget"} => pendingReply # Null
  /\ waitingRestApis # << >> => pendingReply # Null

(* Where the loop is.                                                      *)
LoopInList ==
  /\ result = "none" <=> home \notin {"lock", "loop", "forget"}
  /\ home = "loop"   => it \in 1 .. Len(waitingRestApis) + 1
  /\ home = "forget" => waitingRestApis = << >>

(* A time delta that is set and not announced was accepted.                *)
Announced ==
  IF home = "lock" /\ result = "updated"
  THEN currentTimeDelta \in TimeDeltas
  ELSE announced = currentTimeDelta

ThreadsInv ==
  ThreadsTypeOK /\ MutexHeld /\ UpdateToCome /\ LoopInList /\ Announced

-----------------------------------------------------------------------------
(* requestMutex prevents bad concurrent access: nobody is about to read    *)
(* pendingReply in one thread while another is about to write it.          *)
PendingReplyGuarded ==
  home = "issue" => \A t \in OtherThreads : at[t] # "read"
=============================================================================
