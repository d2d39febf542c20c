--------------------------- MODULE ThreadsProofs ----------------------------
(***************************************************************************)
(* Proofs about the Server and callers in other threads, for any number of *)
(* threads, retries and time deltas: ThreadsInv is an inductive invariant; *)
(* from it, the list is stable while the loop goes through it, and every   *)
(* step is one of TimeSync or none.                                        *)
(***************************************************************************)
EXTENDS ServerThreads, SequenceTheorems, TLAPS

Apis == OtherThreads \cup {Home}

(* The list, registering, and what may become of the list                  *)
LEMMA Registered ==
  ASSUME ThreadsInv, NEW a \in Apis,
         waitingRestApis' = Append(waitingRestApis, a)
  PROVE  waitingRestApis' \in Seq(Apis) /\ waitingRestApis' # << >>
BY AppendProperties DEF ThreadsInv, ThreadsTypeOK, Apis

LEMMA InitEstablishesThreadsInv == Init => ThreadsInv
BY ThreadsAssumption
   DEF ThreadsAssumption, Init, ThreadsInv, ThreadsTypeOK, MutexHeld,
       UpdateToCome, LoopInList, Announced, Null, Nobody

-----------------------------------------------------------------------------
(* checkTimestamp in another thread                                        *)

LEMMA LockKeepsInv ==
  ASSUME ThreadsInv, NEW t \in OtherThreads, CheckLocks(t)
  PROVE  ThreadsInv'
<1>1. /\ at[t] = "out" /\ requestMutex = Nobody
      /\ requestMutex' = t
      /\ at' = [at EXCEPT ![t] = "read"]
      /\ UNCHANGED <<pendingReply, retriesRemaining, waitingRestApis,
                     currentTimeDelta, home, it, result, announced>>
  BY DEF CheckLocks, MutexFree, homeVars
<1>2. t # Home /\ t # Nobody
  BY ThreadsAssumption DEF ThreadsAssumption
<1>3. ThreadsTypeOK' /\ MutexHeld'
  BY <1>1, <1>2, ThreadsAssumption
     DEF ThreadsAssumption, ThreadsInv, ThreadsTypeOK, MutexHeld
<1> QED
  BY <1>1, <1>3
     DEF ThreadsInv, ThreadsTypeOK, UpdateToCome, LoopInList, Announced

LEMMA LeaveKeepsInv ==
  ASSUME ThreadsInv, NEW t \in OtherThreads, at[t] # "out",
         requestMutex' = Nobody, at' = [at EXCEPT ![t] = "out"],
         \/ UNCHANGED waitingRestApis
         \/ /\ pendingReply # Null
            /\ waitingRestApis' = Append(waitingRestApis, t),
         UNCHANGED <<pendingReply, retriesRemaining, currentTimeDelta, home,
                     it, result, announced>>
  PROVE  ThreadsInv'
<1>1. requestMutex = t /\ t # Home /\ t # Nobody
  BY ThreadsAssumption DEF ThreadsAssumption, ThreadsInv, MutexHeld
<1>2. home \notin {"loop", "forget", "unlock"}
  BY <1>1 DEF ThreadsInv, MutexHeld
<1>3. /\ waitingRestApis' \in Seq(Apis)
      /\ waitingRestApis' # << >> => pendingReply # Null
  BY Registered
     DEF ThreadsInv, ThreadsTypeOK, UpdateToCome, Apis
<1>4. ThreadsTypeOK' /\ MutexHeld'
  BY <1>1, <1>2, <1>3, ThreadsAssumption
     DEF ThreadsAssumption, ThreadsInv, ThreadsTypeOK, MutexHeld, Apis
<1> QED
  BY <1>2, <1>3, <1>4
     DEF ThreadsInv, ThreadsTypeOK, UpdateToCome, LoopInList, Announced

LEMMA SeesUpdateKeepsInv ==
  ASSUME ThreadsInv, NEW t \in OtherThreads, CheckSeesUpdate(t)
  PROVE  ThreadsInv'
BY DEF CheckSeesUpdate, homeVars, ThreadsInv, ThreadsTypeOK, MutexHeld,
       UpdateToCome, LoopInList, Announced

LEMMA CheckKeepsInv ==
  ASSUME ThreadsInv, NEW t \in OtherThreads, CheckTimestamp(t)
  PROVE  ThreadsInv'
<1>1. CASE CheckLocks(t)
  BY <1>1, LockKeepsInv
<1>2. CASE CheckSeesUpdate(t)
  BY <1>2, SeesUpdateKeepsInv
<1>3. CASE CheckReturnsTrue(t)
  BY <1>3, LeaveKeepsInv DEF CheckReturnsTrue, homeVars
<1>4. CASE CheckRegisters(t)
  <2>1. pendingReply # Null
    BY <1>4 DEF CheckRegisters, ThreadsInv, UpdateToCome
  <2> QED
    BY <1>4, <2>1, LeaveKeepsInv DEF CheckRegisters, homeVars
<1> QED
  BY <1>1, <1>2, <1>3, <1>4 DEF CheckTimestamp

-----------------------------------------------------------------------------
(* The thread of the Server                                                *)

LEMMA NextReplyIsReply ==
  NextReply \in {1, 2} /\ NextReply # Null
BY DEF NextReply, Null

LEMMA UpdateKeepsInv ==
  ASSUME ThreadsInv, UpdateTimeDelta
  PROVE  ThreadsInv'
<1>1. /\ home = "events" /\ requestMutex = Nobody
      /\ pendingReply' # Null /\ pendingReply' \in {Null, 1, 2}
      /\ retriesRemaining' \in Nat
      /\ waitingRestApis' = Append(waitingRestApis, Home)
      /\ UNCHANGED <<requestMutex, currentTimeDelta, home, it, result, at,
                     announced>>
  BY NextReplyIsReply, ThreadsAssumption
     DEF ThreadsAssumption, UpdateTimeDelta, homeVars, ThreadsInv,
         ThreadsTypeOK
<1>2. waitingRestApis' \in Seq(Apis)
  BY <1>1, Registered DEF Apis
<1>3. ThreadsTypeOK' /\ MutexHeld'
  BY <1>1, <1>2 DEF ThreadsInv, ThreadsTypeOK, MutexHeld, Apis
<1> QED
  BY <1>1, <1>3 DEF ThreadsInv, UpdateToCome, LoopInList, Announced

LEMMA AnswerKeepsInv ==
  ASSUME ThreadsInv, AnswerAccepted \/ AnswerRefused
  PROVE  ThreadsInv'
<1>1. TimeDeltas \subseteq Int
  BY ThreadsAssumption DEF ThreadsAssumption
<1>2. CASE AnswerAccepted
  BY <1>1, <1>2
     DEF AnswerAccepted, ThreadsInv, ThreadsTypeOK, MutexHeld, UpdateToCome,
         LoopInList, Announced
<1>3. CASE AnswerRefused
  BY <1>3
     DEF AnswerRefused, ThreadsInv, ThreadsTypeOK, MutexHeld, UpdateToCome,
         LoopInList, Announced
<1> QED
  BY <1>2, <1>3

LEMMA IssueKeepsInv ==
  ASSUME ThreadsInv, IssueAgain
  PROVE  ThreadsInv'
BY NextReplyIsReply
   DEF IssueAgain, ThreadsInv, ThreadsTypeOK, MutexHeld, UpdateToCome,
       LoopInList, Announced

LEMMA LockForLoopKeepsInv ==
  ASSUME ThreadsInv, LockForLoop
  PROVE  ThreadsInv'
<1>1. Home # Nobody /\ Home \notin OtherThreads
  BY ThreadsAssumption DEF ThreadsAssumption
<1>2. \A t \in OtherThreads : at[t] = "out"
  BY ThreadsAssumption
     DEF ThreadsAssumption, LockForLoop, ThreadsInv, MutexHeld
<1>3. ThreadsTypeOK' /\ MutexHeld'
  BY <1>1, <1>2 DEF LockForLoop, ThreadsInv, ThreadsTypeOK, MutexHeld
<1> QED
  BY <1>3 DEF LockForLoop, ThreadsInv, ThreadsTypeOK, UpdateToCome,
              LoopInList, Announced

(* CallNext, ClearList, ForgetReply, Unlock: the mutex is held throughout. *)
LEMMA LoopKeepsInv ==
  ASSUME ThreadsInv, CallNext \/ ClearList \/ ForgetReply \/ Unlock
  PROVE  ThreadsInv'
<1>1. /\ Home # Nobody /\ Home \notin OtherThreads
      /\ Nobody \notin OtherThreads
      /\ requestMutex = Home
      /\ \A t \in OtherThreads : at[t] = "out"
  BY ThreadsAssumption
     DEF ThreadsAssumption, ThreadsInv, MutexHeld, CallNext, ClearList,
         ForgetReply, Unlock
<1>2. CASE CallNext
  BY <1>2
     DEF CallNext, ThreadsInv, ThreadsTypeOK, MutexHeld, UpdateToCome,
         LoopInList, Announced
<1>3. CASE ClearList
  BY <1>1, <1>3
     DEF ClearList, HeldForLoop, ThreadsInv, ThreadsTypeOK, MutexHeld,
         UpdateToCome, LoopInList, Announced
<1>4. CASE ForgetReply
  BY <1>1, <1>4
     DEF ForgetReply, ThreadsInv, ThreadsTypeOK, MutexHeld, UpdateToCome,
         LoopInList, Announced, Null
<1>5. CASE Unlock
  BY <1>1, <1>5
     DEF Unlock, ThreadsInv, ThreadsTypeOK, MutexHeld, UpdateToCome,
         LoopInList, Announced
<1> QED
  BY <1>2, <1>3, <1>4, <1>5

LEMMA NextKeepsThreadsInv == ThreadsInv /\ [Next]_vars => ThreadsInv'
<1> SUFFICES ASSUME ThreadsInv, [Next]_vars PROVE ThreadsInv'
  OBVIOUS
<1>1. CASE UNCHANGED vars
  BY <1>1
     DEF vars, homeVars, ThreadsInv, ThreadsTypeOK, MutexHeld, UpdateToCome,
         LoopInList, Announced
<1> QED
  BY <1>1, CheckKeepsInv, UpdateKeepsInv, AnswerKeepsInv, IssueKeepsInv,
     LockForLoopKeepsInv, LoopKeepsInv DEF Next, SlotGoesOn

(* Whatever the other threads do and when: the mutex is held by whoever is *)
(* where only its holder may be, what a thread has read of pendingReply is *)
(* true when it registers, and nobody is on the list without an update     *)
(* that will serve it.                                                     *)
THEOREM ThreadsInvariance == Spec => []ThreadsInv
<1>1. Init => ThreadsInv
  BY InitEstablishesThreadsInv
<1>2. ThreadsInv /\ [Next]_vars => ThreadsInv'
  BY NextKeepsThreadsInv
<1> QED
  BY <1>1, <1>2, PTL DEF Spec

(* The list does not change under the loop that goes through it.           *)
THEOREM LoopsAreUndisturbed == Spec => ListStableInLoop
<1>1. ThreadsInv /\ [Next]_vars
        => [home = "loop" /\ home' = "loop" => UNCHANGED waitingRestApis]_vars
  <2> SUFFICES ASSUME ThreadsInv, Next, home = "loop", home' = "loop"
               PROVE  UNCHANGED waitingRestApis
    OBVIOUS
  <2>1. \A t \in OtherThreads : at[t] = "out"
    BY ThreadsAssumption DEF ThreadsAssumption, ThreadsInv, MutexHeld
  <2>2. ~ \E t \in OtherThreads : CheckRegisters(t)
    BY <2>1 DEF CheckRegisters
  <2> QED
    BY <2>2
       DEF Next, CheckTimestamp, CheckLocks, CheckReturnsTrue,
           CheckSeesUpdate, UpdateTimeDelta, AnswerAccepted, AnswerRefused,
           LockForLoop, SlotGoesOn, IssueAgain, CallNext, ClearList,
           ForgetReply, Unlock
<1> QED
  BY <1>1, ThreadsInvariance, PTL DEF Spec, ListStableInLoop

-----------------------------------------------------------------------------
(* The threads and TimeSync                                                *)

(* Outside the loop the whole list is promised ...                         *)
LEMMA PromisedOutside ==
  ASSUME ThreadsInv, ~ InLoop
  PROVE  Promised = waitingRestApis
<1>1. waitingRestApis \in Seq(Apis)
  BY DEF ThreadsInv, ThreadsTypeOK, Apis
<1> QED
  BY <1>1, SubSeqFull DEF Promised

(* ... and at its end, and after it, nothing.                              *)
LEMMA PromisedAtEnd ==
  ASSUME ThreadsInv, InLoop, it > Len(waitingRestApis)
  PROVE  Promised = << >>
<1>1. it \in Int /\ Len(waitingRestApis) \in Int
  BY DEF ThreadsInv, ThreadsTypeOK
<1> QED
  BY <1>1, SubSeqEmpty DEF Promised

(* Who registers joins.                                                    *)
LEMMA RegisteringIsJoin ==
  ASSUME ThreadsInv, ThreadsInv', NEW a \in Apis,
         waitingRestApis' = Append(waitingRestApis, a),
         home \in {"events", "issue", "lock"}, UNCHANGED <<home, announced>>
  PROVE  Promise!Next
<1>1. ~ InLoop /\ ~ InLoop' /\ Result = "none" /\ Result' = "none"
  BY DEF InLoop, Result
<1>2. Promised = waitingRestApis
  BY <1>1, PromisedOutside
<1>3. waitingRestApis' \in Seq(Apis)
  BY DEF ThreadsInv, ThreadsTypeOK, Apis
<1>4. Promised' = waitingRestApis'
  BY <1>1, <1>3, SubSeqFull DEF Promised
<1>5. pendingReply' # Null
  BY Registered DEF ThreadsInv, UpdateToCome
<1>6. Promise!Join(a)
  BY <1>1, <1>2, <1>4, <1>5 DEF Promise!Join
<1> QED
  BY <1>6 DEF Promise!Next, Apis

(* A step that leaves the list alone, outside the loop, changes nothing    *)
(* TimeSync knows of.                                                      *)
LEMMA OutsideIsStutter ==
  ASSUME ~ InLoop, ~ InLoop', UNCHANGED <<waitingRestApis, announced>>,
         (pendingReply # Null) = (pendingReply' # Null)
  PROVE  UNCHANGED Promise!syncVars
BY DEF Promised, Result, Promise!syncVars

LEMMA CheckImplementsNext ==
  ASSUME ThreadsInv, ThreadsInv', NEW t \in OtherThreads, CheckTimestamp(t)
  PROVE  [Promise!Next]_(Promise!syncVars)
<1>1. CASE CheckRegisters(t)
  <2>1. /\ waitingRestApis' = Append(waitingRestApis, t)
        /\ UNCHANGED <<home, announced>>
    BY <1>1 DEF CheckRegisters, homeVars
  <2>2. home \in {"events", "issue", "lock"}
    BY <1>1, ThreadsAssumption
       DEF ThreadsAssumption, CheckRegisters, ThreadsInv, ThreadsTypeOK,
           MutexHeld
  <2> QED
    BY <2>1, <2>2, RegisteringIsJoin DEF Apis
<1>2. CASE ~ CheckRegisters(t)
  <2>1. UNCHANGED <<waitingRestApis, announced, pendingReply, home, it,
                    result>>
    BY <1>2 DEF CheckTimestamp, CheckLocks, CheckReturnsTrue,
                CheckSeesUpdate, homeVars
  <2> QED
    BY <2>1 DEF Promised, Result, InLoop, Promise!syncVars
<1> QED
  BY <1>1, <1>2

(* The head of the loop: how the update ended is now told.                 *)
LEMMA LockForLoopImplements ==
  ASSUME ThreadsInv, LockForLoop
  PROVE  Promise!Next
<1>1. /\ ~ InLoop /\ InLoop' /\ Result = "none" /\ Result' = result
      /\ result \in {"updated", "failed"}
      /\ pendingReply # Null
      /\ UNCHANGED <<pendingReply, waitingRestApis>>
      /\ it' = 1 /\ announced' = currentTimeDelta
  BY DEF LockForLoop, InLoop, Result, ThreadsInv, ThreadsTypeOK, LoopInList,
         UpdateToCome
<1>2. UNCHANGED Promised
  BY <1>1 DEF Promised
<1>3. CASE result = "updated"
  <2>1. currentTimeDelta \in TimeDeltas
    BY <1>3 DEF LockForLoop, ThreadsInv, Announced
  <2> QED
    BY <1>1, <1>2, <1>3, <2>1 DEF Promise!Next, Promise!Succeed
<1>4. CASE result = "failed"
  <2>1. announced = currentTimeDelta
    BY <1>4 DEF ThreadsInv, Announced
  <2> QED
    BY <1>1, <1>2, <1>4, <2>1 DEF Promise!Next, Promise!Fail
<1> QED
  BY <1>1, <1>3, <1>4

LEMMA CallNextImplements ==
  ASSUME ThreadsInv, CallNext
  PROVE  Promise!Next
<1>1. /\ InLoop /\ InLoop' /\ Result # "none" /\ UNCHANGED Result
      /\ it' = it + 1
      /\ UNCHANGED <<pendingReply, waitingRestApis, announced>>
  BY DEF CallNext, InLoop, Result, ThreadsInv, LoopInList
<1>2. /\ waitingRestApis \in Seq(Apis)
      /\ it \in 1 .. Len(waitingRestApis)
      /\ Len(waitingRestApis) \in it .. Len(waitingRestApis)
  BY DEF CallNext, ThreadsInv, ThreadsTypeOK, LoopInList, Apis
<1>3. Promised = SubSeq(waitingRestApis, it, Len(waitingRestApis))
  BY <1>1 DEF Promised
<1>4. Promised' = SubSeq(waitingRestApis, it + 1, Len(waitingRestApis))
  BY <1>1 DEF Promised
<1>5. Promised' = Tail(Promised)
  BY <1>2, <1>3, <1>4, HeadTailOfSubSeq
<1>6. Promised # << >>
  <2>1. \A i \in it .. Len(waitingRestApis) : waitingRestApis[i] \in Apis
    BY <1>2
  <2>2. Len(Promised) = Len(waitingRestApis) - it + 1
    BY <1>2, <1>3, <2>1, SubSeqProperties
  <2> QED
    BY <1>2, <2>2
<1> QED
  BY <1>1, <1>5, <1>6 DEF Promise!Next, Promise!Call

(* The list is cleared when it is used up, the reply forgotten after that. *)
LEMMA ClearListImplements ==
  ASSUME ThreadsInv, ClearList
  PROVE  UNCHANGED Promise!syncVars
<1>1. /\ InLoop /\ InLoop' /\ it > Len(waitingRestApis)
      /\ waitingRestApis' = << >> /\ it' = 1
      /\ UNCHANGED <<pendingReply, result, announced>>
  BY DEF ClearList, InLoop
<1>2. Promised = << >>
  BY <1>1, PromisedAtEnd
<1>3. Promised' = << >>
  BY <1>1, SubSeqEmpty DEF Promised
<1> QED
  BY <1>1, <1>2, <1>3 DEF Result, Promise!syncVars

LEMMA ForgetReplyImplements ==
  ASSUME ThreadsInv, ForgetReply
  PROVE  Promise!Next
<1>1. /\ InLoop /\ ~ InLoop' /\ Result # "none" /\ Result' = "none"
      /\ waitingRestApis = << >> /\ waitingRestApis' = << >>
      /\ pendingReply' = Null /\ UNCHANGED announced
  BY DEF ForgetReply, InLoop, Result, ThreadsInv, LoopInList
<1>2. Promised = << >> /\ Promised' = << >>
  <2>1. it \in Nat
    BY DEF ThreadsInv, ThreadsTypeOK
  <2>2. \A i \in Nat : SubSeq(<< >>, i, 0) = << >>
    <3> SUFFICES ASSUME NEW i \in Nat PROVE SubSeq(<< >>, i, 0) = << >>
      OBVIOUS
    <3> QED
      BY SubSeqProperties
  <2> QED
    BY <1>1, <2>1, <2>2 DEF Promised
<1> QED
  BY <1>1, <1>2 DEF Promise!Next, Promise!Finish

(* Every step of the threads is a step of TimeSync or none.                *)
LEMMA ThreadsNextImplementsNext ==
  ASSUME ThreadsInv, ThreadsInv', [Next]_vars
  PROVE  [Promise!Next]_(Promise!syncVars)
<1>1. CASE UpdateTimeDelta
  <2>1. Promise!Next
    BY <1>1, RegisteringIsJoin DEF UpdateTimeDelta, homeVars, Apis
  <2> QED
    BY <2>1
<1>2. CASE AnswerAccepted \/ AnswerRefused
  BY <1>2, OutsideIsStutter DEF AnswerAccepted, AnswerRefused, InLoop
<1>3. CASE IssueAgain
  <2>1. pendingReply # Null /\ pendingReply' # Null
    BY <1>3, NextReplyIsReply DEF IssueAgain, ThreadsInv, UpdateToCome
  <2> QED
    BY <1>3, <2>1, OutsideIsStutter DEF IssueAgain, InLoop
<1>4. CASE Unlock
  BY <1>4, OutsideIsStutter DEF Unlock, InLoop
<1>5. CASE LockForLoop \/ CallNext \/ ClearList \/ ForgetReply
  BY <1>5, LockForLoopImplements, CallNextImplements, ClearListImplements,
     ForgetReplyImplements
<1>6. CASE UNCHANGED vars
  BY <1>6
     DEF vars, homeVars, Promised, Result, InLoop, Promise!syncVars
<1> QED
  BY <1>1, <1>2, <1>3, <1>4, <1>5, <1>6, CheckImplementsNext
     DEF Next, SlotGoesOn

(* The Server keeps its promise to any number of threads, as far as safety *)
(* goes: who is told to wait in one thread, while another is in the middle *)
(* of responseReceived, is on the list of an update, and is called back.   *)
THEOREM ThreadsImplementTimeSync == Spec => Promise!SafeSpec
<1>1. Init => Promise!Init
  <2> SUFFICES ASSUME Init PROVE Promise!Init
    OBVIOUS
  <2>1. ~ InLoop /\ waitingRestApis = << >>
    BY DEF Init, InLoop
  <2>2. Promised = << >>
    BY <2>1, InitEstablishesThreadsInv, PromisedOutside
  <2> QED
    BY <2>1, <2>2 DEF Init, Result, Promise!Init
<1>2. ThreadsInv /\ ThreadsInv' /\ [Next]_vars
        => [Promise!Next]_(Promise!syncVars)
  BY ThreadsNextImplementsNext
<1> QED
  BY <1>1, <1>2, ThreadsInvariance, PTL DEF Spec, Promise!SafeSpec
=============================================================================
