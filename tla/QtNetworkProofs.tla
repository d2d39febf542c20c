-------------------------- MODULE QtNetworkProofs ---------------------------
(***************************************************************************)
(* What the operators of QtNetwork do to a network, so that proofs about   *)
(* its users need not look inside the event queue: each keeps the network  *)
(* well formed, and each lemma says which replies are alive after it and   *)
(* which events are queued.  The second half says the same of the replies  *)
(* of one owner, so that the Server and each handler can be reasoned about *)
(* apart: an operation of one of them keeps the replies of the others as   *)
(* they are, and the one reply of its own that is open stays the only one. *)
(***************************************************************************)
EXTENDS QtNetwork, FiniteSetTheorems, SequenceTheorems, WellFoundedInduction,
        TLAPS

(* QNetworkAccessManager::post gives an address nobody holds: neither null *)
(* nor that of a reply that still exists.                                  *)
LEMMA NewReplyIsFree ==
  ASSUME NEW n, IsFiniteSet(Alive(n))
  PROVE  NewReply(n) \in Nat \ {NoReply} /\ NewReply(n) \notin Alive(n)
<1> DEFINE c == Cardinality(Alive(n))
           Addresses == 1 .. c + 1
<1>1. c \in Nat
  BY FS_CardinalityType
<1>2. IsFiniteSet(Addresses) /\ Cardinality(Addresses) = c + 1
  BY <1>1, FS_Interval
<1>3. ~ (Addresses \subseteq Alive(n))
  <2> SUFFICES ASSUME Addresses \in SUBSET Alive(n) PROVE FALSE
    OBVIOUS
  <2> Cardinality(Addresses) <= c
    BY FS_Subset
  <2> QED
    BY <1>1, <1>2
<1>4. \E r \in Addresses : r \notin Alive(n)
  BY <1>3
<1>5. NewReply(n) \in Addresses /\ NewReply(n) \notin Alive(n)
  BY <1>4 DEF NewReply
<1> QED
  BY <1>1, <1>5 DEF NoReply

(* A network without replies and events is well formed.                    *)
LEMMA EmptyNetworkOK ==
  /\ NetworkOK(EmptyNetwork)
  /\ Alive(EmptyNetwork) = {}
<1>1. Alive(EmptyNetwork) = {}
  BY DEF Alive, EmptyNetwork
<1>2. EmptyNetwork.events = << >> /\ DOMAIN EmptyNetwork.events = {}
  BY DEF EmptyNetwork
<1>3. NetworkTypeOK(EmptyNetwork)
  BY <1>1, <1>2, FS_EmptySet DEF NetworkTypeOK
<1>4. EventsOK(EmptyNetwork)
  BY <1>1, <1>2 DEF EventsOK, FinishedFirst
<1> QED
  BY <1>1, <1>3, <1>4 DEF NetworkOK

(* The event queue after an event is appended.                             *)
LEMMA AppendEvent ==
  ASSUME NEW n, n.events \in Seq(EventRecords),
         NEW m, NEW e \in EventRecords, m.events = Append(n.events, e)
  PROVE  /\ m.events \in Seq(EventRecords)
         /\ DOMAIN m.events = 1 .. Len(n.events) + 1
         /\ DOMAIN n.events = 1 .. Len(n.events)
         /\ Len(n.events) \in Nat
         /\ \A i \in DOMAIN n.events : m.events[i] = n.events[i]
         /\ m.events[Len(n.events) + 1] = e
OBVIOUS

(* A well-formed network stays so when a new event is posted to a reply    *)
(* that exists.                                                            *)
LEMMA AppendEventOK ==
  ASSUME NEW n, n.events \in Seq(EventRecords),
         NEW m, NEW e \in EventRecords, m.events = Append(n.events, e),
         \A i \in DOMAIN n.events : n.events[i].reply \in Alive(n),
         \A i, j \in DOMAIN n.events : n.events[i] = n.events[j] => i = j,
         Alive(m) = Alive(n), e.reply \in Alive(n),
         ~ Queued(n, e.kind, e.reply),
         FinishedFirst(n),
         e.kind = "finished" => ~ Queued(n, "delete", e.reply)
  PROVE  /\ \A i \in DOMAIN m.events : m.events[i].reply \in Alive(m)
         /\ \A i, j \in DOMAIN m.events : m.events[i] = m.events[j] => i = j
         /\ FinishedFirst(m)
<1>1. /\ DOMAIN m.events = 1 .. Len(n.events) + 1
      /\ DOMAIN n.events = 1 .. Len(n.events)
      /\ Len(n.events) \in Nat
      /\ \A i \in DOMAIN n.events : m.events[i] = n.events[i]
      /\ m.events[Len(n.events) + 1] = e
  BY AppendEvent
<1>2. e = [kind |-> e.kind, reply |-> e.reply]
  BY DEF EventRecords
<1>3. \A i \in DOMAIN n.events : n.events[i] # e
  BY <1>2 DEF Queued
<1>4. /\ \A i \in DOMAIN m.events : m.events[i].reply \in Alive(m)
      /\ \A i, j \in DOMAIN m.events : m.events[i] = m.events[j] => i = j
  BY <1>1, <1>3
<1>5. FinishedFirst(m)
  <2> SUFFICES ASSUME NEW i \in DOMAIN m.events, NEW j \in DOMAIN m.events,
                      m.events[i].kind = "delete",
                      m.events[j].kind = "finished",
                      m.events[i].reply = m.events[j].reply
               PROVE  j < i
    BY DEF FinishedFirst
  <2>1. \A l \in DOMAIN n.events :
          n.events[l] = [kind  |-> n.events[l].kind,
                         reply |-> n.events[l].reply]
    <3> SUFFICES ASSUME NEW l \in DOMAIN n.events
                 PROVE  n.events[l] = [kind  |-> n.events[l].kind,
                                       reply |-> n.events[l].reply]
      OBVIOUS
    <3>1. n.events[l] \in EventRecords
      BY <1>1
    <3> QED
      BY <3>1 DEF EventRecords
  <2>2. CASE j \in DOMAIN n.events
    BY <1>1, <2>2 DEF FinishedFirst
  <2>3. CASE j \notin DOMAIN n.events
    <3>1. j = Len(n.events) + 1 /\ m.events[j] = e
      BY <1>1, <2>3
    <3>2. CASE i \in DOMAIN n.events
      <4>1. n.events[i] = [kind |-> "delete", reply |-> e.reply]
        BY <1>1, <2>1, <3>1, <3>2
      <4> QED
        BY <3>1, <3>2, <4>1 DEF Queued
    <3>3. CASE i \notin DOMAIN n.events
      BY <1>1, <3>1, <3>3
    <3> QED
      BY <3>2, <3>3
  <2> QED
    BY <2>2, <2>3
<1> QED
  BY <1>4, <1>5

(* deleteLater queues one deferred delete and changes nothing else.        *)
LEMMA DeleteLaterOK ==
  ASSUME NEW n, NetworkOK(n), NEW r \in Alive(n)
  PROVE  /\ NetworkOK(DeleteLater(n, r))
         /\ DeleteLater(n, r).reply = n.reply
         /\ Alive(DeleteLater(n, r)) = Alive(n)
         /\ \A k, q : Queued(DeleteLater(n, r), k, q) <=>
                        Queued(n, k, q) \/ (k = "delete" /\ q = r)
<1> DEFINE m == DeleteLater(n, r)
           e == [kind |-> "delete", reply |-> r]
<1>1. CASE Queued(n, "delete", r)
  BY <1>1 DEF DeleteLater
<1>2. CASE ~ Queued(n, "delete", r)
  <2>1. m.reply = n.reply /\ m.events = Append(n.events, e)
    BY <1>2 DEF DeleteLater
  <2>2. Alive(m) = Alive(n)
    BY <2>1 DEF Alive
  <2>3. e \in EventRecords
    BY DEF NetworkOK, NetworkTypeOK, EventRecords
  <2>4. /\ m.events \in Seq(EventRecords)
        /\ \A k, q : Queued(m, k, q) <=>
                       Queued(n, k, q) \/ (k = "delete" /\ q = r)
    <3> n.events \in Seq(EventRecords)
      BY DEF NetworkOK, NetworkTypeOK
    <3> HIDE DEF m
    <3>1. /\ m.events \in Seq(EventRecords)
          /\ \A k, q : Queued(m, k, q) <=>
                         Queued(n, k, q) \/ e = [kind |-> k, reply |-> q]
      <4>1. m.events = Append(n.events, e)
        BY <2>1
      <4> HIDE DEF e
      <4> QED
        BY <4>1, <2>3, AppendEvent DEF Queued
    <3>2. \A k, q : e = [kind |-> k, reply |-> q] <=> (k = "delete" /\ q = r)
      OBVIOUS
    <3> QED
      BY <3>1, <3>2
  <2>5. NetworkTypeOK(m)
    <3> HIDE DEF m
    <3> QED
      BY <2>1, <2>2, <2>4 DEF NetworkOK, NetworkTypeOK
  <2>6. EventsOK(m)
    <3> HIDE DEF m
    <3>1. /\ \A i \in DOMAIN m.events : m.events[i].reply \in Alive(m)
          /\ \A i, j \in DOMAIN m.events : m.events[i] = m.events[j] => i = j
          /\ FinishedFirst(m)
      BY <1>2, <2>1, <2>2, <2>3, AppendEventOK, SMTT(20)
         DEF NetworkOK, NetworkTypeOK, EventsOK
    <3> QED
      BY <2>1, <2>2, <2>4, <3>1 DEF NetworkOK, EventsOK
  <2> QED
    BY <2>1, <2>2, <2>4, <2>5, <2>6 DEF NetworkOK
<1> QED
  BY <1>1, <1>2

(* The end of an exchange queues one finished event, and records an answer *)
(* in that reply only.                                                     *)
LEMMA FinishedOK ==
  ASSUME NEW n, NetworkOK(n), NEW r \in Alive(n), CanFinish(n, r), NEW a
  PROVE  /\ NetworkOK(Finished(n, r, a))
         /\ Alive(Finished(n, r, a)) = Alive(n)
         /\ \A q \in Alive(n) :
              /\ Finished(n, r, a).reply[q].owner = n.reply[q].owner
              /\ Finished(n, r, a).reply[q].payload = n.reply[q].payload
              /\ q # r => Finished(n, r, a).reply[q] = n.reply[q]
         /\ Finished(n, r, a).reply[r].answer = a
         /\ \A k, q : Queued(Finished(n, r, a), k, q) <=>
                        Queued(n, k, q) \/ (k = "finished" /\ q = r)
<1> DEFINE m == Finished(n, r, a)
           e == [kind |-> "finished", reply |-> r]
<1>1. /\ m.reply = [n.reply EXCEPT ![r].finished = TRUE, ![r].answer = a]
      /\ m.events = Append(n.events, e)
  BY DEF Finished
<1>2. Alive(m) = Alive(n)
  BY <1>1 DEF Alive
<1>3. e \in EventRecords /\ n.events \in Seq(EventRecords)
  BY DEF NetworkOK, NetworkTypeOK, EventRecords
<1>4. ~ Queued(n, "finished", r)
  BY DEF CanFinish, NetworkOK, EventsOK
<1> HIDE DEF m
<1>5. /\ m.events \in Seq(EventRecords)
      /\ \A k, q : Queued(m, k, q) <=>
                     Queued(n, k, q) \/ (k = "finished" /\ q = r)
  <2>1. /\ m.events \in Seq(EventRecords)
        /\ \A k, q : Queued(m, k, q) <=>
                       Queued(n, k, q) \/ e = [kind |-> k, reply |-> q]
    <3>1. m.events = Append(n.events, e)
      BY <1>1
    <3> HIDE DEF e
    <3>2. /\ m.events \in Seq(EventRecords)
          /\ DOMAIN m.events = 1 .. Len(n.events) + 1
          /\ DOMAIN n.events = 1 .. Len(n.events)
          /\ Len(n.events) \in Nat
          /\ \A i \in DOMAIN n.events : m.events[i] = n.events[i]
          /\ m.events[Len(n.events) + 1] = e
      BY <1>3, <3>1, AppendEvent
    <3> QED
      BY <3>2 DEF Queued
  <2>2. \A k, q : e = [kind |-> k, reply |-> q] <=> (k = "finished" /\ q = r)
    OBVIOUS
  <2> QED
    BY <2>1, <2>2
<1>6. /\ \A q \in Alive(n) : /\ m.reply[q].owner = n.reply[q].owner
                             /\ m.reply[q].payload = n.reply[q].payload
                             /\ q # r => m.reply[q] = n.reply[q]
      /\ m.reply[r].finished = TRUE
      /\ m.reply[r].answer = a
  BY <1>1 DEF Alive
<1>7. NetworkTypeOK(m)
  BY <1>2, <1>5, <1>6 DEF NetworkOK, NetworkTypeOK
<1>8. EventsOK(m)
  <2>1. /\ \A i \in DOMAIN m.events : m.events[i].reply \in Alive(m)
        /\ \A i, j \in DOMAIN m.events : m.events[i] = m.events[j] => i = j
        /\ FinishedFirst(m)
    <3>1. /\ ~ Queued(n, "delete", r)
          /\ FinishedFirst(n)
          /\ \A i \in DOMAIN n.events : n.events[i].reply \in Alive(n)
          /\ \A i, j \in DOMAIN n.events : n.events[i] = n.events[j] => i = j
      BY DEF CanFinish, NetworkOK, EventsOK
    <3>2. /\ m.events = Append(n.events, e)
          /\ e.reply = r /\ e.kind = "finished"
      BY <1>1
    <3> HIDE DEF e
    <3> QED
      BY <1>2, <1>3, <1>4, <3>1, <3>2, AppendEventOK
  <2> QED
    BY <1>2, <1>5, <1>6, <2>1 DEF NetworkOK, EventsOK
<1> QED
  BY <1>2, <1>5, <1>6, <1>7, <1>8 DEF NetworkOK, m

(* post adds one unfinished reply to which no event is posted.             *)
LEMMA PostedOK ==
  ASSUME NEW n, NetworkOK(n), NEW owner, NEW payload
  PROVE  /\ NetworkOK(Posted(n, owner, payload))
         /\ Alive(Posted(n, owner, payload)) = Alive(n) \cup {NewReply(n)}
         /\ NewReply(n) \in Nat \ {NoReply} /\ NewReply(n) \notin Alive(n)
         /\ \A q \in Alive(n) : Posted(n, owner, payload).reply[q] = n.reply[q]
         /\ Posted(n, owner, payload).reply[NewReply(n)] =
              [owner |-> owner, payload |-> payload, finished |-> FALSE,
               answer |-> NothingRead]
         /\ \A k, q : Queued(Posted(n, owner, payload), k, q)
                         <=> Queued(n, k, q)
         /\ \A k : ~ Queued(Posted(n, owner, payload), k, NewReply(n))
<1> DEFINE m == Posted(n, owner, payload)
           p == NewReply(n)
<1>1. p \in Nat \ {NoReply} /\ p \notin Alive(n)
  BY NewReplyIsFree DEF NetworkOK, NetworkTypeOK
<1> HIDE DEF p
<1>2. /\ m.reply = [r \in Alive(n) \cup {p} |->
                     IF r = p THEN [owner |-> owner, payload |-> payload,
                                    finished |-> FALSE,
                                    answer |-> NothingRead]
                              ELSE n.reply[r]]
      /\ m.events = n.events
  BY DEF Posted, p
<1> HIDE DEF m
<1>3. Alive(m) = Alive(n) \cup {p}
  BY <1>2 DEF Alive
<1>4. /\ \A q \in Alive(n) : m.reply[q] = n.reply[q]
      /\ m.reply[p] = [owner |-> owner, payload |-> payload,
                       finished |-> FALSE, answer |-> NothingRead]
  BY <1>1, <1>2
<1>5. \A k, q : Queued(m, k, q) <=> Queued(n, k, q)
  BY <1>2 DEF Queued
<1>6. \A k : ~ Queued(n, k, p)
  BY <1>1 DEF Queued, NetworkOK, EventsOK
<1>7. NetworkTypeOK(m)
  <2>1. IsFiniteSet(Alive(m))
    BY <1>3, FS_AddElement DEF NetworkOK, NetworkTypeOK
  <2>2. m.reply[p].finished = FALSE
    BY <1>4
  <2> QED
    BY <1>1, <1>2, <1>3, <1>4, <2>1, <2>2 DEF NetworkOK, NetworkTypeOK
<1>8. EventsOK(m)
  <2>1. /\ \A i \in DOMAIN m.events : m.events[i].reply \in Alive(m)
        /\ \A i, j \in DOMAIN m.events : m.events[i] = m.events[j] => i = j
        /\ FinishedFirst(m)
    BY <1>2, <1>3 DEF NetworkOK, EventsOK, FinishedFirst
  <2>2. ASSUME NEW r \in Alive(m), Queued(m, "finished", r)
        PROVE  m.reply[r].finished
    BY <1>3, <1>4, <1>5, <1>6, <2>2 DEF NetworkOK, EventsOK
  <2> QED
    BY <2>1, <2>2 DEF EventsOK
<1> QED
  BY <1>1, <1>3, <1>4, <1>5, <1>6, <1>7, <1>8 DEF NetworkOK, m, p

(* The event loop takes the next event, and leaves the others.             *)
LEMMA TakenOK ==
  ASSUME NEW n, NetworkOK(n), n.events # << >>
  PROVE  /\ NetworkOK(Taken(n))
         /\ Taken(n).reply = n.reply
         /\ Alive(Taken(n)) = Alive(n)
         /\ Head(n.events) \in EventRecords
         /\ Head(n.events).reply \in Alive(n)
         /\ Queued(n, Head(n.events).kind, Head(n.events).reply)
         /\ \A k, q : Queued(Taken(n), k, q) <=>
                        /\ Queued(n, k, q)
                        /\ Head(n.events) # [kind |-> k, reply |-> q]
<1> DEFINE m == Taken(n)
           e == Head(n.events)
<1>1. m.reply = n.reply /\ m.events = Tail(n.events)
  BY DEF Taken
<1>2. Alive(m) = Alive(n)
  BY <1>1 DEF Alive
<1> HIDE DEF m
<1>3. /\ n.events \in Seq(EventRecords)
      /\ Len(n.events) \in Nat \ {0}
      /\ DOMAIN n.events = 1 .. Len(n.events)
      /\ m.events \in Seq(EventRecords)
      /\ DOMAIN m.events = 1 .. Len(n.events) - 1
      /\ \A i \in DOMAIN m.events : m.events[i] = n.events[i + 1]
      /\ e = n.events[1]
      /\ e \in EventRecords
  <2>1. n.events \in Seq(EventRecords)
    BY DEF NetworkOK, NetworkTypeOK
  <2> QED
    BY <1>1, <2>1
<1> HIDE DEF e
<1>4. \A i, j \in DOMAIN n.events : n.events[i] = n.events[j] => i = j
  BY DEF NetworkOK, EventsOK
<1>5. e.reply \in Alive(n) /\ e = [kind |-> e.kind, reply |-> e.reply]
  BY <1>3 DEF NetworkOK, EventsOK, EventRecords
<1>6. Queued(n, e.kind, e.reply)
  BY <1>3, <1>5 DEF Queued
<1>7. ASSUME NEW k, NEW q
      PROVE  Queued(m, k, q) <=>
               Queued(n, k, q) /\ e # [kind |-> k, reply |-> q]
  <2> DEFINE x == [kind |-> k, reply |-> q]
  <2> HIDE DEF x
  <2>1. (\E i \in DOMAIN m.events : m.events[i] = x) <=>
          (\E i \in DOMAIN n.events : n.events[i] = x) /\ e # x
    <3>1. ASSUME NEW i \in DOMAIN m.events, m.events[i] = x
          PROVE  (\E j \in DOMAIN n.events : n.events[j] = x) /\ e # x
      <4> i + 1 \in DOMAIN n.events /\ 1 \in DOMAIN n.events /\ i + 1 # 1
        BY <1>3
      <4> QED
        BY <1>3, <1>4, <3>1
    <3>2. ASSUME NEW i \in DOMAIN n.events, n.events[i] = x, e # x
          PROVE  \E j \in DOMAIN m.events : m.events[j] = x
      <4> i - 1 \in DOMAIN m.events /\ (i - 1) + 1 = i
        BY <1>3, <3>2
      <4> QED
        BY <1>3, <3>2
    <3> QED
      BY <3>1, <3>2
  <2> QED
    BY <2>1 DEF Queued, x
<1>8. NetworkTypeOK(m)
  BY <1>1, <1>2, <1>3 DEF NetworkOK, NetworkTypeOK
<1>9. EventsOK(m)
  <2>1. \A i \in DOMAIN m.events : m.events[i].reply \in Alive(m)
    <3> SUFFICES ASSUME NEW i \in DOMAIN m.events
                 PROVE  m.events[i].reply \in Alive(m)
      OBVIOUS
    <3>1. i + 1 \in DOMAIN n.events
      BY <1>3
    <3> QED
      BY <1>2, <1>3, <3>1 DEF NetworkOK, EventsOK
  <2>2. \A i, j \in DOMAIN m.events : m.events[i] = m.events[j] => i = j
    <3> SUFFICES ASSUME NEW i \in DOMAIN m.events, NEW j \in DOMAIN m.events,
                        m.events[i] = m.events[j]
                 PROVE  i = j
      OBVIOUS
    <3>1. i + 1 \in DOMAIN n.events /\ j + 1 \in DOMAIN n.events
      BY <1>3
    <3>2. i + 1 = j + 1
      BY <1>3, <1>4, <3>1
    <3> QED
      BY <1>3, <3>2
  <2>3. FinishedFirst(m)
    <3> SUFFICES ASSUME NEW i \in DOMAIN m.events, NEW j \in DOMAIN m.events,
                        m.events[i].kind = "delete",
                        m.events[j].kind = "finished",
                        m.events[i].reply = m.events[j].reply
                 PROVE  j < i
      BY DEF FinishedFirst
    <3>1. i + 1 \in DOMAIN n.events /\ j + 1 \in DOMAIN n.events
      BY <1>3
    <3>2. m.events[i] = n.events[i + 1] /\ m.events[j] = n.events[j + 1]
      BY <1>3
    <3>3. /\ n.events[i + 1].kind = "delete"
          /\ n.events[j + 1].kind = "finished"
          /\ n.events[i + 1].reply = n.events[j + 1].reply
      BY <3>2
    <3>4. FinishedFirst(n)
      BY DEF NetworkOK, EventsOK
    <3>5. j + 1 < i + 1
      BY <3>1, <3>3, <3>4 DEF FinishedFirst
    <3> QED
      BY <1>3, <3>5
  <2>4. ASSUME NEW r \in Alive(m), Queued(m, "finished", r)
        PROVE  m.reply[r].finished
    BY <1>1, <1>2, <1>7, <2>4 DEF NetworkOK, EventsOK
  <2> QED
    BY <2>1, <2>2, <2>3, <2>4 DEF EventsOK
<1> QED
  BY <1>1, <1>2, <1>3, <1>5, <1>6, <1>7, <1>8, <1>9 DEF NetworkOK, m, e

(* A deferred delete removes its reply, to which no other event is posted, *)
(* and only that.                                                          *)
LEMMA DeletedOK ==
  ASSUME NEW n, NetworkOK(n), DeleteReady(n)
  PROVE  /\ NetworkOK(Deleted(n))
         /\ Alive(Deleted(n)) = Alive(n) \ {Head(n.events).reply}
         /\ \A q \in Alive(Deleted(n)) : Deleted(n).reply[q] = n.reply[q]
         /\ \A q \in Alive(Deleted(n)) : \A k :
              Queued(Deleted(n), k, q) <=> Queued(n, k, q)
<1> DEFINE m == Deleted(n)
           t == Taken(n)
           e == Head(n.events)
<1>1. /\ m.reply = [r \in Alive(n) \ {e.reply} |-> n.reply[r]]
      /\ m.events = t.events
  BY DEF Deleted, Taken
<1>2. /\ NetworkOK(t)
      /\ t.reply = n.reply
      /\ Alive(t) = Alive(n)
      /\ e \in EventRecords
      /\ e.reply \in Alive(n)
      /\ e.kind = "delete"
      /\ \A k, q : Queued(t, k, q) <=>
                     Queued(n, k, q) /\ e # [kind |-> k, reply |-> q]
  BY TakenOK DEF DeleteReady
<1> HIDE DEF m, t, e
<1>3. /\ Alive(m) = Alive(n) \ {e.reply}
      /\ \A q \in Alive(m) : m.reply[q] = n.reply[q]
  BY <1>1 DEF Alive
<1>4. \A k, q : Queued(m, k, q) <=> Queued(t, k, q)
  BY <1>1 DEF Queued
<1>5. \A q \in Alive(m) : \A k : Queued(m, k, q) <=> Queued(n, k, q)
  <2> SUFFICES ASSUME NEW q \in Alive(m), NEW k
               PROVE  Queued(m, k, q) <=> Queued(n, k, q)
    OBVIOUS
  <2>1. q # e.reply
    BY <1>3
  <2>2. e # [kind |-> k, reply |-> q]
    BY <2>1
  <2> QED
    BY <1>2, <1>4, <2>2
<1>6. ~ Queued(n, "finished", e.reply)
  <2> SUFFICES ASSUME NEW j \in DOMAIN n.events,
                      n.events[j] = [kind |-> "finished", reply |-> e.reply]
               PROVE  FALSE
    BY DEF Queued
  <2>1. n.events \in Seq(EventRecords) /\ n.events # << >>
    BY DEF NetworkOK, NetworkTypeOK, DeleteReady
  <2>2. 1 \in DOMAIN n.events /\ n.events[1] = e /\ j >= 1
    BY <2>1 DEF e
  <2>3. j < 1
    BY <1>2, <2>2 DEF NetworkOK, EventsOK, FinishedFirst
  <2> QED
    BY <2>1, <2>2, <2>3
<1>7. NetworkTypeOK(m)
  <2>1. IsFiniteSet(Alive(m))
    <3>1. IsFiniteSet(Alive(n))
      BY DEF NetworkOK, NetworkTypeOK
    <3>2. IsFiniteSet(Alive(n) \ {e.reply})
      BY <3>1, FS_RemoveElement
    <3> QED
      BY <1>3, <3>2
  <2> QED
    BY <1>1, <1>2, <1>3, <2>1 DEF NetworkOK, NetworkTypeOK
<1>8. EventsOK(m)
  <2>1. ASSUME NEW i \in DOMAIN m.events
        PROVE  m.events[i].reply \in Alive(m)
    <3>1. /\ m.events[i] \in EventRecords
          /\ m.events[i].reply \in Alive(n)
      BY <1>1, <1>2, <2>1 DEF NetworkOK, NetworkTypeOK, EventsOK
    <3>2. m.events[i] = [kind  |-> m.events[i].kind,
                         reply |-> m.events[i].reply]
      BY <3>1 DEF EventRecords
    <3>3. Queued(t, m.events[i].kind, m.events[i].reply)
      BY <1>4, <2>1, <3>2 DEF Queued
    <3>4. /\ Queued(n, m.events[i].kind, m.events[i].reply)
          /\ e # m.events[i]
      BY <1>2, <3>2, <3>3
    <3>5. m.events[i].kind \in {"finished", "delete"}
      BY <3>1 DEF EventRecords
    <3>6. m.events[i].reply # e.reply
      <4>1. e = [kind |-> "delete", reply |-> e.reply]
        BY <1>2 DEF EventRecords
      <4>2. ~ Queued(n, "finished", e.reply)
        BY <1>6
      <4>3. CASE m.events[i].kind = "finished"
        BY <3>4, <4>2, <4>3
      <4>4. CASE m.events[i].kind = "delete"
        BY <3>2, <3>4, <4>1, <4>4
      <4> QED
        BY <3>5, <4>3, <4>4
    <3> QED
      BY <1>3, <3>1, <3>6
  <2>2. /\ \A i, j \in DOMAIN m.events : m.events[i] = m.events[j] => i = j
        /\ FinishedFirst(m)
    BY <1>1, <1>2 DEF NetworkOK, EventsOK, FinishedFirst
  <2>3. ASSUME NEW r \in Alive(m), Queued(m, "finished", r)
        PROVE  m.reply[r].finished
    BY <1>3, <1>5, <2>3 DEF NetworkOK, EventsOK
  <2> QED
    BY <2>1, <2>2, <2>3 DEF EventsOK
<1> QED
  BY <1>3, <1>5, <1>7, <1>8 DEF NetworkOK, m, e

-----------------------------------------------------------------------------
(* Induction                                                               *)

(* Every set of naturals that is not empty has a least element.            *)
LEMMA LeastElement ==
  ASSUME NEW T \in SUBSET Nat, T # {}
  PROVE  \E x \in T : \A y \in T : x <= y
<1> DEFINE R == OpToRel(<, Nat)
<1>1. IsWellFoundedOn(R, Nat)
  BY NatLessThanWellFounded
<1>2. \A x, y \in Nat : <<y, x>> \in R <=> y < x
  BY DEF OpToRel
<1> HIDE DEF R
<1>3. PICK x \in T : \A y \in T : ~ (<<y, x>> \in R)
  BY <1>1, WFMin
<1>4. ASSUME NEW y \in T PROVE x <= y
  <2>1. x \in Nat /\ y \in Nat
    OBVIOUS
  <2>2. ~ (y < x)
    BY <1>2, <1>3, <2>1
  <2> QED
    BY <2>1, <2>2
<1> QED
  BY <1>4

(* Induction, with a set of naturals for the induction hypothesis: that is *)
(* a form the provers can instantiate.                                     *)
LEMMA SetInduction ==
  ASSUME NEW T \in SUBSET Nat, 0 \in T, \A i \in T : i + 1 \in T
  PROVE  T = Nat
<1> SUFFICES ASSUME Nat \ T # {} PROVE FALSE
  OBVIOUS
<1>1. PICK x \in Nat \ T : \A y \in Nat \ T : x <= y
  BY LeastElement
<1>2. x # 0 /\ x - 1 \in Nat /\ x = (x - 1) + 1
  BY <1>1
<1>3. x - 1 \in T
  BY <1>1, <1>2
<1> QED
  BY <1>1, <1>2, <1>3

-----------------------------------------------------------------------------
(* What remains of a queue                                                 *)

(* One step of the recursion by which Remaining is defined ...             *)
FilterStep(s, gone, g, i) ==
  IF i = 0 THEN << >>
  ELSE IF s[i].reply \in gone THEN g[i - 1] ELSE Append(g[i - 1], s[i])

(* ... and a function that follows it as far as k.                         *)
Follows(s, gone, k, g) == \A i \in 0 .. k : g[i] = FilterStep(s, gone, g, i)

(* Such functions exist, by induction on k ...                             *)
LEMMA FollowsExists ==
  ASSUME NEW s, Len(s) \in Nat, NEW gone
  PROVE  \E g : Follows(s, gone, Len(s), g)
<1> DEFINE T == {k \in Nat : \E g : Follows(s, gone, k, g)}
<1>1. 0 \in T
  <2> DEFINE g == [i \in 0 .. 0 |-> << >>]
  <2>1. Follows(s, gone, 0, g)
    BY DEF Follows, FilterStep
  <2> QED
    BY <2>1
<1>2. ASSUME NEW k \in T
      PROVE  k + 1 \in T
  <2>1. k \in Nat
    OBVIOUS
  <2>2. PICK g : Follows(s, gone, k, g)
    OBVIOUS
  <2> DEFINE new == FilterStep(s, gone, g, k + 1)
             h == [i \in 0 .. k + 1 |-> IF i <= k THEN g[i] ELSE new]
  <2>3. ASSUME NEW i \in 0 .. k + 1
        PROVE  h[i] = FilterStep(s, gone, h, i)
    <3> HIDE DEF new
    <3>1. CASE i <= k
      <4>1. i \in 0 .. k /\ h[i] = g[i] /\ (i # 0 => h[i - 1] = g[i - 1])
        BY <2>1, <3>1
      <4> HIDE DEF h
      <4> QED
        BY <2>2, <4>1 DEF Follows, FilterStep
    <3>2. CASE i = k + 1
      <4>1. h[i] = new /\ h[i - 1] = g[i - 1]
        BY <2>1, <3>2
      <4> HIDE DEF h
      <4> QED
        BY <3>2, <4>1 DEF new, FilterStep
    <3> QED
      BY <2>1, <3>1, <3>2
  <2>4. Follows(s, gone, k + 1, h)
    <3> HIDE DEF h
    <3> QED
      BY <2>3 DEF Follows
  <2> HIDE DEF h
  <2>5. k + 1 \in Nat
    BY <2>1
  <2> QED
    BY <2>4, <2>5
<1> HIDE DEF T
<1>3. T = Nat
  <2>1. T \in SUBSET Nat
    BY DEF T
  <2> QED
    BY <1>1, <1>2, <2>1, SetInduction
<1> QED
  BY <1>3 DEF T

(* ... so the function in Remaining is one.                                *)
LEMMA RemainingFollows ==
  ASSUME NEW s, Len(s) \in Nat, NEW gone
  PROVE  \E f : Follows(s, gone, Len(s), f) /\ Remaining(s, gone) = f[Len(s)]
<1> DEFINE L == Len(s)
<1>4. PICK g0 : Follows(s, gone, L, g0)
  BY FollowsExists
<1> DEFINE g == [i \in 0 .. L |-> g0[i]]
<1> DEFINE f[i \in 0 .. L] ==
        IF i = 0 THEN << >>
        ELSE IF s[i].reply \in gone THEN f[i - 1] ELSE Append(f[i - 1], s[i])
<1>5. Remaining(s, gone) = f[L]
  BY DEF Remaining
<1>6. g = [i \in 0 .. L |->
        IF i = 0 THEN << >>
        ELSE IF s[i].reply \in gone THEN g[i - 1] ELSE Append(g[i - 1], s[i])]
   <2>1. ASSUME NEW i \in 0 .. L
         PROVE  g[i] = IF i = 0 THEN << >>
                           ELSE IF s[i].reply \in gone THEN g[i - 1]
                           ELSE Append(g[i - 1], s[i])
     <3>1. g[i] = g0[i] /\ (i # 0 => g[i - 1] = g0[i - 1])
       OBVIOUS
     <3> HIDE DEF g
     <3> QED
       BY <1>4, <3>1 DEF Follows, FilterStep
   <2>2. g = [i \in 0 .. L |-> g[i]]
     OBVIOUS
   <2> HIDE DEF g
   <2> QED
     BY <2>1, <2>2
<1> HIDE DEF g
<1>7. f = [i \in 0 .. L |->
        IF i = 0 THEN << >>
        ELSE IF s[i].reply \in gone THEN f[i - 1] ELSE Append(f[i - 1], s[i])]
  BY <1>6, Zenon
<1> HIDE DEF f
<1>8. Follows(s, gone, L, f)
  <2> SUFFICES ASSUME NEW i \in 0 .. L
               PROVE  f[i] = FilterStep(s, gone, f, i)
    BY DEF Follows
  <2> QED
    BY <1>7 DEF FilterStep
<1> QED
  BY <1>5, <1>8

(* The elements of t are those of the first k of s whose reply is not      *)
(* gone, in their order: p gives their places in s.                        *)
Places(s, gone, k, t, p) ==
  /\ \A a \in 1 .. Len(t) :
       p[a] \in 1 .. k /\ t[a] = s[p[a]] /\ s[p[a]].reply \notin gone
  /\ \A a, b \in 1 .. Len(t) : a < b => p[a] < p[b]
  /\ \A j \in 1 .. k :
       s[j].reply \notin gone => \E a \in 1 .. Len(t) : p[a] = j

(* So t is what should remain of them.                                     *)
Filtered(S, s, gone, k, t) == t \in Seq(S) /\ \E p : Places(s, gone, k, t, p)

(* The step of the recursion keeps that ...                                *)
LEMMA FilteredNext ==
  ASSUME NEW S, NEW s \in Seq(S), NEW gone, NEW t, NEW u,
         NEW k \in Nat, k + 1 <= Len(s),
         Filtered(S, s, gone, k, t),
         u = IF s[k + 1].reply \in gone THEN t ELSE Append(t, s[k + 1])
  PROVE  Filtered(S, s, gone, k + 1, u)
<1>1. PICK p : Places(s, gone, k, t, p)
  BY DEF Filtered
<1>2. t \in Seq(S) /\ s[k + 1] \in S /\ Len(t) \in Nat
  BY DEF Filtered
<1>3. CASE s[k + 1].reply \in gone
  <2>1. Places(s, gone, k + 1, u, p)
    BY <1>1, <1>3 DEF Places
  <2> QED
    BY <1>2, <1>3, <2>1 DEF Filtered
<1>4. CASE s[k + 1].reply \notin gone
  <2> DEFINE q == [a \in 1 .. Len(t) + 1 |->
                     IF a <= Len(t) THEN p[a] ELSE k + 1]
  <2>1. /\ u \in Seq(S) /\ Len(u) = Len(t) + 1
        /\ \A a \in 1 .. Len(t) : u[a] = t[a]
        /\ u[Len(t) + 1] = s[k + 1]
    BY <1>2, <1>4
  <2>2. /\ \A a \in 1 .. Len(t) : q[a] = p[a] /\ a \in 1 .. Len(t) + 1
        /\ q[Len(t) + 1] = k + 1 /\ Len(t) + 1 \in 1 .. Len(t) + 1
        /\ \A a \in 1 .. Len(t) + 1 : a \in 1 .. Len(t) \/ a = Len(t) + 1
    BY <1>2
  <2> HIDE DEF q
  <2>3. Places(s, gone, k + 1, u, q)
    <3>1. \A a \in 1 .. Len(u) : q[a] \in 1 .. k + 1 /\ u[a] = s[q[a]]
                                 /\ s[q[a]].reply \notin gone
      BY <1>1, <1>4, <2>1, <2>2, SMTT(20) DEF Places
    <3>2. ASSUME NEW a \in 1 .. Len(u), NEW b \in 1 .. Len(u), a < b
          PROVE  q[a] < q[b]
      <4>1. CASE b \in 1 .. Len(t)
        <5>1. a \in 1 .. Len(t)
          BY <1>2, <3>2, <4>1
        <5> QED
          BY <1>1, <2>2, <3>2, <4>1, <5>1 DEF Places
      <4>2. CASE b = Len(t) + 1
        <5>1. a \in 1 .. Len(t)
          BY <1>2, <2>1, <3>2, <4>2
        <5>2. q[a] \in 1 .. k
          BY <1>1, <2>2, <5>1 DEF Places
        <5> QED
          BY <2>2, <4>2, <5>2
      <4> QED
        BY <2>1, <2>2, <4>1, <4>2
    <3>3. ASSUME NEW j \in 1 .. k + 1, s[j].reply \notin gone
          PROVE  \E a \in 1 .. Len(u) : q[a] = j
      <4>1. CASE j \in 1 .. k
        <5>1. PICK a \in 1 .. Len(t) : p[a] = j
          BY <1>1, <3>3, <4>1 DEF Places
        <5> QED
          BY <2>1, <2>2, <5>1
      <4>2. CASE j = k + 1
        BY <2>1, <2>2, <4>2
      <4> QED
        BY <4>1, <4>2
    <3> QED
      BY <3>1, <3>2, <3>3 DEF Places
  <2> QED
    BY <2>1, <2>3 DEF Filtered
<1> QED
  BY <1>3, <1>4

(* ... so Remaining returns, in order, the events whose reply is not gone. *)
LEMMA RemainingFiltered ==
  ASSUME NEW S, NEW s \in Seq(S), NEW gone
  PROVE  Filtered(S, s, gone, Len(s), Remaining(s, gone))
<1>1. PICK f : Follows(s, gone, Len(s), f) /\ Remaining(s, gone) = f[Len(s)]
  BY RemainingFollows
<1> DEFINE T == {k \in Nat : k <= Len(s) => Filtered(S, s, gone, k, f[k])}
<1>2. 0 \in T
  <2>1. f[0] = << >>
    BY <1>1 DEF Follows, FilterStep
  <2>2. Places(s, gone, 0, << >>, << >>)
    BY DEF Places
  <2>3. Filtered(S, s, gone, 0, f[0])
    BY <2>1, <2>2 DEF Filtered
  <2> QED
    BY <2>3
<1>3. ASSUME NEW k \in T
      PROVE  k + 1 \in T
  <2>1. k \in Nat /\ k + 1 \in Nat
    OBVIOUS
  <2>2. ASSUME k + 1 <= Len(s)
        PROVE  Filtered(S, s, gone, k + 1, f[k + 1])
    <3>1. Filtered(S, s, gone, k, f[k])
      BY <2>1, <2>2
    <3>2. f[k + 1] = IF s[k + 1].reply \in gone THEN f[k]
                     ELSE Append(f[k], s[k + 1])
      <4>1. k + 1 \in 0 .. Len(s) /\ k + 1 # 0 /\ (k + 1) - 1 = k
        BY <2>1, <2>2
      <4>2. f[k + 1] = FilterStep(s, gone, f, k + 1)
        BY <1>1, <4>1 DEF Follows
      <4> QED
        BY <4>1, <4>2 DEF FilterStep
    <3> QED
      BY <2>1, <2>2, <3>1, <3>2, FilteredNext
  <2> QED
    BY <2>1, <2>2
<1> HIDE DEF T
<1>4. T = Nat
  <2>1. T \in SUBSET Nat
    BY DEF T
  <2> QED
    BY <1>2, <1>3, <2>1, SetInduction
<1>5. Len(s) \in T
  BY <1>4
<1> QED
  BY <1>1, <1>5 DEF T

(* The replies of an owner and their events go, all others stay.           *)
LEMMA WithoutOwnerOK ==
  ASSUME NEW n, NetworkOK(n), NEW owner
  PROVE  /\ NetworkOK(WithoutOwner(n, owner))
         /\ Alive(WithoutOwner(n, owner))
              = {r \in Alive(n) : n.reply[r].owner # owner}
         /\ \A r \in Alive(WithoutOwner(n, owner)) :
              /\ WithoutOwner(n, owner).reply[r] = n.reply[r]
              /\ \A k : Queued(WithoutOwner(n, owner), k, r)
                          <=> Queued(n, k, r)
<1> DEFINE m == WithoutOwner(n, owner)
           gone == {r \in Alive(n) : n.reply[r].owner = owner}
<1>1. /\ m.reply = [r \in Alive(n) \ gone |-> n.reply[r]]
      /\ m.events = Remaining(n.events, gone)
  BY DEF WithoutOwner
<1>2. /\ Alive(m) = Alive(n) \ gone
      /\ \A r \in Alive(m) : m.reply[r] = n.reply[r]
  BY <1>1 DEF Alive
<1>3. /\ n.events \in Seq(EventRecords)
      /\ DOMAIN n.events = 1 .. Len(n.events)
      /\ \A i \in DOMAIN n.events : n.events[i].reply \in Alive(n)
      /\ \A i, j \in DOMAIN n.events : n.events[i] = n.events[j] => i = j
      /\ FinishedFirst(n)
  BY DEF NetworkOK, NetworkTypeOK, EventsOK
<1> HIDE DEF m, gone
<1>4. /\ m.events \in Seq(EventRecords)
      /\ \E p : Places(n.events, gone, Len(n.events), m.events, p)
  BY <1>1, <1>3, RemainingFiltered DEF Filtered
<1>5. PICK p : Places(n.events, gone, Len(n.events), m.events, p)
  BY <1>4
<1>6. /\ DOMAIN m.events = 1 .. Len(m.events)
      /\ \A a \in DOMAIN m.events :
           /\ p[a] \in DOMAIN n.events
           /\ m.events[a] = n.events[p[a]]
           /\ n.events[p[a]].reply \notin gone
      /\ \A a, b \in DOMAIN m.events : a < b => p[a] < p[b]
      /\ \A j \in DOMAIN n.events :
           n.events[j].reply \notin gone => \E a \in DOMAIN m.events : p[a] = j
  <2>1. DOMAIN m.events = 1 .. Len(m.events)
    BY <1>4
  <2> QED
    BY <1>3, <1>5, <2>1 DEF Places
<1>7. ASSUME NEW r \in Alive(m), NEW k
      PROVE  Queued(m, k, r) <=> Queued(n, k, r)
  <2> DEFINE e == [kind |-> k, reply |-> r]
  <2>1. e.reply = r /\ r \notin gone
    BY <1>2, <1>7
  <2> HIDE DEF e
  <2>2. ASSUME NEW a \in DOMAIN m.events, m.events[a] = e
        PROVE  \E i \in DOMAIN n.events : n.events[i] = e
    BY <1>6, <2>2
  <2>3. ASSUME NEW i \in DOMAIN n.events, n.events[i] = e
        PROVE  \E a \in DOMAIN m.events : m.events[a] = e
    BY <1>6, <2>1, <2>3
  <2> QED
    BY <2>2, <2>3 DEF Queued, e
<1>8. NetworkTypeOK(m)
  <2>1. IsFiniteSet(Alive(m))
    <3>1. IsFiniteSet(Alive(n))
      BY DEF NetworkOK, NetworkTypeOK
    <3>2. Alive(m) \in SUBSET Alive(n)
      BY <1>2
    <3> QED
      BY <3>1, <3>2, FS_Subset
  <2> QED
    BY <1>2, <1>4, <2>1 DEF NetworkOK, NetworkTypeOK
<1>9. EventsOK(m)
  <2>1. \A a \in DOMAIN m.events : m.events[a].reply \in Alive(m)
    BY <1>2, <1>3, <1>6
  <2>2. \A a, b \in DOMAIN m.events : p[a] = p[b] => a = b
    <3> SUFFICES ASSUME NEW a \in DOMAIN m.events, NEW b \in DOMAIN m.events,
                        a # b
                 PROVE  p[a] # p[b]
      OBVIOUS
    <3>1. /\ a \in Int /\ b \in Int /\ (a < b \/ b < a)
          /\ p[a] \in Int /\ p[b] \in Int
      BY <1>3, <1>6
    <3> QED
      BY <1>6, <3>1
  <2>3. \A a, b \in DOMAIN m.events : m.events[a] = m.events[b] => a = b
    BY <1>3, <1>6, <2>2
  <2>4. FinishedFirst(m)
    <3> SUFFICES ASSUME NEW i \in DOMAIN m.events, NEW j \in DOMAIN m.events,
                        m.events[i].kind = "delete",
                        m.events[j].kind = "finished",
                        m.events[i].reply = m.events[j].reply
                 PROVE  j < i
      BY DEF FinishedFirst
    <3>1. p[j] < p[i]
      <4>1. /\ n.events[p[i]].kind = "delete"
            /\ n.events[p[j]].kind = "finished"
            /\ n.events[p[i]].reply = n.events[p[j]].reply
            /\ p[i] \in DOMAIN n.events /\ p[j] \in DOMAIN n.events
        BY <1>6
      <4> QED
        BY <1>3, <4>1 DEF FinishedFirst
    <3>2. i \in Int /\ j \in Int /\ p[i] \in Int /\ p[j] \in Int
      BY <1>3, <1>6
    <3>3. i < j => p[i] < p[j]
      BY <1>6
    <3> QED
      BY <3>1, <3>2, <3>3
  <2>5. \A r \in Alive(m) : Queued(m, "finished", r) => m.reply[r].finished
    BY <1>2, <1>7 DEF NetworkOK, EventsOK
  <2> QED
    BY <2>1, <2>3, <2>4, <2>5 DEF EventsOK
<1>10. Alive(m) = {r \in Alive(n) : n.reply[r].owner # owner}
  BY <1>2 DEF gone
<1> QED
  BY <1>2, <1>7, <1>8, <1>9, <1>10 DEF NetworkOK, m

-----------------------------------------------------------------------------
(* The replies of one owner                                                *)

(* The reply r of n is in m as it is in n.                                 *)
Same(n, m, r) ==
  /\ r \in Alive(m)
  /\ m.reply[r] = n.reply[r]
  /\ \A k : Queued(m, k, r) <=> Queued(n, k, r)

(* So are all replies of this owner, and it has no others.                 *)
Kept(n, m, owner) ==
  /\ \A r \in Alive(n) : n.reply[r].owner = owner => Same(n, m, r)
  /\ \A r \in Alive(m) :
       m.reply[r].owner = owner => r \in Alive(n) /\ n.reply[r].owner = owner

LEMMA KeptByAll == ASSUME NEW n, NEW owner PROVE Kept(n, n, owner)
BY DEF Kept, Same

LEMMA KeptThrough ==
  ASSUME NEW n, NEW m, NEW l, NEW owner, Kept(n, m, owner), Kept(m, l, owner)
  PROVE  Kept(n, l, owner)
BY DEF Kept, Same

(* What is kept stays open, or held.                                       *)
LEMMA KeptOpen ==
  ASSUME NEW n, NEW m, NEW owner, NEW p, Kept(n, m, owner)
  PROVE  /\ OnlyOpen(n, owner, p) => OnlyOpen(m, owner, p)
         /\ Held(n, owner, p) => Held(m, owner, p)
BY DEF Kept, Same, OnlyOpen, Held, Undelivered

(* The reply that is open is held.                                         *)
LEMMA OpenIsHeld ==
  ASSUME NEW n, NEW owner, NEW p, OnlyOpen(n, owner, p)
  PROVE  Held(n, owner, p)
BY DEF OnlyOpen, Held

(* A post of another owner                                                 *)
LEMMA PostedKeeps ==
  ASSUME NEW n, NetworkOK(n), NEW poster, NEW payload, NEW owner,
         owner # poster
  PROVE  Kept(n, Posted(n, poster, payload), owner)
<1> DEFINE m == Posted(n, poster, payload)
           p == NewReply(n)
<1>1. /\ Alive(m) = Alive(n) \cup {p} /\ p \notin Alive(n)
      /\ \A q \in Alive(n) : m.reply[q] = n.reply[q]
      /\ m.reply[p] = [owner |-> poster, payload |-> payload,
                       finished |-> FALSE, answer |-> NothingRead]
      /\ \A k, q : Queued(m, k, q) <=> Queued(n, k, q)
  BY PostedOK
<1>2. m.reply[p].owner = poster
  BY <1>1
<1> HIDE DEF m, p
<1> QED
  BY <1>1, <1>2 DEF Kept, Same, m

(* An owner without an open reply has one after its post.                  *)
LEMMA PostedOpen ==
  ASSUME NEW n, NetworkOK(n), NEW owner, NEW payload,
         OnlyOpen(n, owner, NoReply)
  PROVE  OnlyOpen(Posted(n, owner, payload), owner, NewReply(n))
<1> DEFINE m == Posted(n, owner, payload)
           p == NewReply(n)
<1>1. /\ Alive(m) = Alive(n) \cup {p} /\ p \notin Alive(n)
      /\ \A q \in Alive(n) : m.reply[q] = n.reply[q]
      /\ m.reply[p] = [owner |-> owner, payload |-> payload,
                       finished |-> FALSE, answer |-> NothingRead]
      /\ \A k, q : Queued(m, k, q) <=> Queued(n, k, q)
      /\ \A k : ~ Queued(m, k, p)
  BY PostedOK
<1>2. m.reply[p].owner = owner /\ m.reply[p].finished = FALSE
  BY <1>1
<1>3. NoReply \notin Alive(n)
  BY DEF NetworkOK, NetworkTypeOK
<1> HIDE DEF m, p
<1> QED
  BY <1>1, <1>2, <1>3 DEF OnlyOpen, Undelivered, m, p

(* A post holds its reply, and leaves the others held.                     *)
LEMMA PostedHeld ==
  ASSUME NEW n, NetworkOK(n), NEW poster, NEW payload
  PROVE  /\ Held(Posted(n, poster, payload), poster, NewReply(n))
         /\ \A owner, p : Held(n, owner, p)
                            => Held(Posted(n, poster, payload), owner, p)
<1> DEFINE m == Posted(n, poster, payload)
           new == NewReply(n)
<1>1. /\ Alive(m) = Alive(n) \cup {new}
      /\ \A q \in Alive(n) : m.reply[q] = n.reply[q]
      /\ m.reply[new] = [owner |-> poster, payload |-> payload,
                         finished |-> FALSE, answer |-> NothingRead]
      /\ \A k, q : Queued(m, k, q) <=> Queued(n, k, q)
      /\ \A k : ~ Queued(m, k, new)
  BY PostedOK
<1>2. m.reply[new].owner = poster
  BY <1>1
<1> HIDE DEF m, new
<1> QED
  BY <1>1, <1>2 DEF Held, m, new

(* deleteLater of another owner's reply                                    *)
LEMMA DeleteLaterKeeps ==
  ASSUME NEW n, NetworkOK(n), NEW r \in Alive(n), NEW owner,
         n.reply[r].owner # owner
  PROVE  Kept(n, DeleteLater(n, r), owner)
<1> DEFINE m == DeleteLater(n, r)
<1>1. /\ m.reply = n.reply
      /\ Alive(m) = Alive(n)
      /\ \A k, q : Queued(m, k, q) <=>
                     Queued(n, k, q) \/ (k = "delete" /\ q = r)
  BY DeleteLaterOK
<1> HIDE DEF m
<1> QED
  BY <1>1 DEF Kept, Same, m

(* The slot that a finished signal runs, and which drops the reply that is *)
(* open: that is the one that emitted the signal, no reply of its owner is *)
(* open after it, and those of others are kept.                            *)
LEMMA SlotReads ==
  ASSUME NEW n, NetworkOK(n), NEW owner, NEW p, OnlyOpen(n, owner, p),
         SlotReady(n, owner)
  PROVE  /\ p # NoReply /\ p \in Alive(n) /\ n.reply[p].owner = owner
         /\ Read(n, p) = n.reply[p].answer
         /\ n.reply[p].finished
         /\ NetworkOK(DeleteLater(Taken(n), p))
         /\ DeleteLater(Taken(n), p).reply = n.reply
         /\ Alive(DeleteLater(Taken(n), p)) = Alive(n)
         /\ OnlyOpen(DeleteLater(Taken(n), p), owner, NoReply)
         /\ \A o : o # owner => Kept(n, DeleteLater(Taken(n), p), o)
<1> DEFINE e == Head(n.events)
           t == Taken(n)
           m == DeleteLater(t, p)
<1>1. /\ n.events # << >>
      /\ e.kind = "finished"
      /\ n.reply[e.reply].owner = owner
  BY DEF SlotReady
<1>2. /\ NetworkOK(t)
      /\ t.reply = n.reply
      /\ Alive(t) = Alive(n)
      /\ e \in EventRecords
      /\ e.reply \in Alive(n)
      /\ Queued(n, e.kind, e.reply)
      /\ \A k, q : Queued(t, k, q) <=>
                     Queued(n, k, q) /\ e # [kind |-> k, reply |-> q]
  BY <1>1, TakenOK
<1>3. e = [kind |-> "finished", reply |-> e.reply]
  BY <1>1, <1>2 DEF EventRecords
<1>4. e.reply = p
  BY <1>1, <1>2 DEF OnlyOpen
<1>5. p # NoReply /\ p \in Alive(n) /\ n.reply[p].owner = owner
  BY <1>1, <1>2, <1>4 DEF NetworkOK, NetworkTypeOK
<1>6. Read(n, p) = n.reply[p].answer
  BY <1>4 DEF Read
<1>7. n.reply[p].finished
  BY <1>1, <1>2, <1>4, <1>5 DEF NetworkOK, EventsOK
<1> HIDE DEF e, t
<1>8. /\ NetworkOK(m)
      /\ m.reply = n.reply
      /\ Alive(m) = Alive(n)
      /\ \A k, q : Queued(m, k, q) <=>
                     Queued(t, k, q) \/ (k = "delete" /\ q = p)
  BY <1>2, <1>5, DeleteLaterOK
<1> HIDE DEF m
<1>9. \A r : /\ Queued(m, "delete", r) <=> Queued(n, "delete", r) \/ r = p
             /\ Queued(m, "finished", r) <=> Queued(n, "finished", r) /\ r # p
  <2> TAKE r
  <2>1. e # [kind |-> "delete", reply |-> r]
    BY <1>1
  <2>2. e = [kind |-> "finished", reply |-> r] <=> r = p
    BY <1>3, <1>4
  <2> QED
    BY <1>2, <1>8, <2>1, <2>2
<1>10. OnlyOpen(m, owner, NoReply)
  <2>1. NoReply \notin Alive(m)
    BY <1>8 DEF NetworkOK, NetworkTypeOK
  <2> QED
    BY <1>8, <1>9, <2>1 DEF OnlyOpen
<1>11. ASSUME NEW o, o # owner
       PROVE  Kept(n, m, o)
  <2>1. ASSUME NEW r \in Alive(n), n.reply[r].owner = o, NEW k
        PROVE  Queued(m, k, r) <=> Queued(n, k, r)
    <3>1. r # p
      BY <1>5, <1>11, <2>1
    <3>2. e # [kind |-> k, reply |-> r]
      BY <1>4, <3>1
    <3> QED
      BY <1>2, <1>8, <3>1, <3>2
  <2> QED
    BY <1>8, <2>1 DEF Kept, Same
<1> QED
  BY <1>5, <1>6, <1>7, <1>8, <1>10, <1>11 DEF m, t

(* The same slot when more than one reply of the owner may be open: it     *)
(* drops the reply p that the owner holds, whoever emitted the signal.     *)
LEMMA SlotDrops ==
  ASSUME NEW n, NetworkOK(n), NEW owner, NEW p, p # NoReply,
         Held(n, owner, p), SlotReady(n, owner)
  PROVE  /\ NetworkOK(DeleteLater(Taken(n), p))
         /\ \A o : o # owner => Kept(n, DeleteLater(Taken(n), p), o)
<1> DEFINE e == Head(n.events)
           t == Taken(n)
           m == DeleteLater(t, p)
<1>1. /\ n.events # << >>
      /\ n.reply[e.reply].owner = owner
      /\ p \in Alive(n) /\ n.reply[p].owner = owner
  BY DEF SlotReady, Held
<1>2. /\ NetworkOK(t)
      /\ t.reply = n.reply
      /\ Alive(t) = Alive(n)
      /\ \A k, q : Queued(t, k, q) <=>
                     Queued(n, k, q) /\ e # [kind |-> k, reply |-> q]
  BY <1>1, TakenOK
<1> HIDE DEF e, t
<1>3. /\ NetworkOK(m)
      /\ m.reply = n.reply
      /\ Alive(m) = Alive(n)
      /\ \A k, q : Queued(m, k, q) <=>
                     Queued(t, k, q) \/ (k = "delete" /\ q = p)
  BY <1>1, <1>2, DeleteLaterOK
<1> HIDE DEF m
<1>4. ASSUME NEW o, o # owner
      PROVE  Kept(n, m, o)
  <2>1. ASSUME NEW r \in Alive(n), n.reply[r].owner = o, NEW k
        PROVE  Queued(m, k, r) <=> Queued(n, k, r)
    <3>1. r # p /\ r # e.reply
      BY <1>1, <1>4, <2>1
    <3>2. e # [kind |-> k, reply |-> r]
      BY <3>1
    <3> QED
      BY <1>2, <1>3, <3>1, <3>2
  <2> QED
    BY <1>3, <2>1 DEF Kept, Same
<1> QED
  BY <1>3, <1>4 DEF m, t

(* The end of an exchange: the reply was the open one of its owner, if it  *)
(* had one, and stays so; the replies of others are kept, and all that was *)
(* held is held.                                                           *)
LEMMA FinishedFrames ==
  ASSUME NEW n, NetworkOK(n), NEW r \in Alive(n), CanFinish(n, r), NEW a
  PROVE  /\ \A o, p : OnlyOpen(n, o, p) => OnlyOpen(Finished(n, r, a), o, p)
         /\ \A o, p : Held(n, o, p) => Held(Finished(n, r, a), o, p)
         /\ \A o : n.reply[r].owner # o => Kept(n, Finished(n, r, a), o)
<1> DEFINE m == Finished(n, r, a)
<1>1. /\ Alive(m) = Alive(n)
      /\ \A q \in Alive(n) : /\ m.reply[q].owner = n.reply[q].owner
                             /\ q # r => m.reply[q] = n.reply[q]
      /\ \A k, q : Queued(m, k, q) <=>
                     Queued(n, k, q) \/ (k = "finished" /\ q = r)
  BY FinishedOK
<1> HIDE DEF m
<1>2. ASSUME NEW o, NEW p, OnlyOpen(n, o, p)
      PROVE  OnlyOpen(m, o, p)
  <2>1. n.reply[r].owner = o => r = p
    BY <1>2 DEF OnlyOpen, CanFinish
  <2> QED
    BY <1>1, <1>2, <2>1 DEF OnlyOpen, Undelivered
<1>3. ASSUME NEW o, NEW p, Held(n, o, p)
      PROVE  Held(m, o, p)
  BY <1>1, <1>3 DEF Held
<1>4. ASSUME NEW o, n.reply[r].owner # o
      PROVE  Kept(n, m, o)
  BY <1>1, <1>4 DEF Kept, Same
<1> QED
  BY <1>2, <1>3, <1>4 DEF m

(* A deferred delete takes nothing that is open or held.                   *)
LEMMA DeletedFrames ==
  ASSUME NEW n, NetworkOK(n), DeleteReady(n)
  PROVE  /\ \A o, p : OnlyOpen(n, o, p) => OnlyOpen(Deleted(n), o, p)
         /\ \A o, p : Held(n, o, p) => Held(Deleted(n), o, p)
<1> DEFINE m == Deleted(n)
           gone == Head(n.events).reply
<1>1. /\ Alive(m) = Alive(n) \ {gone}
      /\ \A q \in Alive(m) : m.reply[q] = n.reply[q]
      /\ \A q \in Alive(m) : \A k : Queued(m, k, q) <=> Queued(n, k, q)
  BY DeletedOK
<1>2. Queued(n, "delete", gone) /\ gone \in Alive(n)
  BY TakenOK DEF DeleteReady
<1> HIDE DEF m, gone
<1>3. ASSUME NEW o, NEW p, OnlyOpen(n, o, p)
      PROVE  OnlyOpen(m, o, p)
  <2>1. n.reply[gone].owner = o => gone # p
    BY <1>2, <1>3 DEF OnlyOpen
  <2> QED
    BY <1>1, <1>3, <2>1 DEF OnlyOpen, Undelivered
<1>4. ASSUME NEW o, NEW p, Held(n, o, p)
      PROVE  Held(m, o, p)
  BY <1>1, <1>2, <1>4 DEF Held
<1> QED
  BY <1>3, <1>4 DEF m

(* The end of an owner keeps the replies of others, and what they hold.    *)
LEMMA WithoutOwnerKeeps ==
  ASSUME NEW n, NetworkOK(n), NEW gone, NEW owner, owner # gone
  PROVE  Kept(n, WithoutOwner(n, gone), owner)
<1> DEFINE m == WithoutOwner(n, gone)
<1>1. /\ Alive(m) = {r \in Alive(n) : n.reply[r].owner # gone}
      /\ \A r \in Alive(m) :
           /\ m.reply[r] = n.reply[r]
           /\ \A k : Queued(m, k, r) <=> Queued(n, k, r)
  BY WithoutOwnerOK
<1> HIDE DEF m
<1> QED
  BY <1>1 DEF Kept, Same, m
=============================================================================
