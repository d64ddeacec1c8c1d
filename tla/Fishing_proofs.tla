--------------------------- MODULE Fishing_proofs ---------------------------
(***************************************************************************)
(* Proofs about Fishing for any chunks, cancel_fishing calls, misfortunes  *)
(* and bound on the orders.                                                *)
(***************************************************************************)
EXTENDS Fishing, Sums, TLAPS

-----------------------------------------------------------------------------
(* The invariants *)

\* The task awaits a request about an order it has, and adjusts live chunks.
TaskInv ==
  /\ pc \notin {"created", "sleeping", "ended"} => cur \in Chunks
  /\ pc = "created" => \A k \in Chunks : sub[k] = NoSub
  /\ pc = "placing" => /\ sub[cur].id = 0
                       /\ sub[cur].status = "PENDING"
                       /\ \A k \in Chunks : k > cur => sub[k] = NoSub
  /\ pc \in {"polling", "withdrawing", "cleaning"} => sub[cur].id # 0
  /\ pc = "polling" => \A k \in todo : sub[k].id # 0
  /\ pc \in {"withdrawing", "replacing"} =>
       /\ cur \notin todo
       /\ \A k \in todo \cup {cur} : ~Terminal(sub[k])

\* A place request is on the wire while the task awaits it; a task that is
\* interrupted leaves it there.
WireInv ==
  /\ pc \in {"placing", "replacing"} => wire # "none"
  /\ wire # "none" => pc \in {"placing", "replacing", "ended"} /\ cur \in Chunks
  /\ wire = "placed" => orders # <<>> /\ orders[Len(orders)].chunk = cur

\* Whoever cancels a campaign does so when its task has nothing left to do but
\* its cleanup.
CallerInv ==
  \A c \in Cancellers :
    /\ caller[c].pc # "idle" => pc \in {"cleaning", "ended"}
    /\ caller[c].pc = "cleaning" => caller[c].cur \in Chunks /\ sub[caller[c].cur].id # 0

TypeInv == TypeOK /\ TaskInv /\ WireInv /\ CallerInv

IsOpen(o) == orders[o].state \in Open
Withdrawing(o) == IsOpen(o) => o \in cancelling

-----------------------------------------------------------------------------
(* The continuations of the task *)

LEMMA ChunksFact == Chunks \subseteq Nat \ {0} /\ 1 \in Chunks /\ IsFiniteSet(Chunks)
<1>1. Chunks = 1..Len(ChunkSizes) /\ Len(ChunkSizes) \in Nat \ {0}
  BY FishingAssumption DEF Chunks
<1>2. IsFiniteSet(1..Len(ChunkSizes))
  BY <1>1, FS_Interval
<1> QED
  BY <1>1, <1>2

LEMMA MinChunk ==
  ASSUME NEW S \in SUBSET Chunks, S # {}
  PROVE  Min(S) \in S /\ \A j \in S : Min(S) <= j
BY ChunksFact, MinOfNats

\* The status FILLED without the whole quantity, and the reason it is given for.
Partly == status = "FILLED" /\ event # "filled"
SomeFilled(s) == \E j \in Chunks : s[j].status = "FILLED"

\* Where the task is suspended next, the sub-orders being s, and which requests
\* it has sent; a cleanup begins after chunk k.
Resumed(s, k) ==
  /\ status' \in {"RUNNING", "FILLED", "CANCELED", "EXHAUSTED"}
  /\ event' \in {"none", "filled", "partial", "nofills"}
  /\ event' = "filled" => event = "filled" \/ Total(s) >= Quantity
  /\ Partly' => Partly \/ SomeFilled(s)
  /\ pc' \in {"sleeping", "polling", "withdrawing", "replacing", "cleaning", "ended"}
  /\ cur' \in Chunks \cup {0} /\ todo' \in SUBSET Chunks
  /\ pc' \notin {"sleeping", "ended"} => cur' \in Chunks
  /\ pc' \in {"polling", "withdrawing", "cleaning"} => s[cur'].id # 0
  /\ pc' = "polling" => \A j \in todo' : s[j].id # 0
  /\ pc' = "replacing" => s[cur'].id = 0
  /\ pc' \in {"withdrawing", "replacing"} =>
       /\ cur' \notin todo'
       /\ \A j \in todo' \cup {cur'} : ~Terminal(s[j])
  /\ pc' \in {"cleaning", "ended"} =>
       \A j \in Chunks : j > k /\ Cancellable(s[j]) => pc' = "cleaning" /\ j >= cur'
  /\ wire' = IF pc' = "replacing" THEN "sent" ELSE "none"
  /\ cancelling' = IF pc' \in {"withdrawing", "cleaning"}
                   THEN cancelling \cup {s[cur'].id} ELSE cancelling

LEMMA CleanupResumes ==
  ASSUME NEW s, NEW k, Cleanup(s, k),
         status' \in {"RUNNING", "FILLED", "CANCELED", "EXHAUSTED"},
         event' \in {"none", "filled", "partial", "nofills"},
         event' = "filled" => event = "filled" \/ Total(s) >= Quantity,
         Partly' => Partly \/ SomeFilled(s)
  PROVE  Resumed(s, k) /\ pc' \in {"cleaning", "ended"}
<1> DEFINE rest == {j \in Subs(s) : j > k /\ Cancellable(s[j])}
<1>1. rest \in SUBSET Chunks /\ \A j \in Chunks : j > k /\ Cancellable(s[j]) => j \in rest
  BY DEF Subs, Cancellable
<1>2. CASE rest = {}
  <2>1. Await("ended", 0, {}) /\ SendNothing
    BY <1>2 DEF Cleanup
  <2> HIDE DEF rest
  <2> QED
    BY <1>1, <1>2, <2>1 DEF Await, SendNothing, Resumed
<1>3. CASE rest # {}
  <2>1. Await("cleaning", Min(rest), {}) /\ SendCancel(s[Min(rest)].id)
    BY <1>3 DEF Cleanup
  <2>2. Min(rest) \in rest /\ \A j \in rest : Min(rest) <= j
    BY <1>1, <1>3, MinChunk
  <2>3. Min(rest) \in Chunks /\ s[Min(rest)].id # 0 /\ Chunks \subseteq Nat
    BY <1>1, <2>2, ChunksFact DEF Cancellable
  <2> HIDE DEF rest
  <2> QED
    BY <1>1, <2>1, <2>2, <2>3 DEF Await, SendCancel, Resumed
<1> QED
  BY <1>2, <1>3

LEMMA StopResumes ==
  ASSUME NEW s, NEW st \in {"FILLED", "CANCELED", "EXHAUSTED"},
         NEW ev \in {"none", "filled", "partial", "nofills"}, Stop(s, st, ev),
         ev = "filled" => Total(s) >= Quantity,
         st = "FILLED" /\ ev # "filled" => SomeFilled(s)
  PROVE  Resumed(s, 0)
<1>1. Cleanup(s, 0) /\ status' = st /\ event' = ev
  BY DEF Stop
<1>2. Partly' => Partly \/ SomeFilled(s)
  BY <1>1 DEF Partly
<1> QED
  BY <1>1, <1>2, CleanupResumes

\* The campaign goes on from status and event as they are.
LEMMA LoopResumes ==
  ASSUME TypeOK, NEW s, Loop(s)
  PROVE  Resumed(s, 0)
<1>1. CASE late
  <2>1. status' = "EXHAUSTED" /\ event' = "none" /\ Cleanup(s, 0)
    BY <1>1 DEF Loop
  <2>2. ~Partly'
    BY <2>1 DEF Partly
  <2> QED
    BY <2>1, <2>2, CleanupResumes
<1>2. CASE ~late
  BY <1>2 DEF Loop, Await, SendNothing, Resumed, TypeOK, Partly
<1> QED
  BY <1>1, <1>2

LEMMA AdjustResumes ==
  ASSUME TypeOK, NEW s, NEW moving \in SUBSET Chunks, \A k \in moving : ~Terminal(s[k]),
         Adjust(s, moving)
  PROVE  Resumed(s, 0)
<1>1. CASE moving = {}
  <2>1. Loop(s)
    BY <1>1 DEF Adjust
  <2> QED
    BY <2>1, LoopResumes
<1>2. CASE moving # {}
  <2>1. PICK k \in moving :
          IF s[k].id # 0
          THEN Await("withdrawing", k, moving \ {k}) /\ SendCancel(s[k].id)
          ELSE Await("replacing", k, moving \ {k}) /\ SendPlace
    BY <1>2 DEF Adjust
  <2>2. UNCHANGED <<status, event>>
    BY <1>2 DEF Adjust
  <2>3. CASE s[k].id # 0
    BY <2>1, <2>2, <2>3 DEF Await, SendCancel, Resumed, TypeOK, Partly
  <2>4. CASE s[k].id = 0
    BY <2>1, <2>2, <2>4 DEF Await, SendPlace, Resumed, TypeOK, Partly
  <2> QED
    BY <2>3, <2>4
<1> QED
  BY <1>1, <1>2

LEMMA EvaluateResumes ==
  ASSUME TypeOK, NEW s, Evaluate(s)
  PROVE  Resumed(s, 0)
<1> DEFINE live == {k \in Subs(s) : ~Terminal(s[k])}
<1>1. live \in SUBSET Chunks
  BY DEF Subs
<1>2. \/ Total(s) >= Quantity /\ Stop(s, "FILLED", "filled")
      \/ SomeFilled(s) /\ Stop(s, "FILLED", "partial")
      \/ Stop(s, "EXHAUSTED", "nofills")
      \/ Stop(s, "EXHAUSTED", "none")
      \/ \E moving \in SUBSET {k \in live : ~s[k].atEnd} : Adjust(s, moving)
  BY <1>1 DEF Evaluate, SomeFilled, Subs
<1>3. ASSUME NEW moving \in SUBSET {k \in live : ~s[k].atEnd}, Adjust(s, moving)
      PROVE  Resumed(s, 0)
  <2>1. moving \in SUBSET Chunks /\ \A k \in moving : ~Terminal(s[k])
    BY <1>1
  <2> QED
    BY <1>3, <2>1, AdjustResumes
<1> QED
  BY <1>2, <1>3, StopResumes

LEMMA PollResumes ==
  ASSUME TypeOK, NEW s, NEW rest \in SUBSET Chunks, \A k \in rest : s[k].id # 0, Poll(s, rest)
  PROVE  Resumed(s, 0)
<1>1. CASE rest = {}
  <2>1. Evaluate(s)
    BY <1>1 DEF Poll
  <2> QED
    BY <2>1, EvaluateResumes
<1>2. CASE rest # {}
  <2>1. /\ Await("polling", Min(rest), rest \ {Min(rest)}) /\ SendNothing
        /\ UNCHANGED <<status, event>>
    BY <1>2 DEF Poll
  <2>2. Min(rest) \in rest
    BY <1>2, MinChunk
  <2> QED
    BY <2>1, <2>2 DEF Await, SendNothing, Resumed, TypeOK, Partly
<1> QED
  BY <1>1, <1>2

\* What an answer to the place request for chunk k makes of the sub-orders.
LEMMA AnswersOf ==
  ASSUME TypeOK, NEW k \in Chunks, NEW ends \in SUBSET BOOLEAN, NEW s \in Answers(k, ends)
  PROVE  /\ s \in [Chunks -> SubOrder(Len(orders))]
         /\ \A j \in Chunks : j # k => s[j] = sub[j]
         /\ s[k].filled = sub[k].filled
         /\ \/ s[k].status = "WORKING" /\ s[k].id = Len(orders) /\ wire = "placed"
            \/ s[k].status = "FAILED" /\ s[k].id = 0 /\ "lostId" \in Faults
            \/ /\ s[k].status = "FAILED" /\ s[k].id = sub[k].id
               /\ wire = "refused" \/ "lostAnswer" \in Faults
<1> DEFINE After(id, st, e) == [sub EXCEPT ![k] = [@ EXCEPT !.id = id, !.status = st, !.atEnd = e]]
<1>1. Len(orders) \in Nat /\ sub \in [Chunks -> SubOrder(Len(orders))]
  BY DEF TypeOK
<1>2. ASSUME NEW id \in 0..Len(orders), NEW st \in {"WORKING", "FAILED"}, NEW e \in BOOLEAN
      PROVE  /\ After(id, st, e) \in [Chunks -> SubOrder(Len(orders))]
             /\ \A j \in Chunks : j # k => After(id, st, e)[j] = sub[j]
             /\ After(id, st, e)[k].filled = sub[k].filled
             /\ After(id, st, e)[k].id = id /\ After(id, st, e)[k].status = st
  BY <1>1 DEF SubOrder, Open
<1>3. \/ \E e \in BOOLEAN : s = After(Len(orders), "WORKING", e) /\ wire = "placed"
      \/ \E e \in BOOLEAN : s = After(0, "FAILED", e) /\ "lostId" \in Faults
      \/ /\ s = After(sub[k].id, "FAILED", sub[k].atEnd)
         /\ wire = "refused" \/ "lostAnswer" \in Faults
  BY DEF Answers
<1>4. Len(orders) \in 0..Len(orders) /\ 0 \in 0..Len(orders)
  BY <1>1
<1>5. sub[k].id \in 0..Len(orders) /\ sub[k].atEnd \in BOOLEAN
  BY <1>1 DEF SubOrder
<1> HIDE DEF After
<1> QED
  BY <1>2, <1>3, <1>4, <1>5

\* A chunk is placed for the first time.
LEMMA PlaceInitialType ==
  ASSUME TypeInv, NEW s \in [Chunks -> SubOrder(Len(orders))], NEW k \in Chunks,
         pc \in {"created", "placing"}, \A j \in Chunks : j >= k => s[j] = NoSub,
         PlaceInitial(s, k), UNCHANGED <<orders, late, caller>>
  PROVE  /\ TypeInv'
         /\ \A j \in Chunks : j # k => sub'[j] = s[j]
         /\ sub'[k].filled = 0 /\ sub'[k].id = 0
<1>1. PICK e \in BOOLEAN : sub' = [s EXCEPT ![k] = [NoSub EXCEPT !.status = "PENDING", !.atEnd = e]]
  BY DEF PlaceInitial
<1>2. /\ pc' = "placing" /\ cur' = k /\ todo' = {} /\ wire' = "sent"
      /\ UNCHANGED <<cancelling, status, event, orders, late, caller>>
  BY DEF PlaceInitial, Await, SendPlace
<1>3. Len(orders) \in Nat
  BY DEF TypeInv, TypeOK
<1> DEFINE new == [NoSub EXCEPT !.status = "PENDING", !.atEnd = e]
<1>4. new.id = 0 /\ new.status = "PENDING" /\ new.filled = 0
  BY DEF NoSub
<1>5. new \in SubOrder(Len(orders))
  <2>1. NoSub \in SubOrder(Len(orders))
    BY <1>3 DEF NoSub, SubOrder
  <2> QED
    BY <2>1 DEF SubOrder
<1> HIDE DEF new
<1>6. sub' \in [Chunks -> SubOrder(Len(orders))]
  BY <1>1, <1>5 DEF new
<1>7. /\ \A j \in Chunks : j # k => sub'[j] = s[j]
      /\ sub'[k].id = 0 /\ sub'[k].status = "PENDING" /\ sub'[k].filled = 0
  BY <1>1, <1>4 DEF new
<1>8. Chunks \subseteq Nat
  BY ChunksFact
<1>9. TypeOK'
  BY <1>2, <1>6 DEF TypeInv, TypeOK
<1>10. TaskInv'
  BY <1>2, <1>7, <1>8 DEF TaskInv
<1>11. WireInv'
  BY <1>2 DEF WireInv
<1>12. CallerInv'
  BY <1>2 DEF TypeInv, CallerInv
<1> QED
  BY <1>7, <1>9, <1>10, <1>11, <1>12 DEF TypeInv

\* The task goes on from sub-orders s to its next suspension.
LEMMA ResumedType ==
  ASSUME TypeInv, NEW s \in [Chunks -> SubOrder(Len(orders))], NEW k, Resumed(s, k),
         sub' = s, UNCHANGED orders,
         \A c \in Cancellers :
           /\ caller'[c].pc # "idle" => pc' \in {"cleaning", "ended"}
           /\ caller'[c].pc = "cleaning" => caller'[c].cur \in Chunks /\ s[caller'[c].cur].id # 0,
         caller' \in [Cancellers -> [pc : {"idle", "waiting", "cleaning", "returned"},
                                     cur : Chunks \cup {0}]],
         UNCHANGED late
  PROVE  TypeInv'
<1>1. Len(orders) \in Nat /\ Chunks \subseteq Nat
  BY ChunksFact DEF TypeInv, TypeOK
<1>2. pc' \in {"withdrawing", "cleaning"} => s[cur'].id \in 1..Len(orders)
  <2> SUFFICES ASSUME pc' \in {"withdrawing", "cleaning"} PROVE s[cur'].id \in 1..Len(orders)
    OBVIOUS
  <2>1. cur' \in Chunks /\ s[cur'].id # 0
    BY DEF Resumed
  <2>2. s[cur'] \in SubOrder(Len(orders))
    BY <2>1
  <2>3. s[cur'].id \in 0..Len(orders)
    BY <2>2 DEF SubOrder
  <2> QED
    BY <1>1, <2>1, <2>3
<1>3. cancelling' \subseteq 1..Len(orders)
  BY <1>2 DEF Resumed, TypeInv, TypeOK
<1>4. TypeOK'
  <2>1. /\ status' \in {"RUNNING", "FILLED", "CANCELED", "EXHAUSTED"}
        /\ event' \in {"none", "filled", "partial", "nofills"}
        /\ pc' \in {"sleeping", "polling", "withdrawing", "replacing", "cleaning", "ended"}
        /\ cur' \in Chunks \cup {0} /\ todo' \subseteq Chunks /\ wire' \in {"none", "sent"}
    BY DEF Resumed
  <2> QED
    BY <1>3, <2>1 DEF TypeInv, TypeOK
<1>5. TaskInv'
  BY DEF TaskInv, Resumed, Terminal
<1>6. WireInv'
  BY DEF WireInv, Resumed
<1>7. CallerInv'
  BY DEF CallerInv
<1> QED
  BY <1>4, <1>5, <1>6, <1>7 DEF TypeInv

\* The sub-orders after get_order has answered, or failed to, for chunk k.
PollAnswers(k) ==
  {[sub EXCEPT ![k].status = orders[sub[k].id].state,
               ![k].filled = orders[sub[k].id].filled], sub}

LEMMA PolledType ==
  ASSUME TypeOK, NEW k \in Chunks, sub[k].id # 0, NEW s \in PollAnswers(k)
  PROVE  /\ s \in [Chunks -> SubOrder(Len(orders))]
         /\ \A j \in Chunks : s[j].id = sub[j].id
         /\ \A j \in Chunks : \/ s[j] = sub[j]
                              \/ /\ j = k
                                 /\ s[j].status = orders[sub[k].id].state
                                 /\ s[j].filled = orders[sub[k].id].filled
<1>1. sub \in [Chunks -> SubOrder(Len(orders))] /\ Len(orders) \in Nat /\ orders \in Seq(Order)
  BY DEF TypeOK
<1>2. sub[k].id \in 1..Len(orders)
  BY <1>1 DEF SubOrder
<1>3. orders[sub[k].id] \in Order
  BY <1>1, <1>2
<1> DEFINE o == orders[sub[k].id]
<1>4. o.filled \in Nat /\ o.state \in Open \cup TerminalStatus
  BY <1>3 DEF Order
<1> HIDE DEF o
<1>5. s \in {[sub EXCEPT ![k].status = o.state, ![k].filled = o.filled], sub}
  BY DEF o, PollAnswers
<1>6. s \in [Chunks -> SubOrder(Len(orders))]
  BY <1>1, <1>4, <1>5 DEF SubOrder
<1>7. \A j \in Chunks : s[j] = sub[j] \/ (j = k /\ s[j].status = o.state /\ s[j].filled = o.filled)
  <2>1. CASE s = sub
    BY <2>1
  <2>2. CASE s = [sub EXCEPT ![k].status = o.state, ![k].filled = o.filled]
    <3>1. s[k].status = o.state /\ s[k].filled = o.filled
      BY <1>1, <2>2 DEF SubOrder
    <3>2. \A j \in Chunks : j # k => s[j] = sub[j]
      BY <1>1, <2>2
    <3> QED
      BY <3>1, <3>2
  <2> QED
    BY <1>5, <2>1, <2>2
<1>8. \A j \in Chunks : s[j].id = sub[j].id
  BY <1>1, <1>5 DEF SubOrder
<1> QED
  BY <1>6, <1>7, <1>8 DEF o

\* The sub-orders after the order of chunk k counts as canceled.
Canceled(k) == [sub EXCEPT ![k].status = "CANCELED"]

LEMMA CanceledType ==
  ASSUME TypeOK, NEW k \in Chunks
  PROVE  /\ Canceled(k) \in [Chunks -> SubOrder(Len(orders))]
         /\ \A j \in Chunks : Canceled(k)[j].id = sub[j].id /\ Canceled(k)[j].filled = sub[j].filled
         /\ \A j \in Chunks : j # k => Canceled(k)[j] = sub[j]
         /\ Canceled(k)[k].status = "CANCELED"
<1>1. sub \in [Chunks -> SubOrder(Len(orders))]
  BY DEF TypeOK
<1> QED
  BY <1>1 DEF Canceled, SubOrder, TerminalStatus

\* Counting an order as canceled counts no chunk as filled.
LEMMA CanceledWhole ==
  ASSUME TypeInv, NEW k \in Chunks, SomeFilled(Canceled(k))
  PROVE  SomeFilled(sub)
<1>1. sub \in [Chunks -> SubOrder(Len(orders))]
  BY DEF TypeInv, TypeOK
<1> QED
  BY <1>1 DEF SomeFilled, Canceled

\* While the task neither cleans up nor has ended nobody has cancelled it.
LEMMA NobodyCancels ==
  ASSUME TypeInv, pc \notin {"cleaning", "ended"}, UNCHANGED caller
  PROVE  \A c \in Cancellers : caller'[c].pc = "idle"
BY DEF TypeInv, CallerInv

-----------------------------------------------------------------------------
(* The steps of the task *)

\* The place request for chunk cur is answered, and the sub-orders are s.
Answered(s) ==
  /\ pc \in {"placing", "replacing"} /\ cur \in Chunks
  /\ s \in [Chunks -> SubOrder(Len(orders))]
  /\ \A j \in Chunks : j # cur => s[j] = sub[j]
  /\ s[cur].filled = sub[cur].filled
  /\ \/ s[cur].status = "WORKING" /\ s[cur].id = Len(orders) /\ wire = "placed"
     \/ s[cur].status = "FAILED" /\ s[cur].id = 0 /\ "lostId" \in Faults
     \/ /\ s[cur].status = "FAILED" /\ s[cur].id = sub[cur].id
        /\ wire = "refused" \/ "lostAnswer" \in Faults

\* The next chunk is placed for the first time.
PlacesNext(s) ==
  /\ pc = "placing" /\ cur + 1 \in Chunks
  /\ \A j \in Chunks : j >= cur + 1 => s[j] = NoSub
  /\ PlaceInitial(s, cur + 1)

LEMMA InitialAnsweredDoes ==
  ASSUME TypeInv, InitialAnswered
  PROVE  \E s : /\ Answered(s) /\ UNCHANGED <<orders, late, caller>>
                /\ PlacesNext(s) \/ (sub' = s /\ Resumed(s, 0))
<1>1. pc = "placing" /\ cur \in Chunks /\ UNCHANGED <<orders, late, caller>>
  BY DEF InitialAnswered, TypeInv, TaskInv
<1>2. PICK s \in Answers(cur, {sub[cur].atEnd}) :
        IF cur + 1 \in Chunks THEN PlaceInitial(s, cur + 1) ELSE sub' = s /\ Loop(s)
  BY DEF InitialAnswered
<1>3. {sub[cur].atEnd} \in SUBSET BOOLEAN
  BY <1>1 DEF SubOrder, TypeInv, TypeOK
<1>4. Answered(s)
  BY <1>1, <1>2, <1>3, AnswersOf DEF Answered, TypeInv
<1>5. CASE cur + 1 \in Chunks
  <2>1. \A j \in Chunks : j >= cur + 1 => s[j] = NoSub
    BY <1>1, <1>4, ChunksFact DEF TypeInv, TaskInv, Answered
  <2> QED
    BY <1>1, <1>2, <1>4, <1>5, <2>1 DEF PlacesNext
<1>6. CASE cur + 1 \notin Chunks
  BY <1>1, <1>2, <1>4, <1>6, LoopResumes DEF TypeInv
<1> QED
  BY <1>5, <1>6

LEMMA WakeDoes ==
  ASSUME TypeInv, Wake
  PROVE  pc = "sleeping" /\ sub' = sub /\ Resumed(sub, 0) /\ UNCHANGED <<orders, late, caller>>
<1> DEFINE rest == {k \in Subs(sub) : ~Terminal(sub[k]) /\ sub[k].id # 0}
<1>1. pc = "sleeping" /\ sub' = sub /\ Poll(sub, rest) /\ UNCHANGED <<orders, late, caller>>
  BY DEF Wake
<1>2. rest \in SUBSET Chunks /\ \A k \in rest : sub[k].id # 0
  BY DEF Subs
<1> HIDE DEF rest
<1> QED
  BY <1>1, <1>2, PollResumes DEF TypeInv

LEMMA PolledDoes ==
  ASSUME TypeInv, Polled
  PROVE  /\ pc = "polling" /\ cur \in Chunks /\ sub[cur].id # 0 /\ UNCHANGED <<orders, late, caller>>
         /\ \E s \in PollAnswers(cur) : sub' = s /\ Resumed(s, 0)
<1>1. pc = "polling" /\ cur \in Chunks /\ UNCHANGED <<orders, late, caller>> /\ sub[cur].id # 0
  BY DEF Polled, TypeInv, TaskInv
<1>2. PICK s \in PollAnswers(cur) : sub' = s /\ Poll(s, todo)
  BY DEF Polled, PollAnswers
<1>3. \A j \in Chunks : s[j].id = sub[j].id
  BY <1>1, PolledType DEF TypeInv
<1>4. todo \in SUBSET Chunks /\ \A k \in todo : s[k].id # 0
  BY <1>1, <1>3 DEF TypeInv, TaskInv, TypeOK
<1> QED
  BY <1>1, <1>2, <1>4, PollResumes DEF TypeInv

LEMMA ReplacedDoes ==
  ASSUME TypeInv, Replaced
  PROVE  /\ pc = "replacing" /\ UNCHANGED <<orders, late, caller>>
         /\ \E s : Answered(s) /\ sub' = s /\ Resumed(s, 0)
<1>1. /\ pc = "replacing" /\ cur \in Chunks /\ UNCHANGED <<orders, late, caller>>
      /\ cur \notin todo /\ todo \in SUBSET Chunks /\ \A k \in todo : ~Terminal(sub[k])
  BY DEF Replaced, TypeInv, TaskInv, TypeOK
<1>2. PICK s \in Answers(cur, BOOLEAN) : sub' = s /\ Adjust(s, todo)
  BY DEF Replaced
<1>3. Answered(s)
  BY <1>1, <1>2, AnswersOf DEF Answered, TypeInv
<1>4. \A k \in todo : ~Terminal(s[k])
  BY <1>1, <1>3 DEF Answered
<1> QED
  BY <1>1, <1>2, <1>3, <1>4, AdjustResumes DEF TypeInv

LEMMA CleanedDoes ==
  ASSUME TypeInv, Cleaned
  PROVE  /\ UNCHANGED <<orders, late, caller>> /\ pc = "cleaning"
         /\ pc' \in {"cleaning", "ended"} /\ cur \in Chunks /\ CancelAnswered(sub[cur].id)
         /\ sub' = Canceled(cur) /\ Resumed(Canceled(cur), cur)
<1>1. /\ pc = "cleaning" /\ cur \in Chunks /\ sub' = Canceled(cur) /\ Cleanup(Canceled(cur), cur)
      /\ CancelAnswered(sub[cur].id) /\ UNCHANGED <<orders, status, event, late, caller>>
  BY DEF Cleaned, TypeInv, TaskInv, Canceled
<1>2. Partly' => Partly
  BY <1>1 DEF Partly
<1> QED
  BY <1>1, <1>2, CleanupResumes DEF TypeInv, TypeOK

-----------------------------------------------------------------------------
(* Type correctness *)

LEMMA TypeInit == Init => TypeInv
<1> SUFFICES ASSUME Init PROVE TypeInv
  OBVIOUS
<1>1. NoSub \in SubOrder(0)
  BY DEF NoSub, SubOrder
<1>2. orders = <<>> /\ Len(orders) = 0 /\ orders \in Seq(Order)
  BY DEF Init
<1>3. TypeOK
  <2>1. sub \in [Chunks -> SubOrder(0)]
    BY <1>1 DEF Init
  <2>2. caller \in [Cancellers -> [pc : {"idle", "waiting", "cleaning", "returned"},
                                   cur : Chunks \cup {0}]]
    BY DEF Init
  <2>3. 0 <= MaxOrders
    BY FishingAssumption
  <2> QED
    BY <1>2, <2>1, <2>2, <2>3 DEF Init, TypeOK
<1>4. TaskInv /\ WireInv /\ CallerInv
  BY DEF Init, TaskInv, WireInv, CallerInv
<1> QED
  BY <1>3, <1>4 DEF TypeInv

LEMMA TaskStepType == ASSUME TypeInv, TaskStep PROVE TypeInv'
<1>0. /\ sub \in [Chunks -> SubOrder(Len(orders))] /\ 1 \in Chunks
      /\ caller \in [Cancellers -> [pc : {"idle", "waiting", "cleaning", "returned"},
                                    cur : Chunks \cup {0}]]
  BY ChunksFact DEF TypeInv, TypeOK
<1>1. CASE TaskStarts
  <2>1. \A j \in Chunks : j >= 1 => sub[j] = NoSub
    BY <1>1 DEF TaskStarts, TypeInv, TaskInv
  <2>2. pc = "created" /\ PlaceInitial(sub, 1) /\ UNCHANGED <<orders, late, caller>>
    BY <1>1 DEF TaskStarts
  <2> QED
    BY <1>0, <2>1, <2>2, PlaceInitialType
<1>2. CASE InitialAnswered
  <2>1. PICK s : /\ Answered(s) /\ UNCHANGED <<orders, late, caller>>
                 /\ PlacesNext(s) \/ (sub' = s /\ Resumed(s, 0))
    BY <1>2, InitialAnsweredDoes
  <2>2. s \in [Chunks -> SubOrder(Len(orders))] /\ pc \in {"placing", "replacing"}
    BY <2>1 DEF Answered
  <2>3. CASE PlacesNext(s)
    BY <2>1, <2>2, <2>3, PlaceInitialType DEF PlacesNext
  <2>4. CASE sub' = s /\ Resumed(s, 0)
    BY <1>0, <2>1, <2>2, <2>4, NobodyCancels, ResumedType
  <2> QED
    BY <2>1, <2>3, <2>4
<1>3. CASE Wake
  <2>1. pc = "sleeping" /\ sub' = sub /\ Resumed(sub, 0) /\ UNCHANGED <<orders, late, caller>>
    BY <1>3, WakeDoes
  <2> QED
    BY <1>0, <2>1, NobodyCancels, ResumedType
<1>4. CASE Polled
  <2>1. pc = "polling" /\ cur \in Chunks /\ sub[cur].id # 0 /\ UNCHANGED <<orders, late, caller>>
    BY <1>4, PolledDoes
  <2>2. PICK s \in PollAnswers(cur) : sub' = s /\ Resumed(s, 0)
    BY <1>4, PolledDoes
  <2>3. s \in [Chunks -> SubOrder(Len(orders))]
    BY <2>1, PolledType DEF TypeInv
  <2> QED
    BY <1>0, <2>1, <2>2, <2>3, NobodyCancels, ResumedType
<1>5. CASE Withdrawn
  <2>1. /\ pc = "withdrawing" /\ pc' = "replacing" /\ cur' = cur /\ todo' = todo /\ wire' = "sent"
        /\ UNCHANGED <<cancelling, orders, sub, status, event, late, caller>>
    BY <1>5 DEF Withdrawn, Await, SendPlace
  <2>2. cur \in Chunks /\ cur \notin todo /\ \A k \in todo \cup {cur} : ~Terminal(sub[k])
    BY <2>1 DEF TypeInv, TaskInv
  <2>3. TypeOK' /\ WireInv'
    BY <2>1, <2>2 DEF TypeInv, TypeOK, WireInv
  <2>4. TaskInv'
    BY <2>1, <2>2 DEF TaskInv, Terminal
  <2>5. CallerInv'
    BY <2>1 DEF TypeInv, CallerInv
  <2> QED
    BY <2>3, <2>4, <2>5 DEF TypeInv
<1>6. CASE Replaced
  <2>1. PICK s : Answered(s) /\ sub' = s /\ Resumed(s, 0) /\ UNCHANGED <<orders, late, caller>>
    BY <1>6, ReplacedDoes
  <2>2. s \in [Chunks -> SubOrder(Len(orders))] /\ pc \in {"placing", "replacing"}
    BY <2>1 DEF Answered
  <2> QED
    BY <1>0, <2>1, <2>2, NobodyCancels, ResumedType
<1>7. CASE Cleaned
  <2>1. /\ UNCHANGED <<orders, late, caller>> /\ pc = "cleaning"
        /\ pc' \in {"cleaning", "ended"} /\ cur \in Chunks
        /\ sub' = Canceled(cur) /\ Resumed(Canceled(cur), cur)
    BY <1>7, CleanedDoes
  <2>2. /\ Canceled(cur) \in [Chunks -> SubOrder(Len(orders))]
        /\ \A j \in Chunks : Canceled(cur)[j].id = sub[j].id
    BY <2>1, CanceledType DEF TypeInv
  <2>3. \A c \in Cancellers : caller'[c].pc = "cleaning" =>
          caller'[c].cur \in Chunks /\ Canceled(cur)[caller'[c].cur].id # 0
    BY <2>1, <2>2 DEF TypeInv, CallerInv
  <2> QED
    BY <1>0, <2>1, <2>2, <2>3, ResumedType
<1> QED
  BY <1>1, <1>2, <1>3, <1>4, <1>5, <1>6, <1>7 DEF TaskStep

\* What a pass over the sub-orders after chunk k does.
LEMMA DefendDoes ==
  ASSUME TypeOK, NEW c \in Cancellers, NEW s \in [Chunks -> SubOrder(Len(orders))], NEW k, Defend(c, s, k)
  PROVE  /\ \A d \in Cancellers : d # c => caller'[d] = caller[d]
         /\ caller' \in [Cancellers -> [pc : {"idle", "waiting", "cleaning", "returned"},
                                        cur : Chunks \cup {0}]]
         /\ status' \in {status, "CANCELED"} /\ event' \in {event, "none"}
         /\ status' # "CANCELED" => event' = event
         /\ \A j \in Chunks : j > k /\ Cancellable(s[j]) =>
              caller'[c].pc = "cleaning" /\ j >= caller'[c].cur
         /\ \/ /\ caller'[c].pc = "cleaning" /\ caller'[c].cur \in Chunks
               /\ Cancellable(s[caller'[c].cur])
               /\ s[caller'[c].cur].id \in 1..Len(orders)
               /\ cancelling' = cancelling \cup {s[caller'[c].cur].id}
            \/ caller'[c].pc = "returned" /\ cancelling' = cancelling
<1> DEFINE rest == {j \in Subs(s) : j > k /\ Cancellable(s[j])}
<1>0. \A j \in Chunks : j > k /\ Cancellable(s[j]) => j \in rest
  BY DEF Subs, Cancellable
<1>1. caller \in [Cancellers -> [pc : {"idle", "waiting", "cleaning", "returned"},
                                cur : Chunks \cup {0}]]
  BY DEF TypeOK
<1>2. CASE rest # {}
  <2>1. /\ caller' = [caller EXCEPT ![c] = [pc |-> "cleaning", cur |-> Min(rest)]]
        /\ cancelling' = cancelling \cup {s[Min(rest)].id}
        /\ UNCHANGED <<status, event>>
    BY <1>2 DEF Defend
  <2>2. rest \in SUBSET Chunks
    BY DEF Subs
  <2>3. Min(rest) \in rest /\ \A j \in rest : Min(rest) <= j
    BY <1>2, <2>2, MinChunk
  <2>4. Min(rest) \in Chunks /\ Cancellable(s[Min(rest)])
    BY <2>2, <2>3
  <2>5. s[Min(rest)] \in SubOrder(Len(orders)) /\ s[Min(rest)].id # 0 /\ Len(orders) \in Nat
    BY <2>4 DEF Cancellable, TypeOK
  <2>6. s[Min(rest)].id \in 1..Len(orders)
    BY <2>5 DEF SubOrder
  <2>7. \A j \in Chunks : j > k /\ Cancellable(s[j]) => j >= Min(rest)
    BY <2>2, <2>3, <1>0, ChunksFact
  <2> HIDE DEF rest
  <2> QED
    BY <1>1, <2>1, <2>4, <2>6, <2>7
<1>3. CASE rest = {}
  <2>1. /\ caller' = [caller EXCEPT ![c] = [pc |-> "returned", cur |-> 0]]
        /\ status' \in {status, "CANCELED"} /\ event' \in {event, "none"}
        /\ status' # "CANCELED" => event' = event
        /\ cancelling' = cancelling
    BY <1>3 DEF Defend
  <2>2. \A j \in Chunks : ~(j > k /\ Cancellable(s[j]))
    BY <1>0, <1>3
  <2> HIDE DEF rest
  <2> QED
    BY <1>1, <2>1, <2>2
<1> QED
  BY <1>2, <1>3

LEMMA DefendType ==
  ASSUME TypeInv, NEW c \in Cancellers, caller[c].pc # "idle",
         NEW s \in [Chunks -> SubOrder(Len(orders))], \A j \in Chunks : s[j].id = sub[j].id,
         NEW k, Defend(c, s, k), sub' = s, UNCHANGED <<orders, pc, cur, todo, wire, late>>
  PROVE  TypeInv'
<1>1. /\ \A d \in Cancellers : d # c => caller'[d] = caller[d]
      /\ caller' \in [Cancellers -> [pc : {"idle", "waiting", "cleaning", "returned"},
                                     cur : Chunks \cup {0}]]
      /\ status' \in {status, "CANCELED"} /\ event' \in {event, "none"}
      /\ cancelling' \subseteq cancelling \cup 1..Len(orders)
      /\ caller'[c].pc = "cleaning" => caller'[c].cur \in Chunks /\ s[caller'[c].cur].id # 0
  <2>1. TypeOK
    BY DEF TypeInv
  <2> QED
    BY <2>1, DefendDoes DEF Cancellable
<1>2. pc \in {"cleaning", "ended"}
  BY DEF TypeInv, CallerInv
<1>3. TypeOK'
  BY <1>1 DEF TypeInv, TypeOK
<1>4. TaskInv'
  BY <1>2 DEF TypeInv, TaskInv
<1>5. WireInv'
  BY DEF TypeInv, WireInv
<1>6. CallerInv'
  BY <1>1, <1>2 DEF TypeInv, CallerInv
<1> QED
  BY <1>3, <1>4, <1>5, <1>6 DEF TypeInv

\* task.cancel() lets a sleeping task clean up and ends any other.
LEMMA InterruptDoes ==
  ASSUME TypeInv, NEW c \in Cancellers, CancelFishing(c)
  PROVE  /\ UNCHANGED <<orders, sub, late>>
         /\ pc' \in {"cleaning", "ended"}
         /\ \/ Resumed(sub, 0) /\ pc = "sleeping"
            \/ /\ pc' = "ended" /\ cur' = cur /\ todo' = {} /\ pc # "sleeping"
               /\ pc \in {"created", "ended"} \/ "interrupt" \in Faults
               /\ UNCHANGED <<status, event, wire, cancelling>>
         /\ caller' \in [Cancellers -> [pc : {"idle", "waiting", "cleaning", "returned"},
                                        cur : Chunks \cup {0}]]
         /\ \A d \in Cancellers : caller'[d].pc = "cleaning" => caller'[d] = caller[d]
<1>1. UNCHANGED <<orders, sub, late>> /\ caller' = [caller EXCEPT ![c].pc = "waiting"] /\ Interrupt
  BY DEF CancelFishing
<1>2. CASE pc = "sleeping"
  <2>1. status' = "CANCELED" /\ event' = "none" /\ Cleanup(sub, 0)
    BY <1>1, <1>2 DEF Interrupt
  <2>2. ~Partly'
    BY <2>1 DEF Partly
  <2>3. Resumed(sub, 0) /\ pc' \in {"cleaning", "ended"}
    BY <2>1, <2>2, CleanupResumes
  <2> QED
    BY <1>1, <1>2, <2>3 DEF TypeInv, TypeOK
<1>3. CASE pc # "sleeping"
  BY <1>1, <1>3 DEF Interrupt, Await, TypeInv, TypeOK
<1> QED
  BY <1>2, <1>3

LEMMA CancelStepType ==
  ASSUME TypeInv, NEW c \in Cancellers, CancelFishing(c) \/ GraceEnds(c) \/ Defended(c)
  PROVE  TypeInv'
<1>0. sub \in [Chunks -> SubOrder(Len(orders))]
  BY DEF TypeInv, TypeOK
<1>1. CASE CancelFishing(c)
  <2>1. \A d \in Cancellers :
          caller'[d].pc = "cleaning" => caller'[d].cur \in Chunks /\ sub[caller'[d].cur].id # 0
    BY <1>1, InterruptDoes DEF TypeInv, CallerInv
  <2>2. CASE Resumed(sub, 0)
    BY <1>0, <1>1, <2>1, <2>2, InterruptDoes, ResumedType
  <2>3. CASE /\ pc' = "ended" /\ cur' = cur /\ todo' = {}
             /\ UNCHANGED <<status, event, wire, cancelling>>
    <3>1. TypeOK'
      BY <1>1, <2>3, InterruptDoes DEF TypeInv, TypeOK
    <3>2. TaskInv'
      BY <2>3 DEF TaskInv
    <3>3. WireInv'
      BY <1>1, <2>3, InterruptDoes DEF TypeInv, WireInv
    <3>4. CallerInv'
      BY <1>1, <2>1, <2>3, InterruptDoes DEF CallerInv
    <3> QED
      BY <3>1, <3>2, <3>3, <3>4 DEF TypeInv
  <2> QED
    BY <1>1, <2>2, <2>3, InterruptDoes
<1>2. CASE GraceEnds(c)
  <2>1. /\ caller[c].pc # "idle" /\ Defend(c, sub, 0)
        /\ UNCHANGED <<orders, sub, pc, cur, todo, wire, late>>
    BY <1>2 DEF GraceEnds
  <2> QED
    BY <1>0, <2>1, DefendType
<1>3. CASE Defended(c)
  <2> DEFINE k == caller[c].cur
             s == Canceled(k)
  <2>1. /\ caller[c].pc # "idle" /\ sub' = s /\ Defend(c, s, k) /\ k \in Chunks
        /\ UNCHANGED <<orders, pc, cur, todo, wire, late>>
    BY <1>3 DEF Defended, Canceled, TypeInv, CallerInv
  <2>2. s \in [Chunks -> SubOrder(Len(orders))] /\ \A j \in Chunks : s[j].id = sub[j].id
    BY <2>1, CanceledType DEF TypeInv
  <2> HIDE DEF s, k
  <2> QED
    BY <2>1, <2>2, DefendType
<1> QED
  BY <1>1, <1>2, <1>3

\* What the broker does to an order.
LEMMA BrokerDoes ==
  ASSUME TypeOK, NEW o \in DOMAIN orders,
         BrokerCancels(o) \/ Opens(o) \/ Fills(o) \/ Expires(o)
  PROVE  /\ UNCHANGED <<sub, task, wire, late, caller>>
         /\ orders' \in Seq(Order) /\ Len(orders') = Len(orders)
         /\ \A p \in DOMAIN orders :
              /\ p # o => orders'[p] = orders[p]
              /\ orders'[p].chunk = orders[p].chunk
              /\ orders'[p].filled >= orders[p].filled
              /\ IsOpen(p)' => IsOpen(p)
              /\ orders[p].state = "FILLED" => orders'[p].state = "FILLED"
         /\ cancelling' \subseteq cancelling
         /\ "lostCancel" \notin Faults => \A p \in DOMAIN orders : Withdrawing(p) => Withdrawing(p)'
<1>1. orders \in Seq(Order) /\ orders[o] \in Order
  BY DEF TypeOK
<1>2. orders[o].filled \in Nat /\ orders[o].filled + 1 \in Nat
  BY <1>1 DEF Order
<1>3. ASSUME NEW r \in Order, orders' = [orders EXCEPT ![o] = r],
             r.chunk = orders[o].chunk, r.filled \in {orders[o].filled, orders[o].filled + 1},
             r.state \in Open => orders[o].state \in Open,
             orders[o].state = "FILLED" => r.state = "FILLED"
      PROVE  /\ orders' \in Seq(Order) /\ Len(orders') = Len(orders)
             /\ \A p \in DOMAIN orders :
                  /\ p # o => orders'[p] = orders[p]
                  /\ orders'[p].chunk = orders[p].chunk
                  /\ orders'[p].filled >= orders[p].filled
                  /\ IsOpen(p)' => IsOpen(p)
                  /\ orders[p].state = "FILLED" => orders'[p].state = "FILLED"
  <2>1. orders' \in Seq(Order) /\ Len(orders') = Len(orders) /\ orders'[o] = r
    BY <1>1, <1>3
  <2>2. ASSUME NEW p \in DOMAIN orders
        PROVE  /\ p # o => orders'[p] = orders[p]
               /\ orders'[p].chunk = orders[p].chunk
               /\ orders'[p].filled >= orders[p].filled
               /\ IsOpen(p)' => IsOpen(p)
               /\ orders[p].state = "FILLED" => orders'[p].state = "FILLED"
    <3>1. orders[p].filled \in Nat
      <4>1. orders[p] \in Order
        BY <1>1
      <4> QED
        BY <4>1 DEF Order
    <3>2. CASE p = o
      BY <1>2, <1>3, <2>1, <3>2 DEF IsOpen
    <3>3. CASE p # o
      BY <1>3, <3>1, <3>3 DEF IsOpen
    <3> QED
      BY <3>2, <3>3
  <2> QED
    BY <2>1, <2>2
<1>4. CASE BrokerCancels(o)
  <2>1. UNCHANGED <<sub, task, wire, late, caller>> /\ cancelling' = cancelling \ {o}
    BY <1>4 DEF BrokerCancels
  <2>2. CASE orders' = [orders EXCEPT ![o].state = IF @ \in Open THEN "CANCELED" ELSE @]
    <3> DEFINE r == [orders[o] EXCEPT !.state = IF @ \in Open THEN "CANCELED" ELSE @]
    <3>1. orders' = [orders EXCEPT ![o] = r]
      BY <1>1, <2>2
    <3>2. /\ r \in Order /\ r.chunk = orders[o].chunk /\ r.filled = orders[o].filled
          /\ r.state \notin Open
      BY <1>1 DEF Order, Open, TerminalStatus
    <3>3. orders[o].state = "FILLED" => r.state = "FILLED"
      BY <1>1 DEF Order, Open
    <3> HIDE DEF r
    <3>4. orders'[o] = r
      BY <1>1, <3>1
    <3>5. ~IsOpen(o)'
      BY <3>2, <3>4 DEF IsOpen
    <3>6. \A p \in DOMAIN orders : Withdrawing(p) => Withdrawing(p)'
      <4>1. \A p \in DOMAIN orders : IsOpen(p)' => IsOpen(p)
        BY <1>3, <3>1, <3>2, <3>3
      <4> QED
        BY <2>1, <3>5, <4>1 DEF Withdrawing
    <3> QED
      BY <1>3, <2>1, <3>1, <3>2, <3>3, <3>6
  <2>3. CASE "lostCancel" \in Faults /\ orders' = orders
    <3>1. \A p \in DOMAIN orders : orders[p].filled \in Nat
      <4>1. \A p \in DOMAIN orders : orders[p] \in Order
        BY <1>1
      <4> QED
        BY <4>1 DEF Order
    <3> QED
      BY <1>1, <2>1, <2>3, <3>1 DEF IsOpen
  <2> QED
    BY <1>4, <2>2, <2>3 DEF BrokerCancels
<1>5. CASE Opens(o) \/ Fills(o) \/ Expires(o)
  <2>1. UNCHANGED <<sub, task, wire, cancelling, late, caller>>
    BY <1>5 DEF Opens, Fills, Expires
  <2>2. \E r \in Order :
          /\ orders' = [orders EXCEPT ![o] = r]
          /\ r.chunk = orders[o].chunk /\ r.filled \in {orders[o].filled, orders[o].filled + 1}
          /\ r.state \in Open => orders[o].state \in Open
          /\ orders[o].state # "FILLED"
    <3>1. CASE Opens(o)
      <4> DEFINE r == [orders[o] EXCEPT !.state = "WORKING"]
      <4>1. orders' = [orders EXCEPT ![o] = r] /\ orders[o].state = "QUEUED"
        BY <1>1, <3>1 DEF Opens
      <4>2. /\ r \in Order /\ r.chunk = orders[o].chunk /\ r.filled = orders[o].filled
            /\ r.state = "WORKING"
        BY <1>1 DEF Order, Open
      <4> HIDE DEF r
      <4> QED
        BY <4>1, <4>2 DEF Open
    <3>2. CASE Fills(o)
      <4> DEFINE st == IF orders[o].filled + 1 = ChunkSizes[orders[o].chunk]
                       THEN "FILLED" ELSE orders[o].state
                 r == [orders[o] EXCEPT !.filled = orders[o].filled + 1, !.state = st]
      <4>1. orders' = [orders EXCEPT ![o] = r] /\ orders[o].state = "WORKING"
        BY <1>1, <3>2 DEF Fills
      <4>2. st \in {"FILLED", "WORKING"}
        BY <4>1
      <4> HIDE DEF st
      <4>3. /\ r \in Order /\ r.chunk = orders[o].chunk /\ r.filled = orders[o].filled + 1
            /\ r.state = st
        BY <1>1, <1>2, <4>2 DEF Order, Open, TerminalStatus
      <4> HIDE DEF r
      <4> QED
        BY <4>1, <4>2, <4>3 DEF Open
    <3>3. CASE Expires(o)
      <4> DEFINE r == [orders[o] EXCEPT !.state = "EXPIRED"]
      <4>1. orders' = [orders EXCEPT ![o] = r] /\ orders[o].state \in Open
        BY <1>1, <3>3 DEF Expires
      <4>2. /\ r \in Order /\ r.chunk = orders[o].chunk /\ r.filled = orders[o].filled
            /\ r.state = "EXPIRED"
        BY <1>1 DEF Order, TerminalStatus
      <4> HIDE DEF r
      <4> QED
        BY <4>1, <4>2 DEF Open
    <3> QED
      BY <1>5, <3>1, <3>2, <3>3
  <2> QED
    BY <1>3, <2>1, <2>2 DEF Withdrawing
<1> QED
  BY <1>4, <1>5

LEMMA PlacesDoes ==
  ASSUME TypeInv, BrokerPlaces
  PROVE  /\ UNCHANGED <<sub, task, cancelling, late, caller>>
         /\ wire = "sent" /\ wire' = "placed" /\ cur \in Chunks
         /\ orders' \in Seq(Order) /\ Len(orders') = Len(orders) + 1 /\ Len(orders') <= MaxOrders
         /\ \A p \in DOMAIN orders : orders'[p] = orders[p]
         /\ orders'[Len(orders')].chunk = cur /\ orders'[Len(orders')].filled = 0
         /\ \/ orders'[Len(orders')].state = "WORKING"
            \/ "queued" \in Faults
<1>1. PICK st \in {"WORKING"} \cup (IF "queued" \in Faults THEN {"QUEUED"} ELSE {}) :
        orders' = Append(orders, [chunk |-> cur, filled |-> 0, state |-> st])
  BY DEF BrokerPlaces
<1>2. /\ UNCHANGED <<sub, task, cancelling, late, caller>>
      /\ wire = "sent" /\ wire' = "placed" /\ Len(orders) < MaxOrders
  BY DEF BrokerPlaces
<1>3. cur \in Chunks /\ orders \in Seq(Order) /\ MaxOrders \in Nat
  BY <1>2, FishingAssumption DEF TypeInv, TypeOK, WireInv
<1> DEFINE new == [chunk |-> cur, filled |-> 0, state |-> st]
<1>4. new \in Order /\ new.chunk = cur /\ new.filled = 0 /\ new.state = st
  BY <1>1, <1>3 DEF Order, Open
<1> HIDE DEF new
<1>5. orders' = Append(orders, new)
  BY <1>1 DEF new
<1> QED
  BY <1>1, <1>2, <1>3, <1>4, <1>5

LEMMA BrokerStepType ==
  ASSUME TypeInv,
         \/ BrokerPlaces \/ BrokerRefuses
         \/ \E o \in DOMAIN orders : BrokerCancels(o) \/ Opens(o) \/ Fills(o) \/ Expires(o)
  PROVE  TypeInv'
<1>0. Len(orders) \in Nat /\ sub \in [Chunks -> SubOrder(Len(orders))]
  BY DEF TypeInv, TypeOK
<1>1. CASE BrokerPlaces
  <2>1. sub' \in [Chunks -> SubOrder(Len(orders'))]
    <3>1. SubOrder(Len(orders)) \subseteq SubOrder(Len(orders'))
      BY <1>0, <1>1, PlacesDoes DEF SubOrder
    <3> QED
      BY <1>0, <1>1, <3>1, PlacesDoes
  <2>2. cancelling' \subseteq 1..Len(orders')
    <3>1. /\ cancelling \subseteq 1..Len(orders) /\ cancelling' = cancelling
          /\ Len(orders') = Len(orders) + 1
      BY <1>1, PlacesDoes DEF TypeInv, TypeOK
    <3> QED
      BY <1>0, <3>1
  <2>3. TypeOK'
    BY <1>1, <2>1, <2>2, PlacesDoes DEF TypeInv, TypeOK, task
  <2>4. TaskInv' /\ CallerInv'
    BY <1>1, PlacesDoes DEF TypeInv, TaskInv, CallerInv, task, Terminal
  <2>5. WireInv'
    <3>1. orders' # <<>>
      BY <1>0, <1>1, PlacesDoes
    <3> QED
      BY <1>1, <3>1, PlacesDoes DEF TypeInv, WireInv, task
  <2> QED
    BY <2>3, <2>4, <2>5 DEF TypeInv
<1>2. CASE BrokerRefuses
  <2>1. /\ wire = "sent" /\ wire' = "refused"
        /\ UNCHANGED <<orders, sub, task, cancelling, late, caller>>
    BY <1>2 DEF BrokerRefuses
  <2> QED
    BY <2>1 DEF TypeInv, TypeOK, TaskInv, WireInv, CallerInv, task, Terminal
<1>3. ASSUME NEW o \in DOMAIN orders, BrokerCancels(o) \/ Opens(o) \/ Fills(o) \/ Expires(o)
      PROVE  TypeInv'
  <2>1. /\ UNCHANGED <<sub, task, wire, late, caller>>
        /\ orders' \in Seq(Order) /\ Len(orders') = Len(orders)
        /\ \A p \in DOMAIN orders : orders'[p].chunk = orders[p].chunk
        /\ cancelling' \subseteq cancelling
    BY <1>3, BrokerDoes DEF TypeInv
  <2>2. TypeOK'
    BY <2>1 DEF TypeInv, TypeOK, task
  <2>3. TaskInv' /\ CallerInv'
    BY <2>1 DEF TypeInv, TaskInv, CallerInv, task, Terminal
  <2>4. WireInv'
    BY <1>0, <2>1 DEF TypeInv, TypeOK, WireInv, task
  <2> QED
    BY <2>2, <2>3, <2>4 DEF TypeInv
<1> QED
  BY <1>1, <1>2, <1>3

LEMMA IdleStepType ==
  ASSUME TypeInv, DeadlinePasses \/ UNCHANGED vars
  PROVE  TypeInv' /\ UNCHANGED <<orders, sub, status, event, pc, cur, todo, wire, cancelling, caller>>
<1>1. /\ UNCHANGED <<orders, sub, status, event, pc, cur, todo, wire, cancelling, caller>>
      /\ late' \in {late, TRUE}
  BY DEF DeadlinePasses, vars, broker, task
<1>2. TypeOK'
  BY <1>1 DEF TypeInv, TypeOK
<1>3. TaskInv'
  BY <1>1 DEF TypeInv, TaskInv, Terminal
<1>4. WireInv' /\ CallerInv'
  BY <1>1 DEF TypeInv, WireInv, CallerInv
<1> QED
  BY <1>1, <1>2, <1>3, <1>4 DEF TypeInv

\* The steps, sorted by who takes them.
LEMMA Steps ==
  ASSUME [Next]_vars
  PROVE  \/ TaskStep
         \/ DeadlinePasses \/ UNCHANGED vars
         \/ \E c \in Cancellers : CancelFishing(c) \/ GraceEnds(c) \/ Defended(c)
         \/ BrokerPlaces \/ BrokerRefuses
         \/ \E o \in DOMAIN orders : BrokerCancels(o) \/ Opens(o) \/ Fills(o) \/ Expires(o)
BY DEF Next, BrokerAnswers

LEMMA TypeStep == ASSUME TypeInv, [Next]_vars PROVE TypeInv'
BY Steps, TaskStepType, IdleStepType, CancelStepType, BrokerStepType

\* The states of a campaign, its sub-orders, its callers and its orders.
THEOREM TypeCorrect == Spec => []TypeOK
<1>1. TypeInv => TypeOK
  BY DEF TypeInv
<1>2. TypeInv /\ [Next]_vars => TypeInv'
  BY TypeStep
<1> QED
  BY <1>1, <1>2, TypeInit, PTL DEF Spec

-----------------------------------------------------------------------------
(* Finished chunks *)

\* Only a chunk that is not terminal gets another order: the one that is
\* placed first, and those _select_subs_to_adjust picks.
LEMMA FinishedStep ==
  ASSUME TypeInv, [Next]_vars, NEW k \in Chunks, Terminal(sub[k])
  PROVE  sub'[k].id = sub[k].id
<1>0. \A t : t.status \in {"PENDING", "absent"} => ~Terminal(t)
  BY DEF Terminal, TerminalStatus
<1>1. CASE TaskStarts
  <2>1. sub[k] = NoSub
    BY <1>1 DEF TaskStarts, TypeInv, TaskInv
  <2> QED
    BY <1>0, <2>1 DEF NoSub
<1>2. CASE InitialAnswered
  <2>1. PICK s : Answered(s) /\ (PlacesNext(s) \/ sub' = s) /\ UNCHANGED <<orders, late, caller>>
    BY <1>2, InitialAnsweredDoes
  <2>2. pc = "placing"
    BY <1>2 DEF InitialAnswered
  <2>3. k # cur
    BY <1>0, <2>2 DEF TypeInv, TaskInv
  <2>4. s[k] = sub[k]
    BY <2>1, <2>3 DEF Answered
  <2>5. CASE PlacesNext(s)
    <3>1. k # cur + 1
      <4>1. s[k] # NoSub
        BY <1>0, <2>4 DEF NoSub
      <4>2. k = cur + 1 => k >= cur + 1
        BY ChunksFact
      <4> QED
        BY <2>5, <4>1, <4>2 DEF PlacesNext
    <3> QED
      BY <2>1, <2>4, <2>5, <3>1, PlaceInitialType DEF PlacesNext, Answered
  <2> QED
    BY <2>1, <2>4, <2>5
<1>3. CASE Wake
  BY <1>3, WakeDoes
<1>4. CASE Polled
  <2>1. /\ cur \in Chunks /\ sub[cur].id # 0
        /\ sub' \in PollAnswers(cur)
    BY <1>4, PolledDoes
  <2> QED
    BY <2>1, PolledType DEF TypeInv
<1>5. CASE Withdrawn
  BY <1>5 DEF Withdrawn
<1>6. CASE Replaced
  <2>1. Answered(sub') /\ pc = "replacing"
    BY <1>6, ReplacedDoes
  <2>2. k # cur
    BY <2>1 DEF TypeInv, TaskInv
  <2> QED
    BY <2>1, <2>2 DEF Answered
<1>7. CASE Cleaned
  BY <1>7, CleanedDoes, CanceledType DEF TypeInv
<1>8. CASE DeadlinePasses \/ UNCHANGED vars
  BY <1>8, IdleStepType
<1>9. ASSUME NEW c \in Cancellers, CancelFishing(c) \/ GraceEnds(c) \/ Defended(c)
      PROVE  sub'[k].id = sub[k].id
  <2>1. CASE CancelFishing(c) \/ GraceEnds(c)
    BY <2>1 DEF CancelFishing, GraceEnds
  <2>2. CASE Defended(c)
    <3>1. caller[c].cur \in Chunks /\ sub' = Canceled(caller[c].cur)
      BY <2>2 DEF Defended, Canceled, TypeInv, CallerInv
    <3> QED
      BY <3>1, CanceledType DEF TypeInv
  <2> QED
    BY <1>9, <2>1, <2>2
<1>10. CASE BrokerPlaces \/ BrokerRefuses
  BY <1>10 DEF BrokerPlaces, BrokerRefuses
<1>11. ASSUME NEW o \in DOMAIN orders, BrokerCancels(o) \/ Opens(o) \/ Fills(o) \/ Expires(o)
       PROVE  sub'[k].id = sub[k].id
  BY <1>11, BrokerDoes DEF TypeInv
<1> QED
  BY <1>1, <1>2, <1>3, <1>4, <1>5, <1>6, <1>7, <1>8, <1>9, <1>10, <1>11, Steps DEF TaskStep

\* A chunk that is filled, canceled, expired or rejected is never placed again,
\* although its selection is older than the requests of the cycle.
THEOREM FinishedChunksRest == Spec => FinishedStaysFinished
<1>1. TypeInv /\ [Next]_vars => [\A k \in Chunks : Terminal(sub[k]) => sub'[k].id = sub[k].id]_vars
  BY FinishedStep
<1>2. TypeInv /\ [Next]_vars => TypeInv'
  BY TypeStep
<1> QED
  BY <1>1, <1>2, TypeInit, PTL DEF Spec, FinishedStaysFinished

-----------------------------------------------------------------------------
(* Fills *)

\* The contracts that a sequence of orders has filled.
FilledIn(q) == SumFunction([o \in DOMAIN q |-> q[o].filled])

\* The orders q account for the fills of the sub-orders s.
Accounts(q, s) ==
  \A k \in Chunks : s[k].filled > 0 =>
    \E o \in DOMAIN q : q[o].chunk = k /\ s[k].filled <= q[o].filled

\* Every sub-order knows an order of its own chunk, the orders account for
\* what the sub-orders count, and so for what the campaign says.
Knows(s) == \A k \in Chunks : s[k].id # 0 => orders[s[k].id].chunk = k

FillsInv ==
  /\ Knows(sub)
  /\ Accounts(orders, sub)
  /\ event = "filled" => FilledIn(orders) >= Quantity

LEMMA FilledNat ==
  ASSUME NEW q \in Seq(Order)
  PROVE  /\ IsFiniteSet(DOMAIN q)
         /\ \A o \in DOMAIN q : q[o].filled \in Nat
<1>1. DOMAIN q = 1..Len(q) /\ Len(q) \in Nat
  OBVIOUS
<1>2. IsFiniteSet(1..Len(q))
  BY <1>1, FS_Interval
<1>3. \A o \in DOMAIN q : q[o] \in Order
  OBVIOUS
<1> QED
  BY <1>1, <1>2, <1>3 DEF Order

\* Distinct chunks have distinct orders, so that nothing is counted twice.
LEMMA TotalAccounted ==
  ASSUME NEW q \in Seq(Order), NEW n, NEW s \in [Chunks -> SubOrder(n)], Accounts(q, s)
  PROVE  Total(s) <= FilledIn(q)
<1> DEFINE T == Subs(s)
           U == DOMAIN q
           f == [k \in T |-> s[k].filled]
           h == [o \in U |-> q[o].filled]
           Of(k, o) == o \in U /\ q[o].chunk = k /\ s[k].filled <= q[o].filled
           m == [k \in T |-> CHOOSE o : Of(k, o)]
<1>1. T \subseteq Chunks /\ IsFiniteSet(T)
  <2>1. T \subseteq Chunks
    BY DEF Subs
  <2> QED
    BY <2>1, ChunksFact, FS_Subset
<1>2. \A k \in Chunks : s[k].filled \in Nat
  <2>1. \A k \in Chunks : s[k] \in SubOrder(n)
    OBVIOUS
  <2> QED
    BY <2>1 DEF SubOrder
<1>3. IsFiniteSet(U) /\ \A o \in U : q[o].filled \in Nat
  BY FilledNat
<1>4. \A k \in T : s[k].filled # 0 => Of(k, m[k])
  <2> SUFFICES ASSUME NEW k \in T, s[k].filled # 0 PROVE Of(k, m[k])
    OBVIOUS
  <2>1. s[k].filled > 0
    BY <1>1, <1>2
  <2>2. \E o : Of(k, o)
    BY <1>1, <2>1 DEF Accounts
  <2> HIDE DEF Of
  <2> QED
    BY <2>2
<1>5. /\ \A x \in T : f[x] \in Nat
      /\ \A y \in U : h[y] \in Nat
      /\ \A x \in T : f[x] # 0 => m[x] \in U /\ f[x] <= h[m[x]]
      /\ \A x, y \in T : f[x] # 0 /\ f[y] # 0 /\ m[x] = m[y] => x = y
  <2> HIDE DEF m, T, U
  <2> QED
    BY <1>1, <1>2, <1>3, <1>4
<1>6. Total(s) = SumFunctionOnSet(f, T) /\ FilledIn(q) = SumFunctionOnSet(h, U)
  BY DEF Total, FilledIn, SumFunction
<1> HIDE DEF f, h, m, T, U
<1>7. SumFunctionOnSet(f, T) <= SumFunctionOnSet(h, U)
  BY <1>1, <1>3, <1>5, SumInjection
<1> QED
  BY <1>6, <1>7

\* The fills of the broker only grow.
LEMMA FillsGrow ==
  ASSUME NEW q \in Seq(Order), NEW r \in Seq(Order), DOMAIN q \subseteq DOMAIN r,
         \A o \in DOMAIN q : q[o].filled <= r[o].filled /\ q[o].chunk = r[o].chunk
  PROVE  /\ FilledIn(q) <= FilledIn(r) /\ FilledIn(q) \in Nat /\ FilledIn(r) \in Nat
         /\ \A s : (\A k \in Chunks : s[k].filled \in Nat) /\ Accounts(q, s) => Accounts(r, s)
<1> DEFINE T == DOMAIN q
           U == DOMAIN r
           f == [o \in T |-> q[o].filled]
           h == [o \in U |-> r[o].filled]
           m == [o \in T |-> o]
<1>1. /\ IsFiniteSet(T) /\ \A x \in T : f[x] \in Nat
      /\ IsFiniteSet(U) /\ \A y \in U : h[y] \in Nat
  BY FilledNat
<1>2. /\ \A x \in T : f[x] # 0 => m[x] \in U /\ f[x] <= h[m[x]]
      /\ \A x, y \in T : f[x] # 0 /\ f[y] # 0 /\ m[x] = m[y] => x = y
  OBVIOUS
<1>3. FilledIn(q) = SumFunctionOnSet(f, T) /\ FilledIn(r) = SumFunctionOnSet(h, U)
  BY DEF FilledIn, SumFunction
<1>4. ASSUME NEW s, \A k \in Chunks : s[k].filled \in Nat, Accounts(q, s) PROVE Accounts(r, s)
  <2> SUFFICES ASSUME NEW k \in Chunks, s[k].filled > 0
               PROVE  \E o \in DOMAIN r : r[o].chunk = k /\ s[k].filled <= r[o].filled
    BY DEF Accounts
  <2>1. PICK o \in DOMAIN q : q[o].chunk = k /\ s[k].filled <= q[o].filled
    BY <1>4 DEF Accounts
  <2>2. s[k].filled \in Nat /\ q[o].filled \in Nat /\ r[o].filled \in Nat /\ o \in DOMAIN r
    BY <1>4, FilledNat
  <2> QED
    BY <2>1, <2>2
<1> HIDE DEF f, h, m, T, U
<1>5. SumFunctionOnSet(f, T) <= SumFunctionOnSet(h, U)
  BY <1>1, <1>2, SumInjection
<1>6. SumFunctionOnSet(f, T) \in Nat /\ SumFunctionOnSet(h, U) \in Nat
  <2>1. 0 \in Nat /\ \A a, b \in Nat : a + b \in Nat
    OBVIOUS
  <2> QED
    BY <1>1, <2>1, SumIn
<1> QED
  BY <1>3, <1>4, <1>5, <1>6

LEMMA SubTypes ==
  ASSUME NEW n \in Nat, NEW s \in [Chunks -> SubOrder(n)]
  PROVE  \A k \in Chunks : s[k].filled \in Nat /\ s[k].id \in 0..n
<1>1. \A k \in Chunks : s[k] \in SubOrder(n)
  OBVIOUS
<1> QED
  BY <1>1 DEF SubOrder

LEMMA SumTypes ==
  /\ Quantity \in Nat
  /\ \A q \in Seq(Order) : FilledIn(q) \in Nat
  /\ \A n \in Nat : \A s \in [Chunks -> SubOrder(n)] : Total(s) \in Nat
<1>0. 0 \in Nat /\ \A a, b \in Nat : a + b \in Nat
  OBVIOUS
<1>1. Quantity \in Nat
  <2>1. IsFiniteSet(Chunks) /\ \A k \in Chunks : ChunkSizes[k] \in Nat
    BY ChunksFact, FishingAssumption DEF Chunks
  <2>2. SumFunctionOnSet(ChunkSizes, Chunks) \in Nat
    BY <1>0, <2>1, SumIn
  <2> QED
    BY <2>2 DEF Quantity, SumFunction, Chunks
<1>2. ASSUME NEW q \in Seq(Order) PROVE FilledIn(q) \in Nat
  <2>1. \A o \in DOMAIN q : q[o].filled <= q[o].filled /\ q[o].chunk = q[o].chunk
    BY FilledNat
  <2> QED
    BY <2>1, FillsGrow
<1>3. ASSUME NEW n \in Nat, NEW s \in [Chunks -> SubOrder(n)] PROVE Total(s) \in Nat
  <2> DEFINE T == Subs(s)
             f == [k \in T |-> s[k].filled]
  <2>1. T \subseteq Chunks
    BY DEF Subs
  <2>2. IsFiniteSet(T) /\ \A k \in T : f[k] \in Nat
    BY <2>1, ChunksFact, FS_Subset, SubTypes
  <2>3. Total(s) = SumFunctionOnSet(f, T)
    BY DEF Total, SumFunction
  <2> HIDE DEF f, T
  <2>4. SumFunctionOnSet(f, T) \in Nat
    BY <1>0, <2>2, SumIn
  <2> QED
    BY <2>3, <2>4
<1> QED
  BY <1>1, <1>2, <1>3

LEMMA CanceledFills ==
  ASSUME TypeInv, FillsInv, NEW k \in Chunks
  PROVE  Knows(Canceled(k)) /\ Accounts(orders, Canceled(k))
<1>1. \A j \in Chunks : Canceled(k)[j].id = sub[j].id /\ Canceled(k)[j].filled = sub[j].filled
  BY CanceledType DEF TypeInv
<1> QED
  BY <1>1 DEF FillsInv, Knows, Accounts

LEMMA FillsInit == Init => FillsInv
BY DEF Init, FillsInv, Knows, Accounts, NoSub

\* The task goes on from sub-orders that are in order.
LEMMA ResumedFills ==
  ASSUME TypeInv, FillsInv, NEW s \in [Chunks -> SubOrder(Len(orders))], NEW k, Resumed(s, k),
         Knows(s), Accounts(orders, s), sub' = s, UNCHANGED orders
  PROVE  FillsInv'
<1>1. orders \in Seq(Order) /\ Len(orders) \in Nat
  BY DEF TypeInv, TypeOK
<1>2. Total(s) <= FilledIn(orders)
  BY <1>1, TotalAccounted
<1>3. event' = "filled" => FilledIn(orders) >= Quantity
  <2>1. CASE event = "filled"
    BY <2>1 DEF FillsInv
  <2>2. CASE Total(s) >= Quantity
    <3>1. Total(s) \in Int /\ Quantity \in Int /\ FilledIn(orders) \in Int
      BY <1>1, SumTypes
    <3> QED
      BY <1>2, <2>2, <3>1
  <2> QED
    BY <2>1, <2>2 DEF Resumed
<1> QED
  BY <1>3 DEF FillsInv, Knows

LEMMA PlaceInitialFills ==
  ASSUME TypeInv, FillsInv, NEW s \in [Chunks -> SubOrder(Len(orders))], NEW k \in Chunks,
         pc \in {"created", "placing"}, \A j \in Chunks : j >= k => s[j] = NoSub,
         PlaceInitial(s, k), UNCHANGED <<orders, late, caller>>,
         Knows(s), Accounts(orders, s)
  PROVE  FillsInv'
<1>1. /\ \A j \in Chunks : j # k => sub'[j] = s[j]
      /\ sub'[k].filled = 0 /\ sub'[k].id = 0
  BY PlaceInitialType
<1>2. event' = event
  BY DEF PlaceInitial
<1>3. Knows(sub)'
  BY <1>1 DEF Knows
<1>4. Accounts(orders, sub)'
  <2> SUFFICES ASSUME NEW j \in Chunks, sub'[j].filled > 0
               PROVE  \E o \in DOMAIN orders : orders[o].chunk = j /\ sub'[j].filled <= orders[o].filled
    BY DEF Accounts
  <2>1. j # k
    BY <1>1
  <2> QED
    BY <1>1, <2>1 DEF Accounts
<1> QED
  BY <1>2, <1>3, <1>4 DEF FillsInv

LEMMA AnsweredFills ==
  ASSUME TypeInv, FillsInv, NEW s, Answered(s)
  PROVE  Knows(s) /\ Accounts(orders, s)
<1>1. wire = "placed" => orders[Len(orders)].chunk = cur
  BY DEF TypeInv, WireInv
<1>2. \A k \in Chunks : s[k].id # 0 => orders[s[k].id].chunk = k
  BY <1>1 DEF Answered, FillsInv, Knows
<1>3. \A k \in Chunks : s[k].filled = sub[k].filled
  BY DEF Answered
<1> QED
  BY <1>2, <1>3 DEF Knows, FillsInv, Accounts

LEMMA TaskStepFills == ASSUME TypeInv, FillsInv, TaskStep PROVE FillsInv'
<1>0. /\ sub \in [Chunks -> SubOrder(Len(orders))] /\ 1 \in Chunks
      /\ Knows(sub) /\ Accounts(orders, sub)
      /\ orders \in Seq(Order) /\ Len(orders) \in Nat
  BY ChunksFact DEF TypeInv, TypeOK, FillsInv
<1>1. CASE TaskStarts
  <2>1. \A j \in Chunks : j >= 1 => sub[j] = NoSub
    BY <1>1 DEF TaskStarts, TypeInv, TaskInv
  <2>2. pc = "created" /\ PlaceInitial(sub, 1) /\ UNCHANGED <<orders, late, caller>>
    BY <1>1 DEF TaskStarts
  <2> QED
    BY <1>0, <2>1, <2>2, PlaceInitialFills
<1>2. CASE InitialAnswered
  <2>1. PICK s : /\ Answered(s) /\ UNCHANGED <<orders, late, caller>>
                 /\ PlacesNext(s) \/ (sub' = s /\ Resumed(s, 0))
    BY <1>2, InitialAnsweredDoes
  <2>2. s \in [Chunks -> SubOrder(Len(orders))] /\ Knows(s) /\ Accounts(orders, s)
    BY <2>1, AnsweredFills DEF Answered
  <2>3. CASE PlacesNext(s)
    BY <2>1, <2>2, <2>3, PlaceInitialFills DEF PlacesNext
  <2>4. CASE sub' = s /\ Resumed(s, 0)
    BY <2>1, <2>2, <2>4, ResumedFills
  <2> QED
    BY <2>1, <2>3, <2>4
<1>3. CASE Wake
  BY <1>0, <1>3, WakeDoes, ResumedFills
<1>4. CASE Polled
  <2>1. cur \in Chunks /\ sub[cur].id # 0 /\ UNCHANGED <<orders, late, caller>>
    BY <1>4, PolledDoes
  <2>2. PICK s \in PollAnswers(cur) : sub' = s /\ Resumed(s, 0)
    BY <1>4, PolledDoes
  <2>3. /\ s \in [Chunks -> SubOrder(Len(orders))]
        /\ \A j \in Chunks : s[j].id = sub[j].id
        /\ \A j \in Chunks : s[j] = sub[j] \/ (j = cur /\ s[j].filled = orders[sub[cur].id].filled)
    BY <2>1, PolledType DEF TypeInv
  <2>4. Knows(s)
    BY <1>0, <2>3 DEF Knows
  <2>5. sub[cur].id \in DOMAIN orders /\ orders[sub[cur].id].chunk = cur
    BY <1>0, <2>1, SubTypes DEF Knows
  <2>6. Accounts(orders, s)
    <3> SUFFICES ASSUME NEW j \in Chunks, s[j].filled > 0
                 PROVE  \E o \in DOMAIN orders : orders[o].chunk = j /\ s[j].filled <= orders[o].filled
      BY DEF Accounts
    <3>1. CASE s[j] = sub[j]
      BY <1>0, <3>1 DEF Accounts
    <3>2. CASE j = cur /\ s[j].filled = orders[sub[cur].id].filled
      <4>1. orders[sub[cur].id].filled \in Nat
        BY <1>0, <2>5, FilledNat
      <4> QED
        BY <2>5, <3>2, <4>1
    <3> QED
      BY <2>3, <3>1, <3>2
  <2> QED
    BY <2>1, <2>2, <2>3, <2>4, <2>6, ResumedFills
<1>5. CASE Withdrawn
  BY <1>5 DEF Withdrawn, FillsInv, Knows
<1>6. CASE Replaced
  <2>1. PICK s : Answered(s) /\ sub' = s /\ Resumed(s, 0) /\ UNCHANGED <<orders, late, caller>>
    BY <1>6, ReplacedDoes
  <2>2. s \in [Chunks -> SubOrder(Len(orders))] /\ Knows(s) /\ Accounts(orders, s)
    BY <2>1, AnsweredFills DEF Answered
  <2> QED
    BY <2>1, <2>2, ResumedFills
<1>7. CASE Cleaned
  <2>1. /\ UNCHANGED <<orders, late, caller>> /\ cur \in Chunks
        /\ sub' = Canceled(cur) /\ Resumed(Canceled(cur), cur)
    BY <1>7, CleanedDoes
  <2> QED
    BY <2>1, CanceledFills, CanceledType, ResumedFills DEF TypeInv
<1> QED
  BY <1>1, <1>2, <1>3, <1>4, <1>5, <1>6, <1>7 DEF TaskStep

LEMMA CancelStepFills ==
  ASSUME TypeInv, FillsInv, NEW c \in Cancellers, CancelFishing(c) \/ GraceEnds(c) \/ Defended(c)
  PROVE  FillsInv'
<1>0. sub \in [Chunks -> SubOrder(Len(orders))] /\ TypeOK
  BY DEF TypeInv, TypeOK
<1>1. CASE CancelFishing(c)
  <2>1. CASE Resumed(sub, 0)
    BY <1>0, <1>1, <2>1, InterruptDoes, ResumedFills DEF FillsInv
  <2>2. CASE UNCHANGED <<status, event, wire, cancelling>>
    BY <1>1, <2>2, InterruptDoes DEF FillsInv, Knows
  <2> QED
    BY <1>1, <2>1, <2>2, InterruptDoes
<1>2. CASE GraceEnds(c)
  <2>1. UNCHANGED <<orders, sub>> /\ Defend(c, sub, 0)
    BY <1>2 DEF GraceEnds
  <2>2. event' \in {event, "none"}
    BY <1>0, <2>1, DefendDoes
  <2> QED
    BY <2>1, <2>2 DEF FillsInv, Knows
<1>3. CASE Defended(c)
  <2> DEFINE k == caller[c].cur
  <2>1. sub' = Canceled(k) /\ Defend(c, Canceled(k), k) /\ k \in Chunks /\ UNCHANGED orders
    BY <1>3 DEF Defended, Canceled, TypeInv, CallerInv
  <2> HIDE DEF k
  <2>2. Knows(Canceled(k)) /\ Accounts(orders, Canceled(k))
    BY <2>1, CanceledFills
  <2>3. event' \in {event, "none"}
    BY <1>0, <2>1, CanceledType, DefendDoes
  <2> QED
    BY <2>1, <2>2, <2>3 DEF FillsInv, Knows
<1> QED
  BY <1>1, <1>2, <1>3

LEMMA BrokerStepFills ==
  ASSUME TypeInv, FillsInv,
         \/ BrokerPlaces \/ BrokerRefuses
         \/ \E o \in DOMAIN orders : BrokerCancels(o) \/ Opens(o) \/ Fills(o) \/ Expires(o)
  PROVE  FillsInv'
<1>0. /\ orders \in Seq(Order) /\ Len(orders) \in Nat
      /\ \A k \in Chunks : sub[k].filled \in Nat /\ sub[k].id \in 0..Len(orders)
  BY SubTypes DEF TypeInv, TypeOK
<1>1. ASSUME orders' \in Seq(Order), DOMAIN orders \subseteq DOMAIN orders', UNCHANGED <<sub, event>>,
             \A o \in DOMAIN orders :
               orders[o].filled <= orders'[o].filled /\ orders[o].chunk = orders'[o].chunk
      PROVE  FillsInv'
  <2>1. /\ FilledIn(orders) <= FilledIn(orders')
        /\ FilledIn(orders) \in Nat /\ FilledIn(orders') \in Nat
        /\ Accounts(orders', sub)
    BY <1>0, <1>1, FillsGrow DEF FillsInv
  <2>2. Quantity \in Int
    BY SumTypes
  <2>3. event' = "filled" => FilledIn(orders') >= Quantity
    BY <1>1, <2>1, <2>2 DEF FillsInv
  <2>4. Knows(sub)'
    BY <1>0, <1>1 DEF FillsInv, Knows
  <2> QED
    BY <1>1, <2>1, <2>3, <2>4 DEF FillsInv
<1>2. CASE BrokerPlaces
  <2>1. \A o \in DOMAIN orders : orders[o].filled \in Nat
    BY <1>0, FilledNat
  <2> QED
    BY <1>0, <1>1, <1>2, <2>1, PlacesDoes DEF task
<1>3. CASE BrokerRefuses
  BY <1>3 DEF BrokerRefuses, task, FillsInv, Knows
<1>4. ASSUME NEW o \in DOMAIN orders, BrokerCancels(o) \/ Opens(o) \/ Fills(o) \/ Expires(o)
      PROVE  FillsInv'
  <2>1. /\ UNCHANGED <<sub, task>>
        /\ orders' \in Seq(Order) /\ Len(orders') = Len(orders)
        /\ \A p \in DOMAIN orders :
             orders'[p].chunk = orders[p].chunk /\ orders'[p].filled >= orders[p].filled
    BY <1>4, BrokerDoes DEF TypeInv
  <2>2. \A p \in DOMAIN orders : orders[p].filled \in Nat
    BY <1>0, FilledNat
  <2>3. DOMAIN orders' = DOMAIN orders
    BY <1>0, <2>1
  <2>4. \A p \in DOMAIN orders : orders'[p].filled \in Nat
    BY <2>1, <2>3, FilledNat
  <2> QED
    BY <1>1, <2>1, <2>2, <2>3, <2>4 DEF task
<1> QED
  BY <1>2, <1>3, <1>4

LEMMA FillsStep == ASSUME TypeInv, FillsInv, [Next]_vars PROVE FillsInv'
<1>1. CASE DeadlinePasses \/ UNCHANGED vars
  BY <1>1, IdleStepType DEF FillsInv, Knows
<1> QED
  BY <1>1, Steps, TaskStepFills, CancelStepFills, BrokerStepFills

\* The fills a campaign reports for a chunk were made, by one order of it.
THEOREM FillsAreReal == Spec => []NeverOverreports
<1>1. TypeInv /\ FillsInv => NeverOverreports
  <2> SUFFICES ASSUME TypeInv, FillsInv, NEW k \in Chunks PROVE sub[k].filled <= FilledOf(OrdersOf(k))
    BY DEF NeverOverreports
  <2> DEFINE T == OrdersOf(k)
             f == [o \in T |-> orders[o].filled]
  <2>1. orders \in Seq(Order) /\ Len(orders) \in Nat /\ sub[k].filled \in Nat
    BY SubTypes DEF TypeInv, TypeOK
  <2>2. T \subseteq DOMAIN orders /\ IsFiniteSet(T) /\ \A o \in T : f[o] \in Nat
    <3>1. T \subseteq DOMAIN orders
      BY DEF OrdersOf
    <3> QED
      BY <2>1, <3>1, FilledNat, FS_Subset
  <2>3. FilledOf(OrdersOf(k)) = SumFunctionOnSet(f, T)
    BY DEF FilledOf, SumFunction
  <2>4. SumFunctionOnSet(f, T) \in Nat
    <3>1. 0 \in Nat /\ \A a, b \in Nat : a + b \in Nat
      OBVIOUS
    <3> HIDE DEF f, T
    <3> QED
      BY <2>2, <3>1, SumIn
  <2>5. CASE sub[k].filled = 0
    BY <2>3, <2>4, <2>5
  <2>6. CASE sub[k].filled > 0
    <3>1. PICK o \in T : sub[k].filled <= orders[o].filled
      BY <2>6 DEF FillsInv, Accounts, OrdersOf
    <3>2. f[o] = orders[o].filled /\ f[o] \in Nat
      BY <2>2
    <3> HIDE DEF f, T
    <3>3. f[o] <= SumFunctionOnSet(f, T)
      BY <2>2, SumBounds
    <3> QED
      BY <2>1, <2>3, <2>4, <3>1, <3>2, <3>3
  <2> QED
    BY <2>1, <2>5, <2>6
<1>2. TypeInv /\ FillsInv /\ [Next]_vars => TypeInv' /\ FillsInv'
  BY TypeStep, FillsStep
<1> QED
  BY <1>1, <1>2, TypeInit, FillsInit, PTL DEF Spec

AnyFilled == \E o \in DOMAIN orders : orders[o].state = "FILLED"

\* A chunk that counts as filled was filled by an order, which stays filled.
WholeInv == SomeFilled(sub) \/ Partly => AnyFilled

LEMMA WholeTaskStep == ASSUME TypeInv, WholeInv, TaskStep PROVE WholeInv'
<1>1. CASE TaskStarts
  <2>1. pc = "created" /\ PlaceInitial(sub, 1) /\ UNCHANGED <<orders, late, caller>>
    BY <1>1 DEF TaskStarts
  <2>2. \A j \in Chunks : sub'[j].status # "FILLED"
    <3>1. PICK e \in BOOLEAN :
            sub' = [sub EXCEPT ![1] = [NoSub EXCEPT !.status = "PENDING", !.atEnd = e]]
      BY <2>1 DEF PlaceInitial
    <3>2. sub \in [Chunks -> SubOrder(Len(orders))] /\ \A j \in Chunks : sub[j] = NoSub
      BY <2>1 DEF TypeInv, TypeOK, TaskInv
    <3> QED
      BY <3>1, <3>2 DEF NoSub
  <2>3. UNCHANGED <<status, event>>
    BY <2>1 DEF PlaceInitial
  <2> QED
    BY <2>1, <2>2, <2>3 DEF WholeInv, SomeFilled, Partly, AnyFilled
<1>2. CASE InitialAnswered
  <2>1. PICK s : /\ Answered(s) /\ UNCHANGED <<orders, late, caller>>
                 /\ PlacesNext(s) \/ (sub' = s /\ Resumed(s, 0))
    BY <1>2, InitialAnsweredDoes
  <2>2. SomeFilled(s) => SomeFilled(sub)
    BY <2>1 DEF Answered, SomeFilled
  <2>3. CASE PlacesNext(s)
    <3>1. PICK e \in BOOLEAN :
            sub' = [s EXCEPT ![cur + 1] = [NoSub EXCEPT !.status = "PENDING", !.atEnd = e]]
      BY <2>3 DEF PlacesNext, PlaceInitial
    <3>2. s \in [Chunks -> SubOrder(Len(orders))]
      BY <2>1 DEF Answered
    <3>3. SomeFilled(sub)' => SomeFilled(s)
      BY <3>1, <3>2 DEF SomeFilled, NoSub
    <3>4. UNCHANGED <<status, event>>
      BY <2>3 DEF PlacesNext, PlaceInitial
    <3> QED
      BY <2>1, <2>2, <3>3, <3>4 DEF WholeInv, Partly, AnyFilled
  <2>4. CASE sub' = s /\ Resumed(s, 0)
    BY <2>1, <2>2, <2>4 DEF Resumed, WholeInv, SomeFilled, AnyFilled
  <2> QED
    BY <2>1, <2>3, <2>4
<1>3. CASE Wake
  BY <1>3, WakeDoes DEF Resumed, WholeInv, SomeFilled, AnyFilled
<1>4. CASE Polled
  <2>1. cur \in Chunks /\ sub[cur].id # 0 /\ UNCHANGED <<orders, late, caller>>
    BY <1>4, PolledDoes
  <2>2. PICK s \in PollAnswers(cur) : sub' = s /\ Resumed(s, 0)
    BY <1>4, PolledDoes
  <2>3. \A j \in Chunks : s[j] = sub[j] \/ s[j].status = orders[sub[cur].id].state
    BY <2>1, PolledType DEF TypeInv
  <2>4. sub[cur].id \in DOMAIN orders
    BY <2>1, SubTypes DEF TypeInv, TypeOK
  <2>5. SomeFilled(s) => AnyFilled
    BY <2>3, <2>4 DEF SomeFilled, WholeInv, AnyFilled
  <2> QED
    BY <2>1, <2>2, <2>5 DEF Resumed, WholeInv, SomeFilled, AnyFilled
<1>5. CASE Withdrawn
  BY <1>5 DEF Withdrawn, WholeInv, SomeFilled, Partly, AnyFilled
<1>6. CASE Replaced
  <2>1. PICK s : Answered(s) /\ sub' = s /\ Resumed(s, 0) /\ UNCHANGED <<orders, late, caller>>
    BY <1>6, ReplacedDoes
  <2>2. SomeFilled(s) => SomeFilled(sub)
    BY <2>1 DEF Answered, SomeFilled
  <2> QED
    BY <2>1, <2>2 DEF Resumed, WholeInv, SomeFilled, AnyFilled
<1>7. CASE Cleaned
  <2>1. /\ UNCHANGED <<orders, late, caller>> /\ cur \in Chunks
        /\ sub' = Canceled(cur) /\ Resumed(Canceled(cur), cur)
    BY <1>7, CleanedDoes
  <2>2. SomeFilled(Canceled(cur)) => SomeFilled(sub)
    BY <2>1, CanceledWhole
  <2> QED
    BY <2>1, <2>2 DEF Resumed, WholeInv, SomeFilled, AnyFilled
<1> QED
  BY <1>1, <1>2, <1>3, <1>4, <1>5, <1>6, <1>7 DEF TaskStep

LEMMA WholeCancelStep ==
  ASSUME TypeInv, WholeInv, NEW c \in Cancellers, CancelFishing(c) \/ GraceEnds(c) \/ Defended(c)
  PROVE  WholeInv'
<1>0. sub \in [Chunks -> SubOrder(Len(orders))] /\ TypeOK
  BY DEF TypeInv, TypeOK
<1>1. CASE CancelFishing(c)
  <2>1. CASE Resumed(sub, 0)
    BY <1>1, <2>1, InterruptDoes DEF Resumed, WholeInv, SomeFilled, AnyFilled
  <2>2. CASE UNCHANGED <<status, event, wire, cancelling>>
    BY <1>1, <2>2, InterruptDoes DEF WholeInv, SomeFilled, Partly, AnyFilled
  <2> QED
    BY <1>1, <2>1, <2>2, InterruptDoes
<1>2. CASE GraceEnds(c)
  <2>1. UNCHANGED <<orders, sub>> /\ Defend(c, sub, 0)
    BY <1>2 DEF GraceEnds
  <2>2. Partly' => Partly
    BY <1>0, <2>1, DefendDoes DEF Partly
  <2> QED
    BY <2>1, <2>2 DEF WholeInv, SomeFilled, AnyFilled
<1>3. CASE Defended(c)
  <2> DEFINE k == caller[c].cur
  <2>1. sub' = Canceled(k) /\ Defend(c, Canceled(k), k) /\ k \in Chunks /\ UNCHANGED orders
    BY <1>3 DEF Defended, Canceled, TypeInv, CallerInv
  <2> HIDE DEF k
  <2>2. Partly' => Partly
    BY <1>0, <2>1, CanceledType, DefendDoes DEF Partly
  <2>3. SomeFilled(Canceled(k)) => SomeFilled(sub)
    BY <2>1, CanceledWhole
  <2> QED
    BY <2>1, <2>2, <2>3 DEF WholeInv, SomeFilled, AnyFilled
<1> QED
  BY <1>1, <1>2, <1>3

LEMMA WholeBrokerStep ==
  ASSUME TypeInv, WholeInv,
         \/ BrokerPlaces \/ BrokerRefuses
         \/ \E o \in DOMAIN orders : BrokerCancels(o) \/ Opens(o) \/ Fills(o) \/ Expires(o)
  PROVE  WholeInv'
<1>0. orders \in Seq(Order) /\ Len(orders) \in Nat
  BY DEF TypeInv, TypeOK
<1>1. ASSUME UNCHANGED <<sub, status, event>>, AnyFilled => AnyFilled'
      PROVE  WholeInv'
  BY <1>1 DEF WholeInv, SomeFilled, Partly
<1>2. CASE BrokerPlaces
  <2>1. /\ UNCHANGED <<sub, status, event>>
        /\ orders' \in Seq(Order) /\ Len(orders') = Len(orders) + 1
        /\ \A p \in DOMAIN orders : orders'[p] = orders[p]
    BY <1>2, PlacesDoes DEF task
  <2>2. DOMAIN orders \subseteq DOMAIN orders'
    BY <1>0, <2>1
  <2>3. AnyFilled => AnyFilled'
    BY <2>1, <2>2 DEF AnyFilled
  <2> QED
    BY <1>1, <2>1, <2>3
<1>3. CASE BrokerRefuses
  BY <1>1, <1>3 DEF BrokerRefuses, task, AnyFilled
<1>4. ASSUME NEW o \in DOMAIN orders, BrokerCancels(o) \/ Opens(o) \/ Fills(o) \/ Expires(o)
      PROVE  WholeInv'
  <2>1. /\ UNCHANGED <<sub, status, event>>
        /\ orders' \in Seq(Order) /\ Len(orders') = Len(orders)
        /\ \A p \in DOMAIN orders : orders[p].state = "FILLED" => orders'[p].state = "FILLED"
    BY <1>4, BrokerDoes DEF TypeInv, task
  <2>2. DOMAIN orders' = DOMAIN orders
    BY <1>0, <2>1
  <2>3. AnyFilled => AnyFilled'
    BY <2>1, <2>2 DEF AnyFilled
  <2> QED
    BY <1>1, <2>1, <2>3
<1> QED
  BY <1>2, <1>3, <1>4

LEMMA WholeStep == ASSUME TypeInv, WholeInv, [Next]_vars PROVE WholeInv'
<1>1. CASE DeadlinePasses \/ UNCHANGED vars
  BY <1>1, IdleStepType DEF WholeInv, SomeFilled, Partly, AnyFilled
<1> QED
  BY <1>1, Steps, WholeTaskStep, WholeCancelStep, WholeBrokerStep

\* "all chunks filled" is only said of a campaign whose quantity the broker has
\* filled: what its chunks count was filled by distinct orders.  The status FILLED
\* without it is given only when an order has been filled completely.
THEOREM FilledIsFilled == Spec => []FilledMeansFilled
<1>1. FillsInv /\ WholeInv => FilledMeansFilled
  BY DEF FillsInv, WholeInv, Partly, AnyFilled, FilledMeansFilled, FilledOf, FilledIn
<1>2. Init => WholeInv
  BY DEF Init, WholeInv, SomeFilled, Partly, NoSub
<1>3. /\ TypeInv /\ FillsInv /\ [Next]_vars => TypeInv' /\ FillsInv'
      /\ TypeInv /\ WholeInv /\ [Next]_vars => WholeInv'
  BY TypeStep, FillsStep, WholeStep
<1> QED
  BY <1>1, <1>2, <1>3, TypeInit, FillsInit, PTL DEF Spec

-----------------------------------------------------------------------------
(* One open order for each chunk *)

\* Cancellations are not lost, and answers to place requests arrive with their
\* order id.  Requests may be refused and tasks interrupted, orders may be
\* queued and end by themselves.
Answering == Faults \cap {"lostCancel", "lostAnswer", "lostId"} = {}

\* The order the task does not know yet: the answer has not been read.
Awaited(o) == wire = "placed" /\ o = Len(orders)

\* Every open order is the one that the sub-order s of its chunk knows.
Tracked(s) == \A o \in DOMAIN orders : IsOpen(o) => o = s[orders[o].chunk].id

\* Every open order is the one its chunk knows, or the one whose answer the task
\* has not read; and while a place request is under way the chunk has no other.
\* Whoever awaits the answer to a cancellation will see it done.
OpenInv ==
  /\ \A o \in DOMAIN orders : IsOpen(o) => o = sub[orders[o].chunk].id \/ Awaited(o)
  /\ wire # "none" => \A o \in OrdersOf(cur) : IsOpen(o) => Awaited(o)
  /\ pc \in {"withdrawing", "cleaning"} => Withdrawing(sub[cur].id)
  /\ \A c \in Cancellers : caller[c].pc = "cleaning" => Withdrawing(sub[caller[c].cur].id)

LEMMA OpenInit == Init => OpenInv
BY DEF Init, OpenInv, OrdersOf

LEMMA OrderTypes ==
  ASSUME TypeOK
  PROVE  /\ orders \in Seq(Order) /\ Len(orders) \in Nat /\ DOMAIN orders = 1..Len(orders)
         /\ \A o \in DOMAIN orders : orders[o].chunk \in Chunks
         /\ sub \in [Chunks -> SubOrder(Len(orders))]
<1>1. orders \in Seq(Order) /\ sub \in [Chunks -> SubOrder(Len(orders))]
  BY DEF TypeOK
<1>2. \A o \in DOMAIN orders : orders[o] \in Order
  BY <1>1
<1> QED
  BY <1>1, <1>2 DEF Order

\* With no place request on the wire the sub-orders know every open order.
LEMMA NothingAwaited ==
  ASSUME OpenInv, wire # "placed"
  PROVE  Tracked(sub)
BY DEF OpenInv, Awaited, Tracked

\* The answer to a place request tells of the last order.
LEMMA AnsweredOpen ==
  ASSUME Answering, TypeInv, OpenInv, NEW s, Answered(s)
  PROVE  Tracked(s)
<1> SUFFICES ASSUME NEW o \in DOMAIN orders, IsOpen(o) PROVE o = s[orders[o].chunk].id
  BY DEF Tracked
<1>1. orders[o].chunk \in Chunks
  BY OrderTypes DEF TypeInv
<1>2. wire # "none" /\ (wire = "placed" => orders[Len(orders)].chunk = cur)
  BY DEF Answered, TypeInv, WireInv
<1>3. CASE orders[o].chunk = cur
  <2>1. wire = "placed" /\ o = Len(orders)
    BY <1>2, <1>3 DEF OpenInv, OrdersOf, Awaited
  <2> QED
    BY <1>3, <2>1 DEF Answered, Answering
<1>4. CASE orders[o].chunk # cur
  BY <1>1, <1>2, <1>4 DEF OpenInv, Awaited, Answered
<1> QED
  BY <1>3, <1>4

LEMMA ResumedOpen ==
  ASSUME TypeInv, OpenInv, NEW s \in [Chunks -> SubOrder(Len(orders))], NEW k, Resumed(s, k),
         Tracked(s), sub' = s, UNCHANGED orders,
         \A c \in Cancellers : caller'[c].pc = "cleaning" =>
           /\ caller'[c] = caller[c] /\ s[caller[c].cur].id = sub[caller[c].cur].id
  PROVE  OpenInv'
<1>1. \A o \in DOMAIN orders' : IsOpen(o)' => o = sub'[orders'[o].chunk].id
  BY DEF Tracked, IsOpen
<1>2. wire' # "none" => \A o \in OrdersOf(cur)' : IsOpen(o)' => Awaited(o)'
  <2> SUFFICES ASSUME wire' # "none", NEW o \in OrdersOf(cur)', IsOpen(o)' PROVE FALSE
    OBVIOUS
  <2>1. s[cur'].id = 0
    BY DEF Resumed
  <2>2. o \in DOMAIN orders' /\ orders'[o].chunk = cur'
    BY DEF OrdersOf
  <2>3. o = 0
    BY <1>1, <2>1, <2>2
  <2> QED
    BY <2>2, <2>3, OrderTypes DEF TypeInv
<1>3. pc' \in {"withdrawing", "cleaning"} => Withdrawing(sub[cur].id)'
  BY DEF Resumed, Withdrawing
<1>4. ASSUME NEW c \in Cancellers, caller'[c].pc = "cleaning"
      PROVE  Withdrawing(sub[caller[c].cur].id)'
  <2>1. /\ caller'[c] = caller[c] /\ s[caller[c].cur].id = sub[caller[c].cur].id
        /\ Withdrawing(sub[caller[c].cur].id)
    BY <1>4 DEF OpenInv
  <2>2. cancelling \subseteq cancelling'
    BY DEF Resumed
  <2> QED
    BY <2>1, <2>2 DEF Withdrawing, IsOpen
<1> QED
  BY <1>1, <1>2, <1>3, <1>4 DEF OpenInv

LEMMA PlaceInitialOpen ==
  ASSUME TypeInv, OpenInv, NEW s \in [Chunks -> SubOrder(Len(orders))], NEW k \in Chunks,
         pc \in {"created", "placing"}, \A j \in Chunks : j >= k => s[j] = NoSub,
         PlaceInitial(s, k), UNCHANGED <<orders, late, caller>>, Tracked(s)
  PROVE  OpenInv'
<1>1. \A j \in Chunks : j # k => sub'[j] = s[j]
  BY PlaceInitialType
<1>2. pc' = "placing" /\ cur' = k /\ wire' = "sent"
  BY DEF PlaceInitial, Await, SendPlace
<1>3. \A c \in Cancellers : caller'[c].pc = "idle"
  BY NobodyCancels
<1>4. s[k].id = 0
  BY ChunksFact DEF NoSub
<1>5. ASSUME NEW o \in DOMAIN orders', IsOpen(o)'
      PROVE  orders'[o].chunk # k /\ o = sub'[orders'[o].chunk].id
  <2>1. o = s[orders[o].chunk].id /\ orders[o].chunk \in Chunks /\ o # 0
    BY <1>5, OrderTypes DEF Tracked, IsOpen, TypeInv
  <2> QED
    BY <1>1, <1>4, <2>1
<1> QED
  BY <1>2, <1>3, <1>5 DEF OpenInv, OrdersOf

LEMMA TaskStepOpen == ASSUME Answering, TypeInv, OpenInv, TaskStep PROVE OpenInv'
<1>0. /\ sub \in [Chunks -> SubOrder(Len(orders))] /\ 1 \in Chunks
      /\ wire # "none" => pc \in {"placing", "replacing", "ended"}
  BY ChunksFact DEF TypeInv, TypeOK, WireInv
<1>1. CASE TaskStarts
  <2>1. \A j \in Chunks : j >= 1 => sub[j] = NoSub
    BY <1>1 DEF TaskStarts, TypeInv, TaskInv
  <2>2. pc = "created" /\ PlaceInitial(sub, 1) /\ UNCHANGED <<orders, late, caller>>
    BY <1>1 DEF TaskStarts
  <2> QED
    BY <1>0, <2>1, <2>2, NothingAwaited, PlaceInitialOpen
<1>2. CASE InitialAnswered
  <2>1. PICK s : /\ Answered(s) /\ UNCHANGED <<orders, late, caller>>
                 /\ PlacesNext(s) \/ (sub' = s /\ Resumed(s, 0))
    BY <1>2, InitialAnsweredDoes
  <2>2. /\ s \in [Chunks -> SubOrder(Len(orders))] /\ Tracked(s)
        /\ pc \in {"placing", "replacing"}
    BY <2>1, AnsweredOpen DEF Answered
  <2>3. CASE PlacesNext(s)
    BY <2>1, <2>2, <2>3, PlaceInitialOpen DEF PlacesNext
  <2>4. CASE sub' = s /\ Resumed(s, 0)
    BY <2>1, <2>2, <2>4, NobodyCancels, ResumedOpen
  <2> QED
    BY <2>1, <2>3, <2>4
<1>3. CASE Wake
  <2>1. pc = "sleeping" /\ sub' = sub /\ Resumed(sub, 0) /\ UNCHANGED <<orders, late, caller>>
    BY <1>3, WakeDoes
  <2> QED
    BY <1>0, <2>1, NothingAwaited, NobodyCancels, ResumedOpen
<1>4. CASE Polled
  <2>1. pc = "polling" /\ cur \in Chunks /\ sub[cur].id # 0 /\ UNCHANGED <<orders, late, caller>>
    BY <1>4, PolledDoes
  <2>2. PICK s \in PollAnswers(cur) : sub' = s /\ Resumed(s, 0)
    BY <1>4, PolledDoes
  <2>3. s \in [Chunks -> SubOrder(Len(orders))] /\ \A j \in Chunks : s[j].id = sub[j].id
    BY <2>1, PolledType DEF TypeInv
  <2>4. Tracked(s)
    BY <1>0, <2>1, <2>3, NothingAwaited, OrderTypes DEF Tracked, TypeInv
  <2> QED
    BY <2>1, <2>2, <2>3, <2>4, NobodyCancels, ResumedOpen
<1>5. CASE Withdrawn
  <2>1. /\ pc = "withdrawing" /\ pc' = "replacing" /\ cur' = cur /\ wire' = "sent"
        /\ CancelAnswered(sub[cur].id)
        /\ UNCHANGED <<cancelling, orders, sub, status, event, late, caller>>
    BY <1>5 DEF Withdrawn, Await, SendPlace
  <2>2. Tracked(sub)
    BY <1>0, <2>1, NothingAwaited
  <2>3. ~IsOpen(sub[cur].id)
    BY <2>1 DEF OpenInv, Withdrawing, CancelAnswered, Answering
  <2>4. \A o \in OrdersOf(cur)' : ~IsOpen(o)'
    BY <2>1, <2>2, <2>3 DEF Tracked, OrdersOf, IsOpen
  <2>5. \A c \in Cancellers : caller'[c].pc = "idle"
    BY <2>1, NobodyCancels
  <2> QED
    BY <2>1, <2>2, <2>4, <2>5 DEF OpenInv, Tracked, IsOpen
<1>6. CASE Replaced
  <2>1. PICK s : Answered(s) /\ sub' = s /\ Resumed(s, 0) /\ UNCHANGED <<orders, late, caller>>
    BY <1>6, ReplacedDoes
  <2>2. /\ s \in [Chunks -> SubOrder(Len(orders))] /\ Tracked(s)
        /\ pc \in {"placing", "replacing"}
    BY <2>1, AnsweredOpen DEF Answered
  <2> QED
    BY <2>1, <2>2, NobodyCancels, ResumedOpen
<1>7. CASE Cleaned
  <2>1. /\ UNCHANGED <<orders, late, caller>> /\ pc = "cleaning" /\ cur \in Chunks
        /\ sub' = Canceled(cur) /\ Resumed(Canceled(cur), cur)
    BY <1>7, CleanedDoes
  <2>2. /\ Canceled(cur) \in [Chunks -> SubOrder(Len(orders))]
        /\ \A j \in Chunks : Canceled(cur)[j].id = sub[j].id
    BY <2>1, CanceledType DEF TypeInv
  <2>3. Tracked(Canceled(cur))
    BY <1>0, <2>1, <2>2, NothingAwaited, OrderTypes DEF Tracked, TypeInv
  <2>4. \A c \in Cancellers : caller'[c].pc = "cleaning" =>
          caller'[c] = caller[c] /\ Canceled(cur)[caller[c].cur].id = sub[caller[c].cur].id
    BY <2>1, <2>2 DEF TypeInv, CallerInv
  <2> QED
    BY <2>1, <2>2, <2>3, <2>4, ResumedOpen
<1> QED
  BY <1>1, <1>2, <1>3, <1>4, <1>5, <1>6, <1>7 DEF TaskStep

\* A pass over the sub-orders sends cancel requests and takes none back.
LEMMA DefendOpen ==
  ASSUME TypeInv, OpenInv, NEW c \in Cancellers,
         NEW s \in [Chunks -> SubOrder(Len(orders))], \A j \in Chunks : s[j].id = sub[j].id,
         NEW k, Defend(c, s, k), sub' = s, UNCHANGED <<orders, pc, cur, wire>>
  PROVE  OpenInv'
<1>1. /\ \A d \in Cancellers : d # c => caller'[d] = caller[d]
      /\ caller'[c].pc = "cleaning" =>
           caller'[c].cur \in Chunks /\ s[caller'[c].cur].id \in cancelling'
      /\ cancelling \subseteq cancelling'
  BY DefendDoes DEF TypeInv
<1>2. /\ \A o \in DOMAIN orders' : IsOpen(o)' => o = sub'[orders'[o].chunk].id \/ Awaited(o)'
      /\ wire' # "none" => \A o \in OrdersOf(cur)' : IsOpen(o)' => Awaited(o)'
  BY OrderTypes DEF OpenInv, OrdersOf, IsOpen, Awaited, TypeInv
<1>3. pc' \in {"withdrawing", "cleaning"} => Withdrawing(sub[cur].id)'
  <2> SUFFICES ASSUME pc \in {"withdrawing", "cleaning"} PROVE Withdrawing(sub[cur].id)'
    OBVIOUS
  <2>1. cur \in Chunks /\ Withdrawing(sub[cur].id)
    BY DEF TypeInv, TaskInv, OpenInv
  <2>2. sub'[cur'].id = sub[cur].id
    BY <2>1
  <2> QED
    BY <1>1, <2>1, <2>2 DEF Withdrawing, IsOpen
<1>4. ASSUME NEW d \in Cancellers, caller'[d].pc = "cleaning"
      PROVE  Withdrawing(sub[caller[d].cur].id)'
  <2>1. CASE d = c
    BY <1>1, <1>4, <2>1 DEF Withdrawing
  <2>2. CASE d # c
    <3>1. /\ caller'[d] = caller[d] /\ caller[d].cur \in Chunks
          /\ Withdrawing(sub[caller[d].cur].id)
      BY <1>1, <1>4, <2>2 DEF TypeInv, CallerInv, OpenInv
    <3>2. sub'[caller'[d].cur].id = sub[caller[d].cur].id
      BY <3>1
    <3> QED
      BY <1>1, <3>1, <3>2 DEF Withdrawing, IsOpen
  <2> QED
    BY <2>1, <2>2
<1> QED
  BY <1>2, <1>3, <1>4 DEF OpenInv

LEMMA CancelStepOpen ==
  ASSUME TypeInv, OpenInv, NEW c \in Cancellers, CancelFishing(c) \/ GraceEnds(c) \/ Defended(c)
  PROVE  OpenInv'
<1>0. /\ sub \in [Chunks -> SubOrder(Len(orders))]
      /\ wire # "none" => pc \in {"placing", "replacing", "ended"}
  BY DEF TypeInv, TypeOK, WireInv
<1>1. CASE CancelFishing(c)
  <2>1. /\ UNCHANGED <<orders, sub, late>>
        /\ \A d \in Cancellers : caller'[d].pc = "cleaning" => caller'[d] = caller[d]
    BY <1>1, InterruptDoes
  <2>2. CASE Resumed(sub, 0) /\ pc = "sleeping"
    BY <1>0, <2>1, <2>2, NothingAwaited, ResumedOpen
  <2>3. CASE pc' = "ended" /\ cur' = cur /\ UNCHANGED <<wire, cancelling>>
    BY <2>1, <2>3 DEF OpenInv, OrdersOf, IsOpen, Awaited, Withdrawing
  <2> QED
    BY <1>1, <2>2, <2>3, InterruptDoes
<1>2. CASE GraceEnds(c)
  <2>1. Defend(c, sub, 0) /\ UNCHANGED <<orders, sub, pc, cur, todo, wire, late>>
    BY <1>2 DEF GraceEnds
  <2> QED
    BY <1>0, <2>1, DefendOpen
<1>3. CASE Defended(c)
  <2> DEFINE k == caller[c].cur
  <2>1. /\ sub' = Canceled(k) /\ Defend(c, Canceled(k), k) /\ k \in Chunks
        /\ UNCHANGED <<orders, pc, cur, todo, wire, late>>
    BY <1>3 DEF Defended, Canceled, TypeInv, CallerInv
  <2> HIDE DEF k
  <2>2. /\ Canceled(k) \in [Chunks -> SubOrder(Len(orders))]
        /\ \A j \in Chunks : Canceled(k)[j].id = sub[j].id
    BY <2>1, CanceledType DEF TypeInv
  <2> QED
    BY <2>1, <2>2, DefendOpen
<1> QED
  BY <1>1, <1>2, <1>3

LEMMA BrokerStepOpen ==
  ASSUME Answering, TypeInv, OpenInv,
         \/ BrokerPlaces \/ BrokerRefuses
         \/ \E o \in DOMAIN orders : BrokerCancels(o) \/ Opens(o) \/ Fills(o) \/ Expires(o)
  PROVE  OpenInv'
<1>0. /\ orders \in Seq(Order) /\ Len(orders) \in Nat /\ DOMAIN orders = 1..Len(orders)
      /\ wire # "none" => pc \in {"placing", "replacing", "ended"}
  BY OrderTypes DEF TypeInv, WireInv
<1>1. \A c \in Cancellers : caller[c].pc = "cleaning" =>
        sub[caller[c].cur].id \in DOMAIN orders /\ Withdrawing(sub[caller[c].cur].id)
  BY <1>0, SubTypes DEF TypeInv, TypeOK, CallerInv, OpenInv
<1>2. pc \in {"withdrawing", "cleaning"} =>
        sub[cur].id \in DOMAIN orders /\ Withdrawing(sub[cur].id)
  BY <1>0, SubTypes DEF TypeInv, TypeOK, TaskInv, OpenInv
<1>3. CASE BrokerPlaces
  <2>1. /\ UNCHANGED <<sub, task, cancelling, late, caller>>
        /\ wire = "sent" /\ wire' = "placed" /\ cur \in Chunks
        /\ orders' \in Seq(Order) /\ Len(orders') = Len(orders) + 1
        /\ \A p \in DOMAIN orders : orders'[p] = orders[p]
    BY <1>3, PlacesDoes
  <2>2. \A o \in DOMAIN orders' : o = Len(orders') \/ o \in DOMAIN orders
    BY <1>0, <2>1
  <2>3. \A o \in DOMAIN orders' : Awaited(o)' \/ o \in DOMAIN orders
    BY <2>1, <2>2 DEF Awaited
  <2>4. \A o \in DOMAIN orders' : IsOpen(o)' => o = sub'[orders'[o].chunk].id \/ Awaited(o)'
    BY <2>1, <2>3 DEF OpenInv, Awaited, IsOpen, task
  <2>5. \A o \in OrdersOf(cur)' : IsOpen(o)' => Awaited(o)'
    BY <2>1, <2>3 DEF OpenInv, Awaited, IsOpen, OrdersOf, task
  <2>6. \A c \in Cancellers : caller'[c].pc = "cleaning" => Withdrawing(sub[caller[c].cur].id)'
    BY <1>1, <2>1 DEF Withdrawing, IsOpen
  <2>7. pc' \notin {"withdrawing", "cleaning"}
    BY <1>0, <2>1 DEF task
  <2> QED
    BY <2>4, <2>5, <2>6, <2>7 DEF OpenInv
<1>4. CASE BrokerRefuses
  <2>1. wire = "sent" /\ UNCHANGED <<orders, sub, task, cancelling, late, caller>>
    BY <1>4 DEF BrokerRefuses
  <2>2. \A o : ~Awaited(o)
    BY <2>1 DEF Awaited
  <2> QED
    BY <2>1, <2>2 DEF OpenInv, OrdersOf, IsOpen, Withdrawing, task
<1>5. ASSUME NEW o \in DOMAIN orders, BrokerCancels(o) \/ Opens(o) \/ Fills(o) \/ Expires(o)
      PROVE  OpenInv'
  <2>1. /\ UNCHANGED <<sub, task, wire, late, caller>>
        /\ orders' \in Seq(Order) /\ Len(orders') = Len(orders)
        /\ \A p \in DOMAIN orders :
             /\ orders'[p].chunk = orders[p].chunk
             /\ IsOpen(p)' => IsOpen(p)
        /\ \A p \in DOMAIN orders : Withdrawing(p) => Withdrawing(p)'
    BY <1>5, BrokerDoes DEF TypeInv, Answering
  <2>2. DOMAIN orders' = DOMAIN orders
    BY <1>0, <2>1
  <2>3. /\ \A p \in DOMAIN orders' : IsOpen(p)' => p = sub'[orders'[p].chunk].id \/ Awaited(p)'
        /\ wire' # "none" => \A p \in OrdersOf(cur)' : IsOpen(p)' => Awaited(p)'
    BY <2>1, <2>2 DEF OpenInv, OrdersOf, Awaited, task
  <2>4. pc' \in {"withdrawing", "cleaning"} => Withdrawing(sub[cur].id)'
    BY <1>2, <2>1 DEF task, Withdrawing, IsOpen
  <2>5. \A c \in Cancellers : caller'[c].pc = "cleaning" => Withdrawing(sub[caller[c].cur].id)'
    BY <1>1, <2>1 DEF Withdrawing, IsOpen
  <2> QED
    BY <2>3, <2>4, <2>5 DEF OpenInv
<1> QED
  BY <1>3, <1>4, <1>5

LEMMA OpenStep == ASSUME Answering, TypeInv, OpenInv, [Next]_vars PROVE OpenInv'
<1>1. CASE DeadlinePasses \/ UNCHANGED vars
  BY <1>1, IdleStepType DEF OpenInv, OrdersOf, IsOpen, Awaited, Withdrawing
<1> QED
  BY <1>1, Steps, TaskStepOpen, CancelStepOpen, BrokerStepOpen

\* While the broker's answers arrive, no chunk has two open orders, though it is
\* withdrawn and placed again while fills, expiries and interruptions go on.
THEOREM OneOpenOrder == ASSUME Answering PROVE Spec => []OneOpenOrderPerChunk
<1>1. TypeInv /\ OpenInv => OneOpenOrderPerChunk
  <2> SUFFICES ASSUME TypeInv, OpenInv, NEW k \in Chunks
               PROVE  Cardinality({o \in OrdersOf(k) : IsOpen(o)}) <= 1
    BY DEF OneOpenOrderPerChunk, IsOpen
  <2> DEFINE S == {o \in OrdersOf(k) : IsOpen(o)}
  <2>1. \A o \in S : o \in DOMAIN orders /\ orders[o].chunk = k
    BY DEF OrdersOf
  <2>2. \E x : S \subseteq {x}
    <3>1. CASE wire = "placed" /\ cur = k
      <4>1. \A o \in S : o = Len(orders)
        BY <3>1 DEF OpenInv, Awaited
      <4> QED
        BY <4>1
    <3>2. CASE wire # "placed" \/ cur # k
      <4>1. \A o \in S : ~Awaited(o)
        BY <2>1, <3>2 DEF Awaited, TypeInv, WireInv
      <4>2. \A o \in S : o = sub[k].id
        BY <2>1, <4>1 DEF OpenInv
      <4> QED
        BY <4>2
    <3> QED
      BY <3>1, <3>2
  <2> HIDE DEF S
  <2>3. PICK x : S \subseteq {x}
    BY <2>2
  <2>4. IsFiniteSet({x}) /\ Cardinality({x}) = 1
    BY FS_Singleton
  <2>5. IsFiniteSet(S) /\ Cardinality(S) <= Cardinality({x})
    BY <2>3, <2>4, FS_Subset
  <2>6. Cardinality(S) \in Nat
    BY <2>5, FS_CardinalityType
  <2>7. Cardinality(S) <= 1
    BY <2>4, <2>5, <2>6
  <2> QED
    BY <2>7 DEF S
<1>2. TypeInv /\ OpenInv /\ [Next]_vars => TypeInv' /\ OpenInv'
  BY TypeStep, OpenStep
<1> QED
  BY <1>1, <1>2, TypeInit, OpenInit, PTL DEF Spec

-----------------------------------------------------------------------------
(* What the end of a campaign leaves open *)

\* The sub-orders s know every open order, as one that works or is queued.
Covered(s) ==
  \A o \in DOMAIN orders : IsOpen(o) =>
    s[orders[o].chunk].id = o /\ s[orders[o].chunk].status \in Open

\* The order o is dealt with, as far as it will be.
Settled(o) == IsOpen(o) => Skipped(o) \/ Awaited(o)

\* The call c has its pass over the sub-orders before it, or has reached a chunk
\* and left nothing unsettled among those before.
Passing(c) ==
  \/ caller[c].pc = "waiting"
  \/ /\ caller[c].pc = "cleaning"
     /\ \A o \in DOMAIN orders : Settled(o) \/ orders[o].chunk >= caller[c].cur

\* An open order is one that the sub-orders know to be open, or its answer has not
\* been read.  A cleanup leaves nothing unsettled among the chunks before its own;
\* a task that ends by itself leaves nothing unsettled, and for one that has been
\* interrupted somebody's pass over the sub-orders is under way or has been made.
EndInv ==
  /\ \A o \in DOMAIN orders : IsOpen(o) => Awaited(o) \/ sub[orders[o].chunk].status \in Open
  /\ pc = "cleaning" => \A o \in DOMAIN orders : Settled(o) \/ orders[o].chunk >= cur
  /\ pc = "ended" /\ cur = 0 => \A o \in DOMAIN orders : Settled(o)
  /\ pc = "ended" =>
       (\A o \in DOMAIN orders : Settled(o)) \/ \E c \in Cancellers : Passing(c)

LEMMA EndInit == Init => EndInv
BY DEF Init, EndInv

LEMMA NothingUncovered ==
  ASSUME OpenInv, EndInv, wire # "placed"
  PROVE  Covered(sub)
BY DEF OpenInv, EndInv, Awaited, Covered

LEMMA AnsweredEnd ==
  ASSUME Answering, TypeInv, OpenInv, EndInv, NEW s, Answered(s)
  PROVE  Covered(s)
<1> SUFFICES ASSUME NEW o \in DOMAIN orders, IsOpen(o)
             PROVE  s[orders[o].chunk].id = o /\ s[orders[o].chunk].status \in Open
  BY DEF Covered
<1>0. s[orders[o].chunk].id = o
  BY AnsweredOpen DEF Tracked
<1>1. orders[o].chunk \in Chunks
  BY OrderTypes DEF TypeInv
<1>2. wire # "none" /\ (wire = "placed" => orders[Len(orders)].chunk = cur)
  BY DEF Answered, TypeInv, WireInv
<1>3. CASE orders[o].chunk = cur
  <2>1. wire = "placed" /\ o = Len(orders)
    BY <1>2, <1>3 DEF OpenInv, OrdersOf, Awaited
  <2>2. s[cur].status = "WORKING"
    BY <2>1 DEF Answered, Answering
  <2> QED
    BY <1>0, <1>3, <2>2 DEF Open
<1>4. CASE orders[o].chunk # cur
  <2>1. ~Awaited(o)
    BY <1>2, <1>4 DEF Awaited
  <2>2. s[orders[o].chunk] = sub[orders[o].chunk]
    BY <1>1, <1>4 DEF Answered
  <2> QED
    BY <1>0, <2>1, <2>2 DEF EndInv
<1> QED
  BY <1>3, <1>4

\* The task goes on, or begins or continues its cleanup after chunk k.
LEMMA ResumedEnd ==
  ASSUME TypeInv, NEW s, NEW k, Resumed(s, k), Covered(s),
         \A o \in DOMAIN orders :
           IsOpen(o) => orders[o].chunk > k \/ s[orders[o].chunk].status = "QUEUED",
         sub' = s, UNCHANGED orders
  PROVE  EndInv'
<1>1. \A o \in DOMAIN orders : orders[o].chunk \in Chunks /\ o # 0
  BY OrderTypes DEF TypeInv
<1>2. ASSUME pc' \in {"cleaning", "ended"}, NEW o \in DOMAIN orders
      PROVE  Settled(o)' \/ (pc' = "cleaning" /\ orders[o].chunk >= cur')
  <2>1. CASE ~IsOpen(o)
    BY <2>1 DEF Settled, IsOpen
  <2>2. CASE IsOpen(o) /\ s[orders[o].chunk].status = "QUEUED"
    BY <2>2 DEF Settled, Skipped, Covered
  <2>3. CASE IsOpen(o) /\ s[orders[o].chunk].status # "QUEUED"
    <3>1. orders[o].chunk > k /\ Cancellable(s[orders[o].chunk])
      BY <1>1, <2>3 DEF Covered, Open, Cancellable
    <3> QED
      BY <1>1, <1>2, <3>1 DEF Resumed
  <2> QED
    BY <2>1, <2>2, <2>3
<1>3. \A o \in DOMAIN orders' : IsOpen(o)' => sub'[orders'[o].chunk].status \in Open
  BY DEF Covered, IsOpen
<1> QED
  BY <1>2, <1>3 DEF EndInv

LEMMA PlaceInitialEnd ==
  ASSUME TypeInv, NEW s \in [Chunks -> SubOrder(Len(orders))], NEW k \in Chunks,
         pc \in {"created", "placing"}, \A j \in Chunks : j >= k => s[j] = NoSub,
         PlaceInitial(s, k), UNCHANGED <<orders, late, caller>>, Covered(s)
  PROVE  EndInv'
<1>1. \A j \in Chunks : j # k => sub'[j] = s[j]
  BY PlaceInitialType
<1>2. pc' = "placing"
  BY DEF PlaceInitial, Await
<1>3. s[k].status = "absent"
  BY ChunksFact DEF NoSub
<1>4. \A o \in DOMAIN orders : IsOpen(o) => sub'[orders[o].chunk].status \in Open
  BY <1>1, <1>3, OrderTypes DEF Covered, Open, TypeInv
<1> QED
  BY <1>2, <1>4 DEF EndInv, IsOpen

\* An order whose cancellation has been answered is not open.
LEMMA CanceledEnd ==
  ASSUME Answering, TypeInv, OpenInv, NEW k \in Chunks,
         Withdrawing(sub[k].id), CancelAnswered(sub[k].id)
  PROVE  \A o \in DOMAIN orders : IsOpen(o) /\ ~Awaited(o) =>
           orders[o].chunk # k /\ Canceled(k)[orders[o].chunk] = sub[orders[o].chunk]
<1>1. ~IsOpen(sub[k].id)
  BY DEF Withdrawing, CancelAnswered, Answering
<1>2. \A o \in DOMAIN orders : IsOpen(o) /\ ~Awaited(o) => o = sub[orders[o].chunk].id
  BY DEF OpenInv
<1>3. \A j \in Chunks : j # k => Canceled(k)[j] = sub[j]
  BY CanceledType DEF TypeInv
<1> QED
  BY <1>1, <1>2, <1>3, OrderTypes DEF TypeInv

LEMMA TaskStepEnd == ASSUME Answering, TypeInv, OpenInv, EndInv, TaskStep PROVE EndInv'
<1>0. /\ sub \in [Chunks -> SubOrder(Len(orders))] /\ 1 \in Chunks
      /\ wire # "none" => pc \in {"placing", "replacing", "ended"}
      /\ \A o \in DOMAIN orders : orders[o].chunk \in Chunks /\ orders[o].chunk > 0
  <2>1. sub \in [Chunks -> SubOrder(Len(orders))] /\ 1 \in Chunks
    BY ChunksFact, OrderTypes DEF TypeInv
  <2>2. wire # "none" => pc \in {"placing", "replacing", "ended"}
    BY DEF TypeInv, WireInv
  <2>3. \A o \in DOMAIN orders : orders[o].chunk \in Chunks
    BY OrderTypes DEF TypeInv
  <2>4. \A k \in Chunks : k > 0
    BY ChunksFact
  <2> QED
    BY <2>1, <2>2, <2>3, <2>4
<1>1. CASE TaskStarts
  <2>1. \A j \in Chunks : j >= 1 => sub[j] = NoSub
    BY <1>1 DEF TaskStarts, TypeInv, TaskInv
  <2>2. pc = "created" /\ PlaceInitial(sub, 1) /\ UNCHANGED <<orders, late, caller>>
    BY <1>1 DEF TaskStarts
  <2> QED
    BY <1>0, <2>1, <2>2, NothingUncovered, PlaceInitialEnd
<1>2. CASE InitialAnswered
  <2>1. PICK s : /\ Answered(s) /\ UNCHANGED <<orders, late, caller>>
                 /\ PlacesNext(s) \/ (sub' = s /\ Resumed(s, 0))
    BY <1>2, InitialAnsweredDoes
  <2>2. /\ s \in [Chunks -> SubOrder(Len(orders))] /\ Covered(s)
        /\ pc \in {"placing", "replacing"}
    BY <2>1, AnsweredEnd DEF Answered
  <2>3. CASE PlacesNext(s)
    BY <2>1, <2>2, <2>3, PlaceInitialEnd DEF PlacesNext
  <2>4. CASE sub' = s /\ Resumed(s, 0)
    BY <1>0, <2>1, <2>2, <2>4, ResumedEnd
  <2> QED
    BY <2>1, <2>3, <2>4
<1>3. CASE Wake
  <2>1. pc = "sleeping" /\ sub' = sub /\ Resumed(sub, 0) /\ UNCHANGED <<orders, late, caller>>
    BY <1>3, WakeDoes
  <2> QED
    BY <1>0, <2>1, NothingUncovered, ResumedEnd
<1>4. CASE Polled
  <2>1. pc = "polling" /\ cur \in Chunks /\ sub[cur].id # 0 /\ UNCHANGED <<orders, late, caller>>
    BY <1>4, PolledDoes
  <2>2. PICK s \in PollAnswers(cur) : sub' = s /\ Resumed(s, 0)
    BY <1>4, PolledDoes
  <2>3. /\ \A j \in Chunks : s[j].id = sub[j].id
        /\ \A j \in Chunks : s[j] = sub[j] \/ (j = cur /\ s[j].status = orders[sub[cur].id].state)
    BY <2>1, PolledType DEF TypeInv
  <2>4. Covered(s)
    <3> SUFFICES ASSUME NEW o \in DOMAIN orders, IsOpen(o)
                 PROVE  s[orders[o].chunk].id = o /\ s[orders[o].chunk].status \in Open
      BY DEF Covered
    <3>1. o = sub[orders[o].chunk].id /\ sub[orders[o].chunk].status \in Open
      BY <1>0, <2>1, NothingUncovered DEF Covered
    <3>2. CASE orders[o].chunk = cur /\ s[cur].status = orders[sub[cur].id].state
      BY <1>0, <2>3, <3>1, <3>2 DEF IsOpen
    <3>3. CASE s[orders[o].chunk] = sub[orders[o].chunk]
      BY <3>1, <3>3
    <3> QED
      BY <1>0, <2>3, <3>2, <3>3
  <2> QED
    BY <1>0, <2>1, <2>2, <2>4, ResumedEnd
<1>5. CASE Withdrawn
  <2>1. pc = "withdrawing" /\ pc' = "replacing" /\ UNCHANGED <<orders, sub>>
    BY <1>5 DEF Withdrawn, Await
  <2>2. Covered(sub)
    BY <1>0, <2>1, NothingUncovered
  <2> QED
    BY <2>1, <2>2 DEF EndInv, IsOpen, Covered
<1>6. CASE Replaced
  <2>1. PICK s : Answered(s) /\ sub' = s /\ Resumed(s, 0) /\ UNCHANGED <<orders, late, caller>>
    BY <1>6, ReplacedDoes
  <2> QED
    BY <1>0, <2>1, AnsweredEnd, ResumedEnd
<1>7. CASE Cleaned
  <2>1. /\ UNCHANGED <<orders, late, caller>> /\ pc = "cleaning" /\ cur \in Chunks
        /\ CancelAnswered(sub[cur].id)
        /\ sub' = Canceled(cur) /\ Resumed(Canceled(cur), cur)
    BY <1>7, CleanedDoes
  <2>2. wire = "none" /\ Withdrawing(sub[cur].id)
    BY <1>0, <2>1 DEF OpenInv
  <2>3. ASSUME NEW o \in DOMAIN orders, IsOpen(o)
        PROVE  /\ Canceled(cur)[orders[o].chunk].id = o
               /\ Canceled(cur)[orders[o].chunk].status \in Open
               /\ \/ orders[o].chunk > cur
                  \/ Canceled(cur)[orders[o].chunk].status = "QUEUED"
    <3>1. ~Awaited(o)
      BY <2>2 DEF Awaited
    <3>2. orders[o].chunk # cur /\ Canceled(cur)[orders[o].chunk] = sub[orders[o].chunk]
      BY <2>1, <2>2, <2>3, <3>1, CanceledEnd
    <3>3. sub[orders[o].chunk].id = o /\ sub[orders[o].chunk].status \in Open
      BY <2>3, <3>1 DEF OpenInv, EndInv
    <3>4. sub[orders[o].chunk].status = "QUEUED" \/ orders[o].chunk >= cur
      BY <2>1, <2>3, <3>1 DEF EndInv, Settled, Skipped
    <3>5. orders[o].chunk \in Nat /\ cur \in Nat
      BY <1>0, <2>1, ChunksFact
    <3> QED
      BY <3>2, <3>3, <3>4, <3>5
  <2>4. Covered(Canceled(cur))
    BY <2>3 DEF Covered
  <2> QED
    BY <2>1, <2>3, <2>4, ResumedEnd
<1> QED
  BY <1>1, <1>2, <1>3, <1>4, <1>5, <1>6, <1>7 DEF TaskStep

\* The pass of the call c goes on after chunk k, which leaves no order of that
\* chunk unsettled, and changes nothing of the others.
LEMMA DefendEnd ==
  ASSUME TypeInv, OpenInv, EndInv, NEW c \in Cancellers, NEW k \in Nat,
         NEW s \in [Chunks -> SubOrder(Len(orders))],
         \A o \in DOMAIN orders : IsOpen(o) /\ ~Awaited(o) =>
           orders[o].chunk # k /\ s[orders[o].chunk] = sub[orders[o].chunk],
         k = 0 \/ (caller[c].pc = "cleaning" /\ caller[c].cur = k),
         Defend(c, s, k), sub' = s, UNCHANGED <<orders, pc, cur, wire>>
  PROVE  EndInv'
<1>1. /\ \A d \in Cancellers : d # c => caller'[d] = caller[d]
      /\ \A j \in Chunks : j > k /\ Cancellable(s[j]) =>
           caller'[c].pc = "cleaning" /\ j >= caller'[c].cur
  BY DefendDoes DEF TypeInv
<1>2. \A o \in DOMAIN orders : orders[o].chunk \in Chunks /\ orders[o].chunk \in Nat /\ o # 0
  <2>1. \A o \in DOMAIN orders : orders[o].chunk \in Chunks /\ o # 0
    BY OrderTypes DEF TypeInv
  <2>2. Chunks \subseteq Nat
    BY ChunksFact
  <2> QED
    BY <2>1, <2>2
<1>3. \A o \in DOMAIN orders : Settled(o) => Settled(o)'
  BY DEF Settled, Skipped, Awaited, IsOpen
<1>4. ASSUME NEW o \in DOMAIN orders, orders[o].chunk > k
      PROVE  Settled(o)' \/ (caller'[c].pc = "cleaning" /\ orders[o].chunk >= caller'[c].cur)
  <2>1. CASE Settled(o)
    BY <1>3, <2>1
  <2>2. CASE ~Settled(o)
    <3>1. IsOpen(o) /\ ~Awaited(o) /\ ~Skipped(o)
      BY <2>2 DEF Settled
    <3>2. s[orders[o].chunk] = sub[orders[o].chunk]
      BY <3>1
    <3>3. sub[orders[o].chunk].id = o /\ sub[orders[o].chunk].status = "WORKING"
      BY <3>1 DEF OpenInv, EndInv, Skipped, Open
    <3> QED
      BY <1>1, <1>2, <1>4, <3>2, <3>3 DEF Cancellable
  <2> QED
    BY <2>1, <2>2
<1>5. ASSUME \A o \in DOMAIN orders : Settled(o) \/ orders[o].chunk >= k
      PROVE  (\A o \in DOMAIN orders : Settled(o)') \/ Passing(c)'
  <2>1. ASSUME NEW o \in DOMAIN orders, ~Settled(o)
        PROVE  orders[o].chunk > k
    <3>1. IsOpen(o) /\ ~Awaited(o)
      BY <2>1 DEF Settled
    <3>2. orders[o].chunk # k /\ orders[o].chunk >= k
      BY <1>5, <2>1, <3>1
    <3> QED
      BY <1>2, <3>2
  <2>2. \A o \in DOMAIN orders :
          Settled(o)' \/ (caller'[c].pc = "cleaning" /\ orders[o].chunk >= caller'[c].cur)
    BY <1>3, <1>4, <2>1
  <2> QED
    BY <2>2 DEF Passing
<1>6. \A o \in DOMAIN orders' :
        IsOpen(o)' => Awaited(o)' \/ sub'[orders'[o].chunk].status \in Open
  BY DEF EndInv, IsOpen, Awaited
<1>7. ASSUME pc = "ended"
      PROVE  (\A o \in DOMAIN orders : Settled(o)') \/ \E d \in Cancellers : Passing(d)'
  <2>1. CASE \A o \in DOMAIN orders : Settled(o)
    BY <1>3, <2>1
  <2>2. ASSUME NEW d \in Cancellers, Passing(d), d # c
        PROVE  Passing(d)'
    BY <1>1, <1>3, <2>2 DEF Passing
  <2>3. CASE Passing(c)
    <3>1. \A o \in DOMAIN orders : Settled(o) \/ orders[o].chunk >= k
      BY <1>2, <2>3 DEF Passing
    <3> QED
      BY <1>5, <3>1
  <2> QED
    BY <1>7, <2>1, <2>2, <2>3 DEF EndInv
<1> QED
  BY <1>3, <1>6, <1>7 DEF EndInv

LEMMA CancelStepEnd ==
  ASSUME Answering, TypeInv, OpenInv, EndInv, NEW c \in Cancellers,
         CancelFishing(c) \/ GraceEnds(c) \/ Defended(c)
  PROVE  EndInv'
<1>0. /\ wire # "none" => pc \in {"placing", "replacing", "ended"}
      /\ sub \in [Chunks -> SubOrder(Len(orders))]
  BY OrderTypes DEF TypeInv, WireInv
<1>1. CASE CancelFishing(c)
  <2>1. UNCHANGED <<orders, sub, late>>
    BY <1>1, InterruptDoes
  <2>2. CASE Resumed(sub, 0) /\ pc = "sleeping"
    <3>1. \A o \in DOMAIN orders : orders[o].chunk > 0
      BY ChunksFact, OrderTypes DEF TypeInv
    <3> QED
      BY <1>0, <2>1, <2>2, <3>1, NothingUncovered, ResumedEnd
  <2>3. CASE /\ pc' = "ended" /\ cur' = cur /\ pc # "sleeping"
             /\ UNCHANGED <<wire, cancelling>>
    <3>1. caller'[c].pc = "waiting"
      BY <1>1 DEF CancelFishing, TypeInv, TypeOK
    <3>2. Passing(c)'
      BY <3>1 DEF Passing
    <3>3. \A o \in DOMAIN orders : Settled(o) => Settled(o)'
      BY <2>1, <2>3 DEF Settled, Skipped, Awaited, IsOpen
    <3>4. cur = 0 => \A o \in DOMAIN orders : Settled(o)
      <4>1. CASE pc = "created"
        <5>1. wire # "placed" /\ \A o \in DOMAIN orders : sub[orders[o].chunk] = NoSub
          BY <1>0, <4>1, OrderTypes DEF TypeInv, TaskInv
        <5>2. \A o \in DOMAIN orders : ~IsOpen(o)
          BY <5>1, NothingUncovered DEF Covered, NoSub, Open
        <5> QED
          BY <5>2 DEF Settled
      <4>2. CASE pc = "ended"
        BY <4>2 DEF EndInv
      <4>3. CASE pc \notin {"created", "ended"}
        BY <2>3, <4>3, ChunksFact DEF TypeInv, TaskInv
      <4> QED
        BY <4>1, <4>2, <4>3
    <3>5. \A o \in DOMAIN orders' :
            IsOpen(o)' => Awaited(o)' \/ sub'[orders'[o].chunk].status \in Open
      BY <2>1, <2>3 DEF EndInv, IsOpen, Awaited
    <3> QED
      BY <2>1, <2>3, <3>2, <3>3, <3>4, <3>5 DEF EndInv
  <2> QED
    BY <1>1, <2>2, <2>3, InterruptDoes
<1>2. CASE GraceEnds(c)
  <2>1. Defend(c, sub, 0) /\ UNCHANGED <<orders, sub, pc, cur, todo, wire, late>>
    BY <1>2 DEF GraceEnds
  <2>2. \A o \in DOMAIN orders : orders[o].chunk # 0
    BY OrderTypes, ChunksFact DEF TypeInv
  <2>3. 0 \in Nat
    OBVIOUS
  <2> QED
    BY <1>0, <2>1, <2>2, <2>3, DefendEnd
<1>3. CASE Defended(c)
  <2> DEFINE k == caller[c].cur
  <2>1. /\ sub' = Canceled(k) /\ CancelAnswered(sub[k].id) /\ k \in Chunks /\ k \in Nat
        /\ Withdrawing(sub[k].id) /\ Defend(c, Canceled(k), k) /\ caller[c].pc = "cleaning"
        /\ UNCHANGED <<orders, pc, cur, todo, wire, late>>
    BY <1>3, ChunksFact DEF Defended, Canceled, TypeInv, CallerInv, OpenInv
  <2>2. Canceled(k) \in [Chunks -> SubOrder(Len(orders))]
    BY <2>1, CanceledType DEF TypeInv
  <2>3. \A o \in DOMAIN orders : IsOpen(o) /\ ~Awaited(o) =>
          orders[o].chunk # k /\ Canceled(k)[orders[o].chunk] = sub[orders[o].chunk]
    BY <2>1, CanceledEnd
  <2> QED
    BY <2>1, <2>2, <2>3, DefendEnd
<1> QED
  BY <1>1, <1>2, <1>3

LEMMA BrokerStepEnd ==
  ASSUME TypeInv, EndInv,
         \/ BrokerPlaces \/ BrokerRefuses
         \/ \E o \in DOMAIN orders : BrokerCancels(o) \/ Opens(o) \/ Fills(o) \/ Expires(o)
  PROVE  EndInv'
<1>0. /\ orders \in Seq(Order) /\ Len(orders) \in Nat /\ DOMAIN orders = 1..Len(orders)
      /\ wire # "none" => pc # "cleaning" /\ cur # 0
  BY OrderTypes, ChunksFact DEF TypeInv, WireInv
<1>1. ASSUME UNCHANGED <<sub, pc, cur, caller>>,
             \A o \in DOMAIN orders' : Awaited(o)' \/ o \in DOMAIN orders,
             \A o \in DOMAIN orders :
               /\ orders'[o].chunk = orders[o].chunk
               /\ IsOpen(o)' => IsOpen(o)
               /\ Awaited(o) => Awaited(o)' \/ ~IsOpen(o)'
      PROVE  EndInv'
  <2>1. \A o \in DOMAIN orders : Settled(o) => Settled(o)'
    BY <1>1 DEF Settled, Skipped
  <2>2. \A o \in DOMAIN orders' : Settled(o)' \/ o \in DOMAIN orders
    BY <1>1 DEF Settled
  <2>3. \A o \in DOMAIN orders' :
          IsOpen(o)' => Awaited(o)' \/ sub'[orders'[o].chunk].status \in Open
    BY <1>1 DEF EndInv
  <2>4. \A c \in Cancellers : Passing(c) => Passing(c)'
    BY <1>1, <2>1, <2>2 DEF Passing
  <2>5. (\A o \in DOMAIN orders : Settled(o)) => \A o \in DOMAIN orders' : Settled(o)'
    BY <2>1, <2>2
  <2>6. pc = "cleaning" => \A o \in DOMAIN orders' : Settled(o)' \/ orders'[o].chunk >= cur
    BY <1>1, <2>1, <2>2 DEF EndInv
  <2> QED
    BY <1>1, <2>3, <2>4, <2>5, <2>6 DEF EndInv
<1>2. CASE BrokerPlaces
  <2>1. /\ UNCHANGED <<sub, task, cancelling, late, caller>>
        /\ wire = "sent" /\ wire' = "placed"
        /\ orders' \in Seq(Order) /\ Len(orders') = Len(orders) + 1
        /\ \A p \in DOMAIN orders : orders'[p] = orders[p]
    BY <1>2, PlacesDoes
  <2>2. \A o \in DOMAIN orders' : Awaited(o)' \/ o \in DOMAIN orders
    BY <1>0, <2>1 DEF Awaited
  <2> QED
    BY <1>1, <2>1, <2>2 DEF task, IsOpen, Awaited
<1>3. CASE BrokerRefuses
  <2>1. wire = "sent" /\ UNCHANGED <<orders, sub, task, cancelling, late, caller>>
    BY <1>3 DEF BrokerRefuses
  <2> QED
    BY <1>1, <2>1 DEF task, IsOpen, Awaited
<1>4. ASSUME NEW o \in DOMAIN orders, BrokerCancels(o) \/ Opens(o) \/ Fills(o) \/ Expires(o)
      PROVE  EndInv'
  <2>1. /\ UNCHANGED <<sub, task, wire, late, caller>>
        /\ orders' \in Seq(Order) /\ Len(orders') = Len(orders)
        /\ \A p \in DOMAIN orders :
             orders'[p].chunk = orders[p].chunk /\ (IsOpen(p)' => IsOpen(p))
    BY <1>4, BrokerDoes DEF TypeInv
  <2>2. DOMAIN orders' = DOMAIN orders
    BY <1>0, <2>1
  <2> QED
    BY <1>1, <2>1, <2>2 DEF Awaited, task
<1> QED
  BY <1>2, <1>3, <1>4

LEMMA EndStep == ASSUME Answering, TypeInv, OpenInv, EndInv, [Next]_vars PROVE EndInv'
<1>1. CASE DeadlinePasses \/ UNCHANGED vars
  BY <1>1, IdleStepType DEF EndInv, Settled, Skipped, Passing, IsOpen, Awaited
<1> QED
  BY <1>1, Steps, TaskStepEnd, CancelStepEnd, BrokerStepEnd

\* While the broker's answers arrive, a campaign that has ended, by itself, by its
\* deadline, or by cancel_fishing in the middle of a request, leaves no order open
\* but one last seen queued and one whose place request was cut off, though the
\* passes of the callers run beside the cleanup of the task and of one another.
THEOREM EndIsAccountedFor == ASSUME Answering PROVE Spec => []EndAccountsForOrders
<1>1. EndInv => EndAccountsForOrders
  <2> SUFFICES ASSUME EndInv, CleanupsOver PROVE \A o \in DOMAIN orders : Settled(o)
    BY DEF EndAccountsForOrders, Settled, IsOpen, Awaited, CutOff
  <2>1. CASE cur = 0
    BY <2>1 DEF EndInv, CleanupsOver
  <2>2. CASE cur # 0
    <3>1. \A c \in Cancellers : ~Passing(c)
      BY <2>2 DEF CleanupsOver, Passing
    <3> QED
      BY <3>1 DEF EndInv, CleanupsOver
  <2> QED
    BY <2>1, <2>2
<1>2. TypeInv /\ OpenInv /\ EndInv /\ [Next]_vars => TypeInv' /\ OpenInv' /\ EndInv'
  BY TypeStep, OpenStep, EndStep
<1> QED
  BY <1>1, <1>2, TypeInit, OpenInit, EndInit, PTL DEF Spec
=============================================================================
