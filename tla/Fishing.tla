------------------------------ MODULE Fishing ------------------------------
(***************************************************************************)
(* One fishing campaign (tools/fishing.py): its background task, the       *)
(* cancel_fishing calls that terminate it, and the broker that fills,      *)
(* cancels and expires its child orders meanwhile.  Every task action is   *)
(* the code between two suspension points.  Prices are abstracted to       *)
(* whether a chunk has reached range_end, random choices are free.         *)
(***************************************************************************)
EXTENDS Naturals, FiniteSets, Sequences, FiniteSetsExt, Functions

CONSTANTS
  ChunkSizes,   \* campaign.chunks
  Cancellers,   \* the cancel_fishing calls
  MaxOrders,    \* bound on the child orders; beyond it the broker refuses
  Faults        \* which of the misfortunes below may happen

\* Refused or unanswered requests, an accepted order without a usable id, a
\* task cancelled in the middle of a request, an order the exchange queues
\* before it works, an order that ends by itself.
Misfortunes == {"refusal", "lostCancel", "lostAnswer", "lostId", "interrupt",
                "queued", "expiry"}

ASSUME FishingAssumption ==
  /\ ChunkSizes \in Seq(Nat \ {0})
  /\ ChunkSizes # <<>>
  /\ MaxOrders \in Nat
  /\ Faults \subseteq Misfortunes

VARIABLES
  orders,      \* the child orders at the broker, in the order of their ids
  sub,         \* sub[k]: the _SubOrder of chunk k
  status,      \* campaign.status
  event,       \* what last_event says of the end: "none", "filled", ...
  pc,          \* where the task is suspended
  cur,         \* the chunk of the request the task awaits, or 0
  todo,        \* chunks the task still has to poll or to move this cycle
  wire,        \* place request: "none", "sent", "placed" or "refused"
  cancelling,  \* ids with a cancel request in flight
  late,        \* the deadline of the campaign has passed
  caller       \* caller[c]: progress of a cancel_fishing call

broker == <<orders, wire, cancelling>>
task == <<pc, cur, todo, status, event>>
vars == <<orders, sub, status, event, pc, cur, todo, wire, cancelling, late, caller>>

Chunks == DOMAIN ChunkSizes

Open == {"QUEUED", "WORKING"}   \* QUEUED: any open status but WORKING
\* _SubOrder.is_terminal
TerminalStatus == {"FILLED", "CANCELED", "EXPIRED"}   \* EXPIRED: or REJECTED
Terminal(x) == x.status \in TerminalStatus
\* is_working() and a known order id, what both cleanups look for
Cancellable(x) == x.status = "WORKING" /\ x.id # 0

NoSub == [id |-> 0, status |-> "absent", filled |-> 0, atEnd |-> FALSE]
Subs(s) == {k \in Chunks : s[k].status # "absent"}
Quantity == SumFunction(ChunkSizes)

Order == [chunk : Chunks, filled : Nat, state : Open \cup TerminalStatus]
\* the sub-orders there can be when the broker has n orders
SubOrder(n) == [id : 0..n, filled : Nat, atEnd : BOOLEAN,
                status : Open \cup TerminalStatus \cup {"absent", "PENDING", "FAILED"}]

TypeOK ==
  /\ orders \in Seq(Order)
  /\ Len(orders) <= MaxOrders
  /\ sub \in [Chunks -> SubOrder(Len(orders))]
  /\ status \in {"RUNNING", "FILLED", "CANCELED", "EXHAUSTED"}
  /\ event \in {"none", "filled", "partial", "nofills"}
  /\ pc \in {"created", "placing", "sleeping", "polling", "withdrawing",
             "replacing", "cleaning", "ended"}
  /\ cur \in Chunks \cup {0}
  /\ todo \subseteq Chunks
  /\ wire \in {"none", "sent", "placed", "refused"}
  /\ cancelling \subseteq 1..Len(orders)
  /\ late \in BOOLEAN
  /\ caller \in [Cancellers -> [pc : {"idle", "waiting", "cleaning", "returned"},
                                cur : Chunks \cup {0}]]

Init ==
  /\ orders = <<>>
  /\ sub = [k \in Chunks |-> NoSub]
  /\ status = "RUNNING"
  /\ event = "none"
  /\ pc = "created"
  /\ cur = 0
  /\ todo = {}
  /\ wire = "none"
  /\ cancelling = {}
  /\ late = FALSE
  /\ caller = [c \in Cancellers |-> [pc |-> "idle", cur |-> 0]]

-----------------------------------------------------------------------------
(* Continuations of the task: each takes the sub-orders as the current step *)
(* leaves them, s, and runs the code up to the next suspension.             *)

Await(where, k, rest) == pc' = where /\ cur' = k /\ todo' = rest

SendPlace == wire' = "sent" /\ UNCHANGED cancelling
SendCancel(id) == cancelling' = cancelling \cup {id} /\ wire' = "none"
SendNothing == wire' = "none" /\ UNCHANGED cancelling

\* _cleanup_open_orders from the chunk after k on.
Cleanup(s, k) ==
  LET rest == {j \in Subs(s) : j > k /\ Cancellable(s[j])} IN
  IF rest = {} THEN Await("ended", 0, {}) /\ SendNothing
  ELSE Await("cleaning", Min(rest), {}) /\ SendCancel(s[Min(rest)].id)

\* Fault: the loop has no cap.
Loop_NoCap(s) ==
  /\ Await("sleeping", 0, {})
  /\ SendNothing
  /\ UNCHANGED <<status, event>>

\* The head of the campaign loop: the four-hour cap, or sleep.
Loop(s) ==
  IF late
  THEN /\ status' = "EXHAUSTED"
       /\ event' = "none"
       /\ Cleanup(s, 0)
  ELSE /\ Await("sleeping", 0, {})
       /\ SendNothing
       /\ UNCHANGED <<status, event>>

\* Fault: a chunk is placed again without withdrawing its order.
Adjust_NoCancel(s, moving) ==
  IF moving = {} THEN Loop(s)
  ELSE /\ \E k \in moving : Await("replacing", k, moving \ {k}) /\ SendPlace
       /\ UNCHANGED <<status, event>>

\* The next chunk whose price moves: withdraw its order, if it has one, ...
Adjust(s, moving) ==
  IF moving = {} THEN Loop(s)
  ELSE /\ \E k \in moving :
            IF s[k].id # 0
            THEN Await("withdrawing", k, moving \ {k}) /\ SendCancel(s[k].id)
            ELSE Await("replacing", k, moving \ {k}) /\ SendPlace
       /\ UNCHANGED <<status, event>>

Total(s) == SumFunction([k \in Subs(s) |-> s[k].filled])

Stop(s, st, ev) == status' = st /\ event' = ev /\ Cleanup(s, 0)

\* Fault: one filled chunk counts as the whole campaign.
Evaluate_AnyFilled(s) ==
  LET live == {k \in Subs(s) : ~Terminal(s[k])} IN
  IF live = {}
  THEN IF \E k \in Subs(s) : s[k].status = "FILLED"
       THEN Stop(s, "FILLED", "filled")
       ELSE Stop(s, "EXHAUSTED", "nofills")
  ELSE IF \A k \in live : s[k].atEnd
  THEN Stop(s, "EXHAUSTED", "none")
  ELSE \E moving \in SUBSET {k \in live : ~s[k].atEnd} : Adjust(s, moving)

\* Fault: finished chunks are picked for adjustment too.
Evaluate_AdjustsAll(s) ==
  LET live == {k \in Subs(s) : ~Terminal(s[k])} IN
  IF live = {}
  THEN Stop(s, "EXHAUSTED", "nofills")
  ELSE \E moving \in SUBSET {k \in Subs(s) : ~s[k].atEnd} : Adjust(s, moving)

\* After polling: _check_terminal, then the choice _adjust_subs makes.  Any
\* selection of live chunks may move; a chunk whose price does not change
\* (a paused walk, a chunk at range_end) is skipped.
Evaluate(s) ==
  LET live == {k \in Subs(s) : ~Terminal(s[k])} IN
  IF live = {}
  THEN IF Total(s) >= Quantity THEN Stop(s, "FILLED", "filled")
       ELSE IF \E k \in Subs(s) : s[k].status = "FILLED"
       THEN Stop(s, "FILLED", "partial")
       ELSE Stop(s, "EXHAUSTED", "nofills")
  ELSE IF \A k \in live : s[k].atEnd
  THEN Stop(s, "EXHAUSTED", "none")
  ELSE \E moving \in SUBSET {k \in live : ~s[k].atEnd} : Adjust(s, moving)

\* The next order _poll_sub_statuses has to ask for.
Poll(s, rest) ==
  IF rest = {} THEN Evaluate(s)
  ELSE /\ Await("polling", Min(rest), rest \ {Min(rest)})
       /\ SendNothing
       /\ UNCHANGED <<status, event>>

-----------------------------------------------------------------------------
(* The campaign task *)

\* The states of sub an answer to the place request for chunk k can lead to:
\* the id, an answer without a usable id, or an exception, which leaves the
\* id and the price alone.  ends holds what the price may have become.
Answers(k, ends) ==
  LET set(id, st, e) == [sub EXCEPT ![k] = [@ EXCEPT !.id = id, !.status = st, !.atEnd = e]]
      placed == wire = "placed"
      failed == wire = "refused" \/ (placed /\ "lostAnswer" \in Faults)
  IN {set(Len(orders), "WORKING", e) : e \in {x \in ends : placed}}
       \cup {set(0, "FAILED", e) : e \in {x \in ends : placed /\ "lostId" \in Faults}}
       \cup {set(sub[k].id, "FAILED", e) : e \in {x \in {sub[k].atEnd} : failed}}

\* Append the sub-order of chunk k (its initial price may be range_end) and
\* place its order.
PlaceInitial(s, k) ==
  /\ \E e \in BOOLEAN :
       sub' = [s EXCEPT ![k] = [NoSub EXCEPT !.status = "PENDING", !.atEnd = e]]
  /\ Await("placing", k, {})
  /\ SendPlace
  /\ UNCHANGED <<status, event>>

TaskStarts ==
  /\ pc = "created"
  /\ PlaceInitial(sub, 1)
  /\ UNCHANGED <<orders, late, caller>>

InitialAnswered ==
  /\ pc = "placing"
  /\ \E s \in Answers(cur, {sub[cur].atEnd}) :
       IF cur + 1 \in Chunks THEN PlaceInitial(s, cur + 1)
       ELSE sub' = s /\ Loop(s)
  /\ UNCHANGED <<orders, late, caller>>

\* The sleep is over: poll every chunk that is not terminal and has an order.
Wake ==
  /\ pc = "sleeping"
  /\ sub' = sub
  /\ Poll(sub, {k \in Subs(sub) : ~Terminal(sub[k]) /\ sub[k].id # 0})
  /\ UNCHANGED <<orders, late, caller>>

\* Fault: cumulative fills are added up poll by poll.
Polled_Accumulates ==
  /\ pc = "polling"
  /\ \E s \in {[sub EXCEPT ![cur].status = orders[sub[cur].id].state,
                           ![cur].filled = @ + orders[sub[cur].id].filled]} :
       sub' = s /\ Poll(s, todo)
  /\ UNCHANGED <<orders, late, caller>>

\* get_order answers with the order's state, or fails and the chunk is skipped.
Polled ==
  /\ pc = "polling"
  /\ \E s \in {[sub EXCEPT ![cur].status = orders[sub[cur].id].state,
                           ![cur].filled = orders[sub[cur].id].filled]}
              \cup (IF "lostAnswer" \in Faults THEN {sub} ELSE {}) :
       sub' = s /\ Poll(s, todo)
  /\ UNCHANGED <<orders, late, caller>>

\* _direct_cancel has returned: the broker has acted, or the request failed and
\* the exception is swallowed.
CancelAnswered(id) == id \notin cancelling \/ "lostCancel" \in Faults

\* ... then place the chunk again, with its full quantity.
Withdrawn ==
  /\ pc = "withdrawing"
  /\ CancelAnswered(sub[cur].id)
  /\ Await("replacing", cur, todo)
  /\ SendPlace
  /\ UNCHANGED <<orders, sub, status, event, late, caller>>

Replaced ==
  /\ pc = "replacing"
  /\ \E s \in Answers(cur, BOOLEAN) : sub' = s /\ Adjust(s, todo)
  /\ UNCHANGED <<orders, late, caller>>

\* Fault: the cleanup gives up after the first order.
Cleaned_Once ==
  /\ pc = "cleaning"
  /\ CancelAnswered(sub[cur].id)
  /\ sub' = [sub EXCEPT ![cur].status = "CANCELED"]
  /\ Await("ended", 0, {})
  /\ UNCHANGED <<orders, wire, cancelling, status, event, late, caller>>

\* Fault: a status the rest of the code does not know.
Cleaned_Misspelt ==
  /\ pc = "cleaning"
  /\ CancelAnswered(sub[cur].id)
  /\ LET s == [sub EXCEPT ![cur].status = "CANCELLED"] IN
       sub' = s /\ Cleanup(s, cur)
  /\ UNCHANGED <<orders, status, event, late, caller>>

\* One order of the cleanup is dealt with; it counts as canceled regardless.
Cleaned ==
  /\ pc = "cleaning"
  /\ CancelAnswered(sub[cur].id)
  /\ LET s == [sub EXCEPT ![cur].status = "CANCELED"] IN
       sub' = s /\ Cleanup(s, cur)
  /\ UNCHANGED <<orders, status, event, late, caller>>

\* _MAX_CAMPAIGN_SECONDS have passed.
DeadlinePasses ==
  /\ ~late
  /\ late' = TRUE
  /\ UNCHANGED <<broker, sub, task, caller>>

-----------------------------------------------------------------------------
(* cancel_fishing *)

\* task.cancel(): asleep, the task notes it and cleans up; in the middle of a
\* request CancelledError is no Exception and ends the task on the spot, with
\* the request on the wire.
Interrupt ==
  IF pc = "sleeping"
  THEN /\ status' = "CANCELED"
       /\ event' = "none"
       /\ Cleanup(sub, 0)
  ELSE /\ pc \in {"created", "ended"} \/ "interrupt" \in Faults
       /\ Await("ended", cur, {})
       /\ UNCHANGED <<status, event, wire, cancelling>>

CancelFishing(c) ==
  /\ caller[c].pc = "idle"
  /\ caller' = [caller EXCEPT ![c].pc = "waiting"]
  /\ Interrupt
  /\ UNCHANGED <<orders, sub, late>>

\* The defensive pass over the sub-orders after chunk k, then the answer.
Defend(c, s, k) ==
  LET rest == {j \in Subs(s) : j > k /\ Cancellable(s[j])} IN
  IF rest # {}
  THEN /\ caller' = [caller EXCEPT ![c] = [pc |-> "cleaning", cur |-> Min(rest)]]
       /\ cancelling' = cancelling \cup {s[Min(rest)].id}
       /\ UNCHANGED <<status, event>>
  ELSE /\ caller' = [caller EXCEPT ![c] = [pc |-> "returned", cur |-> 0]]
       /\ IF status = "RUNNING"
          THEN status' = "CANCELED" /\ event' = "none"
          ELSE UNCHANGED <<status, event>>
       /\ UNCHANGED cancelling

\* The task has ended, or the grace period of ten seconds has.
GraceEnds(c) ==
  /\ caller[c].pc = "waiting"
  /\ Defend(c, sub, 0)
  /\ UNCHANGED <<orders, sub, pc, cur, todo, wire, late>>

\* Fault: the pass starts over and does not mark what it has canceled.
Defended_StartsOver(c) ==
  /\ caller[c].pc = "cleaning"
  /\ CancelAnswered(sub[caller[c].cur].id)
  /\ Defend(c, sub, 0)
  /\ UNCHANGED <<orders, sub, pc, cur, todo, wire, late>>

Defended(c) ==
  /\ caller[c].pc = "cleaning"
  /\ CancelAnswered(sub[caller[c].cur].id)
  /\ LET s == [sub EXCEPT ![caller[c].cur].status = "CANCELED"] IN
       sub' = s /\ Defend(c, s, caller[c].cur)
  /\ UNCHANGED <<orders, pc, cur, todo, wire, late>>

-----------------------------------------------------------------------------
(* The broker (external) *)

BrokerPlaces ==
  /\ wire = "sent"
  /\ Len(orders) < MaxOrders
  /\ wire' = "placed"
  /\ \E st \in {"WORKING"} \cup (IF "queued" \in Faults THEN {"QUEUED"} ELSE {}) :
       orders' = Append(orders, [chunk |-> cur, filled |-> 0, state |-> st])
  /\ UNCHANGED <<sub, task, cancelling, late, caller>>

BrokerRefuses ==
  /\ wire = "sent"
  /\ "refusal" \in Faults \/ Len(orders) = MaxOrders
  /\ wire' = "refused"
  /\ UNCHANGED <<orders, sub, task, cancelling, late, caller>>

\* A cancel request arrives; it does nothing to an order that is not open.
BrokerCancels(o) ==
  /\ o \in cancelling
  /\ cancelling' = cancelling \ {o}
  /\ \/ orders' = [orders EXCEPT ![o].state = IF @ \in Open THEN "CANCELED" ELSE @]
     \/ "lostCancel" \in Faults /\ UNCHANGED orders
  /\ UNCHANGED <<sub, task, wire, late, caller>>

\* The exchange starts working an order, fills one contract, or ends it.
Opens(o) ==
  /\ orders[o].state = "QUEUED"
  /\ orders' = [orders EXCEPT ![o].state = "WORKING"]
  /\ UNCHANGED <<sub, task, wire, cancelling, late, caller>>

Fills(o) ==
  /\ orders[o].state = "WORKING"
  /\ orders' = [orders EXCEPT ![o].filled = @ + 1,
                              ![o].state = IF orders[o].filled + 1 = ChunkSizes[orders[o].chunk]
                                           THEN "FILLED" ELSE @]
  /\ UNCHANGED <<sub, task, wire, cancelling, late, caller>>

Expires(o) ==
  /\ "expiry" \in Faults
  /\ orders[o].state \in Open
  /\ orders' = [orders EXCEPT ![o].state = "EXPIRED"]
  /\ UNCHANGED <<sub, task, wire, cancelling, late, caller>>

-----------------------------------------------------------------------------
TaskStep ==
  \/ TaskStarts \/ InitialAnswered \/ Wake \/ Polled
  \/ Withdrawn \/ Replaced \/ Cleaned

BrokerAnswers ==
  \/ BrokerPlaces \/ BrokerRefuses
  \/ \E o \in DOMAIN orders : BrokerCancels(o)

Next ==
  \/ TaskStep \/ DeadlinePasses
  \/ \E c \in Cancellers : CancelFishing(c) \/ GraceEnds(c) \/ Defended(c)
  \/ BrokerAnswers
  \/ \E o \in DOMAIN orders : Opens(o) \/ Fills(o) \/ Expires(o)

Spec == Init /\ [][Next]_vars

\* The event loop runs what can run, the broker answers every request (the
\* HTTP client's timeout sees to it), time passes.
FairSpec ==
  /\ Spec
  /\ WF_vars(TaskStep)
  /\ WF_vars(DeadlinePasses)
  /\ WF_vars(BrokerAnswers)
  /\ \A c \in Cancellers : WF_vars(GraceEnds(c) \/ Defended(c))

-----------------------------------------------------------------------------
(* Properties *)

OrdersOf(k) == {o \in DOMAIN orders : orders[o].chunk = k}
FilledOf(S) == SumFunction([o \in S |-> orders[o].filled])

\* The fills a campaign reports for a chunk were really made: bookkeeping that
\* survives replaced, refused and expired orders never counts a fill twice.
NeverOverreports ==
  \A k \in Chunks : sub[k].filled <= FilledOf(OrdersOf(k))

\* "all chunks filled" is only said when the broker has filled the quantity.  The
\* status FILLED without it (_check_terminal also sets it on a partial fill) is
\* only given when at least one order was filled completely.
FilledMeansFilled ==
  /\ event = "filled" => FilledOf(DOMAIN orders) >= Quantity
  /\ status = "FILLED" /\ event # "filled" =>
       \E o \in DOMAIN orders : orders[o].state = "FILLED"

\* A finished chunk is never placed again (_select_subs_to_adjust), although
\* the selection is made before the requests of the cycle and used after them.
FinishedStaysFinished ==
  [][\A k \in Chunks : Terminal(sub[k]) => sub'[k].id = sub[k].id]_vars

\* Unless the broker loses a request or an answer, a chunk never has two open
\* orders, however fills, expiries, cancellations and an interruption of the task
\* interleave with the cycle.
OneOpenOrderPerChunk ==
  \A k \in Chunks : Cardinality({o \in OrdersOf(k) : orders[o].state \in Open}) <= 1

\* What the end of a campaign leaves open, unless the broker loses a request or
\* an answer: an order last polled as queued, which both cleanups skip because
\* they look for is_working(), and the order of a place request in which
\* cancel_fishing interrupted the task.  Of every other order either
\* _cleanup_open_orders or the pass of cancel_fishing has disposed; an
\* interrupted task leaves that to the pass, so it counts once that is over.
Skipped(o) == LET x == sub[orders[o].chunk] IN x.id = o /\ x.status = "QUEUED"
CutOff(o) == wire = "placed" /\ o = Len(orders)
CleanupsOver ==
  /\ pc = "ended"
  /\ cur # 0 => \A c \in Cancellers : caller[c].pc \in {"idle", "returned"}
EndAccountsForOrders ==
  CleanupsOver => \A o \in DOMAIN orders :
    orders[o].state \in Open => Skipped(o) \/ CutOff(o)

\* A campaign ends by its deadline at the latest, and cancel_fishing returns.
CampaignEnds == pc # "ended" ~> pc = "ended"
CancelReturns == \A c \in Cancellers : caller[c].pc = "waiting" ~> caller[c].pc = "returned"

\* The quantity is what the parameter of place_option_order_with_fishing says:
\* the total number of contracts across all chunks.
NoOverfill == FilledOf(DOMAIN orders) <= Quantity
=============================================================================
