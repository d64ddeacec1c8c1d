--------------------------- MODULE FishingPrices ---------------------------
(***************************************************************************)
(* What a fishing campaign (tools/fishing.py) offers: how a request is     *)
(* validated and split into chunks, the first limit price of each chunk,   *)
(* the walk of the prices towards range_end, and what Prices makes of them *)
(* on the wire.  How chunks are canceled and placed again is Fishing's     *)
(* subject.                                                                *)
(***************************************************************************)
EXTENDS Prices, Integers, Sequences, FiniteSets, FiniteSetsExt, Functions

CONSTANTS
  Requests,      \* the calls of place_option_order_with_fishing
  MaxFeint       \* bound: how far head-fakes lead away from range_start

Patterns == {"linear", "staggered", "random_walk"}

\* malformed: an unknown instruction or pattern, an interval below 30 seconds
\* or a jitter outside [0, 1].  given: the caller chose the chunk sizes.
Request == [sell: BOOLEAN, start: Nat, end: Nat, step: Int, quantity: Int,
            pattern: Patterns, malformed: BOOLEAN, given: BOOLEAN, sizes: Seq(Int)]

ASSUME FishingPricesAssumption ==
  /\ Requests \subseteq Request
  /\ MaxFeint \in Nat

VARIABLES
  request,  \* the arguments of the call
  phase,    \* "called", "refused" or "running"
  chunks,   \* campaign.chunks
  price,    \* price[k]: sub.price of chunk k
  live      \* the chunks that are not terminal

vars == <<request, phase, chunks, price, live>>

Abs(x) == IF x < 0 THEN -x ELSE x

\* round(x, 2) for any x between a and b: the whole cents within half a cent.
\* A tie may go either way, as the double is above or below it.
Rounded(a, b) ==
  {Cent * c : c \in (Min({a, b}) + Cent \div 2 - 1) \div Cent
                    ..(Max({a, b}) + Cent \div 2) \div Cent}

----------------------------------------------------------------------------
(* The request. *)

Valid(r) ==
  /\ ~r.malformed
  /\ IF r.sell THEN r.start > r.end ELSE r.start < r.end
  /\ r.quantity > 0
  /\ r.step > 0
  /\ Abs(r.start - r.end) >= r.step
  /\ r.given => /\ r.sizes # <<>>
                /\ \A k \in DOMAIN r.sizes : r.sizes[k] > 0
                /\ SumFunction(r.sizes) = r.quantity

AutoChunks_Even(q) ==
  LET n == Min({4, q, Max({2, q \div 3})}) IN [k \in 1..n |-> q \div n]

\* two to four chunks, the first ones larger by one contract
AutoChunks(q) ==
  LET n == Min({4, q, Max({2, q \div 3})})
  IN [k \in 1..n |-> q \div n + (IF k <= q % n THEN 1 ELSE 0)]

ChunksOf(r) == IF r.given THEN r.sizes ELSE AutoChunks(r.quantity)

----------------------------------------------------------------------------
(* The prices. *)

\* x moved by d towards range_end, or away from it if d is negative
Toward(r, x, d) == IF r.sell THEN x - d ELSE x + d

Clamped_Start(r, x) == IF r.sell THEN Min({x, r.start}) ELSE Max({x, r.start})

\* the code clamps towards range_end only
Clamped(r, x) == IF r.sell THEN Max({x, r.end}) ELSE Min({x, r.end})

\* x moved by anything from d1 to d2, clamped and rounded
Moved(r, x, d1, d2) ==
  Rounded(Clamped(r, Toward(r, x, d1)), Clamped(r, Toward(r, x, d2)))

\* _initial_prices: the prices chunk k of n may start with
FirstPrices(r, k, n) ==
  CASE r.pattern = "linear" -> {r.start}
    [] r.pattern = "staggered" ->
         LET rungs == Max({n - 1, 1})
             rung == (2 * Abs(r.start - r.end) * (k - 1)) \div (5 * rungs)
         IN Moved(r, r.start, rung, rung)
    [] OTHER -> Moved(r, r.start, 0, 3 * r.step)

AtEnd_Swapped(r, x) == IF r.sell THEN x >= r.end ELSE x <= r.end

AtEnd(r, x) == IF r.sell THEN x <= r.end ELSE x >= r.end

\* _next_price: the prices x may be moved to, none at range_end.  One step; or,
\* in a random walk, half a step to one and a half, nothing, or half a step
\* back (a head-fake).
NextPrices(r, x) ==
  IF AtEnd(r, x) THEN {}
  ELSE IF r.pattern # "random_walk" THEN Moved(r, x, r.step, r.step)
  ELSE LET half == r.step \div 2
       IN Moved(r, x, half, 3 * half) \cup Moved(r, x, 0, 0) \cup Moved(r, x, -half, -half)

----------------------------------------------------------------------------
(* The campaign. *)

Init ==
  /\ request \in Requests
  /\ phase = "called"
  /\ chunks = <<>>
  /\ price = <<>>
  /\ live = {}

\* _validate_inputs raises
Refuse ==
  /\ phase = "called"
  /\ ~Valid(request)
  /\ phase' = "refused"
  /\ UNCHANGED <<request, chunks, price, live>>

\* one member of each set
Picks(sets) == {p \in [DOMAIN sets -> UNION Range(sets)] : \A k \in DOMAIN p : p[k] \in sets[k]}

\* place_option_order_with_fishing creates the campaign, whose task places the
\* chunks at their first prices
Launch ==
  /\ phase = "called"
  /\ Valid(request)
  /\ phase' = "running"
  /\ chunks' = ChunksOf(request)
  /\ live' = DOMAIN chunks'
  /\ price' \in Picks([k \in live' |-> FirstPrices(request, k, Len(chunks'))])
  /\ UNCHANGED request

\* _select_subs_to_adjust: all chunks, or one or two of several
Selections ==
  IF request.pattern = "linear" \/ Cardinality(live) = 1 THEN {live}
  ELSE {S \in SUBSET live : Cardinality(S) \in {1, 2}}

\* a chunk without a next price keeps its price
Moves(k) ==
  LET next == {x \in NextPrices(request, price[k]) :
                 Abs(x - request.end) <= Abs(request.start - request.end) + MaxFeint}
  IN IF next = {} THEN {price[k]} ELSE next

\* one cycle of the task's loop
Tick ==
  /\ phase = "running"
  /\ live # {}
  /\ \E S \in Selections :
       price' \in Picks([k \in DOMAIN price |-> IF k \in S THEN Moves(k) ELSE {price[k]}])
  /\ UNCHANGED <<request, phase, chunks, live>>

\* the broker fills, cancels or expires the order of a chunk
ChunkEnds(k) ==
  /\ live' = live \ {k}
  /\ UNCHANGED <<request, phase, chunks, price>>

Next == Refuse \/ Launch \/ Tick \/ \E k \in live : ChunkEnds(k)

Spec == Init /\ [][Next]_vars

\* the loop wakes up after every jittered interval
FairSpec == Spec /\ WF_vars(Tick)

----------------------------------------------------------------------------
(* Properties. *)

Running == phase = "running"

\* The chunks are contracts that add up to what was approved, however the
\* quantity divides and whoever chose the sizes.
ChunksCoverQuantity ==
  Running => /\ SumFunction(chunks) = request.quantity
             /\ \A k \in DOMAIN chunks : chunks[k] > 0

\* No walk leads past range_end, head-fakes, clamping and rounding of a
\* range_end between two cents included: beyond it by half a cent at most.  And
\* what Schwab gets is the campaign's price or up to a cent less, never more.
\* (Nothing keeps a head-fake of a buyer above zero; below, a price is truncated
\* upwards.)
OfferHolds ==
  Running => \A k \in DOMAIN price :
    /\ AtEnd(request, price[k]) => 2 * Abs(price[k] - request.end) <= Cent
    /\ price[k] >= 0 => Sent(price[k]) \in (price[k] - Cent)..price[k]

Arrived == \A k \in live : 2 * Abs(price[k] - request.end) <= Cent

\* A linear walk whose step survives the rounding to cents brings every chunk
\* that stays open to range_end.
WalkArrives ==
  (Running /\ request.pattern = "linear" /\ request.step \notin 1..(Cent \div 2)) ~> Arrived
=============================================================================
