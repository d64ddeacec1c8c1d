------------------------ MODULE FishingPrices_proofs ------------------------
(***************************************************************************)
(* Proofs about FishingPrices for any requests and any doubles that fall   *)
(* short: a campaign's chunks add up to its quantity, no walk leads past   *)
(* range_end, and Schwab gets a campaign's price or up to a cent less.     *)
(***************************************************************************)
EXTENDS FishingPrices, Sums, TLAPS

-----------------------------------------------------------------------------
(* Arithmetic *)

LEMMA MinOfTwo == ASSUME NEW a \in Int, NEW b \in Int PROVE Min({a, b}) = IF a <= b THEN a ELSE b
BY DEF Min

LEMMA MaxOfTwo == ASSUME NEW a \in Int, NEW b \in Int PROVE Max({a, b}) = IF a <= b THEN b ELSE a
BY DEF Max

\* Rounding to cents moves the bounds of an interval by half a cent at most.
LEMMA RoundedWithin ==
  ASSUME NEW a \in Int, NEW b \in Int, NEW x \in Rounded(a, b)
  PROVE  /\ x \in Int /\ x % Cent = 0
         /\ \A m \in Int : m <= a /\ m <= b => m - Cent \div 2 <= x
         /\ \A m \in Int : a <= m /\ b <= m => x <= m + Cent \div 2
<1>1. PICK c \in (Min({a, b}) + Cent \div 2 - 1) \div Cent .. (Max({a, b}) + Cent \div 2) \div Cent :
        x = Cent * c
  BY DEF Rounded
<1>2. DEFINE lo == Min({a, b})
             hi == Max({a, b})
<1>3. lo \in Int /\ hi \in Int /\ lo \in {a, b} /\ hi \in {a, b}
  BY MinOfTwo, MaxOfTwo
<1> HIDE DEF lo, hi
<1>4. c \in Int /\ (lo + 49) \div 100 <= c /\ c <= (hi + 50) \div 100 /\ x = 100 * c
  BY <1>1, <1>3 DEF lo, hi, Cent
<1>5. lo - 50 <= x /\ x <= hi + 50
  BY <1>3, <1>4
<1>6. x \in Int /\ x % 100 = 0
  BY <1>4
<1> QED
  BY <1>3, <1>5, <1>6 DEF Cent

\* What Schwab gets for a price above zero.
LEMMA SentWithin ==
  ASSUME NEW x \in Nat
  PROVE  Sent(x) \in (x - Cent)..x
<1>1. CASE x < Dollar
  BY <1>1, PricesAssumption DEF Sent, Dollar, Cent
<1>2. CASE x >= Dollar /\ x \in ShortDoubles
  <2>1. x % 100 = 0
    BY <1>2, PricesAssumption DEF Dollar, Cent
  <2> QED
    BY <1>2, <2>1 DEF Sent, Dollar, Cent
<1>3. CASE x >= Dollar /\ x \notin ShortDoubles
  BY <1>3 DEF Sent, Dollar, Cent
<1> QED
  BY <1>1, <1>2, <1>3 DEF Dollar, Cent

-----------------------------------------------------------------------------
(* Chunks *)

\* The number of chunks a quantity is split into.
Pieces(q) == Min({4, q, Max({2, q \div 3})})

LEMMA PiecesBound ==
  ASSUME NEW q \in Nat \ {0}
  PROVE  Pieces(q) \in 1..4 /\ Pieces(q) <= q
<1> DEFINE third == Max({2, q \div 3})
<1>1. third \in Nat /\ third >= 2
  BY MaxOfTwo
<1> HIDE DEF third
<1>2. \E x \in {4, q, third} : \A y \in {4, q, third} : x <= y
  BY <1>1
<1>3. Min({4, q, third}) \in {4, q, third} /\ \A y \in {4, q, third} : Min({4, q, third}) <= y
  BY <1>2 DEF Min
<1> QED
  BY <1>1, <1>3 DEF Pieces, third

\* However a quantity divides, every chunk has a contract at least.
LEMMA AutoChunksType ==
  ASSUME NEW q \in Nat \ {0}
  PROVE  AutoChunks(q) \in Seq(Nat \ {0}) /\ AutoChunks(q) # <<>>
<1> DEFINE n == Pieces(q)
           size(k) == q \div n + (IF k <= q % n THEN 1 ELSE 0)
<1>1. n \in 1..4 /\ n <= q
  BY PiecesBound
<1>2. AutoChunks(q) = [k \in 1..n |-> size(k)]
  BY DEF AutoChunks, Pieces
<1> HIDE DEF n
<1>3. q \div n \in Nat \ {0} /\ q % n \in Nat
  BY <1>1
<1>4. \A k \in 1..n : size(k) \in Nat \ {0}
  BY <1>3
<1> HIDE DEF size
<1>5. [k \in 1..n |-> size(k)] \in Seq(Nat \ {0})
  BY <1>1, <1>4
<1>6. [k \in 1..n |-> size(k)] # <<>>
  BY <1>1
<1> QED
  BY <1>2, <1>5, <1>6

\* However a quantity divides, the chunks add up to it.
LEMMA AutoChunksCover ==
  ASSUME NEW q \in Nat \ {0}
  PROVE  SumFunction(AutoChunks(q)) = q
<1> DEFINE n == Pieces(q)
           c == AutoChunks(q)
           d == q \div n
           r == q % n
<1>1. n \in 1..4 /\ n <= q
  BY PiecesBound
<1>2. /\ DOMAIN c = 1..n
      /\ \A k \in 1..n : c[k] = d + (IF k <= r THEN 1 ELSE 0)
  BY DEF AutoChunks, Pieces
<1>3. SumFunction(c) = SumFunctionOnSet(c, 1..n)
  BY <1>2 DEF SumFunction
<1> HIDE DEF n, c
<1>4. d \in Nat /\ r \in 0..(n - 1) /\ q = n * d + r
  BY <1>1
<1> HIDE DEF d, r
<1>5. \A k \in 1..n : c[k] \in Int
  BY <1>2, <1>4
<1>6. \A j \in 1..n : SumFunctionOnSet(c, 1..j) = c[j] + SumFunctionOnSet(c, 1..(j - 1))
  <2> SUFFICES ASSUME NEW j \in 1..n
               PROVE  SumFunctionOnSet(c, 1..j) = c[j] + SumFunctionOnSet(c, 1..(j - 1))
    OBVIOUS
  <2>1. j \in Nat \ {0} /\ \A k \in 1..j : c[k] \in Int
    BY <1>1, <1>5
  <2> QED
    BY <2>1, SumUpTo
<1>7. SumFunctionOnSet(c, 1..0) = 0
  <2>1. 1..0 = {}
    OBVIOUS
  <2> QED
    BY <2>1, SumEmpty
<1>8. CASE n = 1
  <2>1. SumFunctionOnSet(c, 1..1) = c[1]
    BY <1>5, <1>6, <1>7, <1>8
  <2>2. c[1] = d /\ q = d
    BY <1>2, <1>4, <1>8
  <2> QED
    BY <1>3, <1>8, <2>1, <2>2 DEF c
<1>9. CASE n = 2
  <2>1. SumFunctionOnSet(c, 1..2) = c[2] + c[1]
    BY <1>5, <1>6, <1>7, <1>9
  <2>2. r \in 0..1 /\ q = 2 * d + r
    BY <1>4, <1>9
  <2>3. \A k \in 1..2 : (k <= r => c[k] = d + 1) /\ (r < k => c[k] = d)
    BY <1>2, <1>4, <1>9
  <2>4. c[2] + c[1] = 2 * d + r
    BY <1>4, <2>2, <2>3
  <2> QED
    BY <1>3, <1>9, <2>1, <2>2, <2>4 DEF c
<1>10. CASE n = 3
  <2>1. SumFunctionOnSet(c, 1..3) = c[3] + c[2] + c[1]
    BY <1>5, <1>6, <1>7, <1>10
  <2>2. r \in 0..2 /\ q = 3 * d + r
    BY <1>4, <1>10
  <2>3. \A k \in 1..3 : (k <= r => c[k] = d + 1) /\ (r < k => c[k] = d)
    BY <1>2, <1>4, <1>10
  <2>4. c[3] + c[2] + c[1] = 3 * d + r
    BY <1>4, <2>2, <2>3
  <2> QED
    BY <1>3, <1>10, <2>1, <2>2, <2>4 DEF c
<1>11. CASE n = 4
  <2>1. SumFunctionOnSet(c, 1..4) = c[4] + c[3] + c[2] + c[1]
    BY <1>5, <1>6, <1>7, <1>11
  <2>2. r \in 0..3 /\ q = 4 * d + r
    BY <1>4, <1>11
  <2>3. \A k \in 1..4 : (k <= r => c[k] = d + 1) /\ (r < k => c[k] = d)
    BY <1>2, <1>4, <1>11
  <2>4. c[4] + c[3] + c[2] + c[1] = 4 * d + r
    BY <1>4, <2>2, <2>3
  <2> QED
    BY <1>3, <1>11, <2>1, <2>2, <2>4 DEF c
<1> QED
  BY <1>1, <1>8, <1>9, <1>10, <1>11 DEF c

LEMMA ChunksOfType ==
  ASSUME NEW r \in Request, Valid(r)
  PROVE  ChunksOf(r) \in Seq(Nat \ {0}) /\ ChunksOf(r) # <<>> /\ SumFunction(ChunksOf(r)) = r.quantity
<1>1. r.quantity \in Nat \ {0} /\ r.sizes \in Seq(Int)
  BY DEF Request, Valid
<1>2. CASE r.given
  <2>1. r.sizes # <<>> /\ \A k \in DOMAIN r.sizes : r.sizes[k] \in Nat \ {0}
    BY <1>1, <1>2 DEF Valid
  <2> QED
    BY <1>1, <1>2, <2>1 DEF ChunksOf, Valid
<1>3. CASE ~r.given
  BY <1>1, <1>3, AutoChunksType, AutoChunksCover DEF ChunksOf
<1> QED
  BY <1>2, <1>3

-----------------------------------------------------------------------------
(* Walks *)

\* At range_end, short of it, or past it by the half cent of a rounding.
Within(r, x) ==
  /\ x \in Int
  /\ IF r.sell THEN x >= r.end - Cent \div 2 ELSE x <= r.end + Cent \div 2

LEMMA MovedWithin ==
  ASSUME NEW r \in Request, NEW x \in Int, NEW d1 \in Int, NEW d2 \in Int, NEW y \in Moved(r, x, d1, d2)
  PROVE  Within(r, y)
<1> DEFINE a == Clamped(r, Toward(r, x, d1))
           b == Clamped(r, Toward(r, x, d2))
<1>1. r.end \in Int /\ r.sell \in BOOLEAN /\ Toward(r, x, d1) \in Int /\ Toward(r, x, d2) \in Int
  BY DEF Request, Toward
<1>2. a \in Int /\ b \in Int /\ IF r.sell THEN r.end <= a /\ r.end <= b ELSE a <= r.end /\ b <= r.end
  BY <1>1, MinOfTwo, MaxOfTwo DEF Clamped
<1>3. y \in Rounded(a, b)
  BY DEF Moved
<1> HIDE DEF a, b
<1> QED
  BY <1>1, <1>2, <1>3, RoundedWithin DEF Within

LEMMA FirstWithin ==
  ASSUME NEW r \in Request, Valid(r), NEW n \in Nat, NEW k \in Nat, NEW y \in FirstPrices(r, k, n)
  PROVE  Within(r, y)
<1>1. r.start \in Int /\ r.end \in Int /\ r.step \in Int /\ r.sell \in BOOLEAN
  BY DEF Request
<1>2. CASE r.pattern = "linear"
  <2>1. y = r.start
    BY <1>2 DEF FirstPrices
  <2> QED
    BY <1>1, <2>1 DEF Within, Valid, Cent
<1>3. CASE r.pattern = "staggered"
  <2> DEFINE rungs == Max({n - 1, 1})
             rung == (2 * Abs(r.start - r.end) * (k - 1)) \div (5 * rungs)
  <2>1. y \in Moved(r, r.start, rung, rung)
    BY <1>3 DEF FirstPrices
  <2>2. 5 * rungs \in Nat \ {0}
    BY MaxOfTwo
  <2>3. 2 * Abs(r.start - r.end) * (k - 1) \in Int
    BY <1>1 DEF Abs
  <2>4. rung \in Int
    BY <2>2, <2>3
  <2> QED
    BY <1>1, <2>1, <2>4, MovedWithin
<1>4. CASE r.pattern = "random_walk"
  <2>1. y \in Moved(r, r.start, 0, 3 * r.step)
    BY <1>4 DEF FirstPrices
  <2> QED
    BY <1>1, <2>1, MovedWithin
<1> QED
  BY <1>2, <1>3, <1>4 DEF Request, Patterns

LEMMA NextWithin ==
  ASSUME NEW r \in Request, NEW x \in Int, NEW y \in NextPrices(r, x)
  PROVE  Within(r, y)
<1>1. r.step \in Int /\ r.step \div 2 \in Int
  BY DEF Request
<1>2. \E d1, d2 \in Int : y \in Moved(r, x, d1, d2)
  <2>1. CASE r.pattern # "random_walk"
    BY <1>1, <2>1 DEF NextPrices
  <2>2. CASE r.pattern = "random_walk"
    <3> DEFINE half == r.step \div 2
    <3>1. y \in Moved(r, x, half, 3 * half) \cup Moved(r, x, 0, 0) \cup Moved(r, x, -half, -half)
      BY <2>2 DEF NextPrices
    <3>2. half \in Int /\ 3 * half \in Int /\ -half \in Int /\ 0 \in Int
      BY <1>1
    <3> HIDE DEF half
    <3> QED
      BY <3>1, <3>2
  <2> QED
    BY <2>1, <2>2
<1> QED
  BY <1>2, MovedWithin

LEMMA Picked ==
  ASSUME NEW sets, NEW p \in Picks(sets)
  PROVE  DOMAIN p = DOMAIN sets /\ \A k \in DOMAIN sets : p[k] \in sets[k]
BY DEF Picks

-----------------------------------------------------------------------------
(* The campaign *)

\* A campaign runs for a valid request, in chunks that make up its quantity, and
\* no price of it is past range_end by more than half a cent.
WalkInv ==
  /\ request \in Request
  /\ Running => /\ Valid(request)
                /\ chunks \in Seq(Nat \ {0}) /\ chunks # <<>>
                /\ SumFunction(chunks) = request.quantity
                /\ \A k \in DOMAIN price : Within(request, price[k])

LEMMA WalkStep == WalkInv /\ [Next]_vars => WalkInv'
<1> SUFFICES ASSUME WalkInv, [Next]_vars PROVE WalkInv'
  OBVIOUS
<1>1. CASE Refuse
  BY <1>1 DEF Refuse, WalkInv, Running
<1>2. CASE Launch
  <2>1. /\ Valid(request) /\ request' = request /\ chunks' = ChunksOf(request)
        /\ request \in Request
    BY <1>2 DEF Launch, WalkInv
  <2>2. /\ chunks' \in Seq(Nat \ {0}) /\ chunks' # <<>>
        /\ SumFunction(chunks') = request.quantity
    BY <2>1, ChunksOfType
  <2>3. Len(chunks') \in Nat /\ DOMAIN chunks' \subseteq Nat
    BY <2>2
  <2>4. price' \in Picks([k \in DOMAIN chunks' |-> FirstPrices(request, k, Len(chunks'))])
    BY <1>2 DEF Launch
  <2>5. \A k \in DOMAIN price' :
          k \in DOMAIN chunks' /\ price'[k] \in FirstPrices(request, k, Len(chunks'))
    BY <2>4, Picked
  <2>6. \A k \in DOMAIN price' : Within(request, price'[k])
    BY <2>1, <2>3, <2>5, FirstWithin
  <2> QED
    BY <2>1, <2>2, <2>6 DEF WalkInv, Within
<1>3. CASE Tick
  <2>1. /\ Running /\ UNCHANGED <<request, phase, chunks>> /\ request \in Request
        /\ \A k \in DOMAIN price : Within(request, price[k])
    BY <1>3 DEF Tick, Running, WalkInv
  <2>2. PICK S \in Selections :
          price' \in Picks([k \in DOMAIN price |-> IF k \in S THEN Moves(k) ELSE {price[k]}])
    BY <1>3 DEF Tick
  <2>3. \A k \in DOMAIN price' :
          k \in DOMAIN price /\ price'[k] \in IF k \in S THEN Moves(k) ELSE {price[k]}
    BY <2>2, Picked
  <2>4. \A k \in DOMAIN price : Moves(k) \subseteq NextPrices(request, price[k]) \cup {price[k]}
    BY DEF Moves
  <2>5. \A k \in DOMAIN price' : Within(request, price'[k])
    BY <2>1, <2>3, <2>4, NextWithin DEF Within
  <2> QED
    BY <2>1, <2>5 DEF WalkInv, Running, Valid, Within
<1>4. ASSUME NEW k \in live, ChunkEnds(k) PROVE WalkInv'
  BY <1>4 DEF ChunkEnds, WalkInv, Running, Valid, Within
<1>5. CASE UNCHANGED vars
  BY <1>5 DEF vars, WalkInv, Running, Valid, Within
<1> QED
  BY <1>1, <1>2, <1>3, <1>4, <1>5 DEF Next

LEMMA WalkInit == Init => WalkInv
BY FishingPricesAssumption DEF Init, WalkInv, Running

\* No walk leads past range_end by more than half a cent, whatever the pattern,
\* the step and the chunks that are picked; and Schwab gets the campaign's
\* price or up to a cent less.
THEOREM OffersHold == Spec => []OfferHolds
<1>1. WalkInv => OfferHolds
  <2> SUFFICES ASSUME WalkInv, Running, NEW k \in DOMAIN price
               PROVE  /\ AtEnd(request, price[k]) => 2 * Abs(price[k] - request.end) <= Cent
                      /\ price[k] >= 0 => Sent(price[k]) \in (price[k] - Cent)..price[k]
    BY DEF OfferHolds
  <2>1. Within(request, price[k]) /\ request.end \in Int /\ request.sell \in BOOLEAN
    BY DEF WalkInv, Request
  <2>2. AtEnd(request, price[k]) => 2 * Abs(price[k] - request.end) <= Cent
    BY <2>1 DEF Within, AtEnd, Abs, Cent
  <2>3. price[k] >= 0 => Sent(price[k]) \in (price[k] - Cent)..price[k]
    BY <2>1, SentWithin DEF Within
  <2> QED
    BY <2>2, <2>3
<1> QED
  BY <1>1, WalkInit, WalkStep, PTL DEF Spec

\* The chunks add up to the quantity that was approved, with a contract in each,
\* however the quantity divides and whoever chose the sizes.
THEOREM ChunksCover == Spec => []ChunksCoverQuantity
<1>1. WalkInv => ChunksCoverQuantity
  BY DEF WalkInv, ChunksCoverQuantity
<1> QED
  BY <1>1, WalkInit, WalkStep, PTL DEF Spec

\* A running campaign has chunks, of one contract at least each: what Fishing
\* assumes of ChunkSizes.
THEOREM ChunksAreContracts == Spec => [](Running => chunks \in Seq(Nat \ {0}) /\ chunks # <<>>)
<1>1. WalkInv => (Running => chunks \in Seq(Nat \ {0}) /\ chunks # <<>>)
  BY DEF WalkInv
<1> QED
  BY <1>1, WalkInit, WalkStep, PTL DEF Spec
=============================================================================
