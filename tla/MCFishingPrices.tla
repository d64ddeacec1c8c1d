-------------------------- MODULE MCFishingPrices --------------------------
(* Requests around a dollar: prices whose doubles fall short (0.57, 1.13),  *)
(* a range_end between two cents, a step that rounding swallows, ranges the *)
(* step does not divide, a buyer whose head-fakes lead below zero, and      *)
(* every way to be refused.                                                 *)
EXTENDS FishingPrices

Base == [sell |-> TRUE, start |-> 11500, end |-> 10000, step |-> 500, quantity |-> 2,
         pattern |-> "linear", malformed |-> FALSE, given |-> FALSE, sizes |-> <<>>]

Ranges == {Base,
           [Base EXCEPT !.end = 10860, !.step = 200],
           [Base EXCEPT !.start = 11040, !.end = 10040, !.step = 300],
           [Base EXCEPT !.sell = FALSE, !.start = 5400, !.end = 6000, !.step = 100],
           [Base EXCEPT !.sell = FALSE, !.start = 9800, !.end = 10200, !.step = 40],
           [Base EXCEPT !.sell = FALSE, !.start = 200, !.end = 1400, !.step = 600]}

Splits == {[Base EXCEPT !.quantity = q] : q \in 0..14}
          \cup {[Base EXCEPT !.quantity = 4, !.given = TRUE, !.sizes = s] :
                  s \in {<<>>, <<4>>, <<1, 3>>, <<2, 1>>, <<5, -1>>, <<4, 0>>}}

Bad == {[Base EXCEPT !.start = 9000], [Base EXCEPT !.sell = FALSE], [Base EXCEPT !.step = 0],
        [Base EXCEPT !.step = 1600], [Base EXCEPT !.malformed = TRUE]}

MCRequests == {[r EXCEPT !.pattern = p] : r \in Ranges, p \in Patterns}
              \cup {[r EXCEPT !.pattern = "staggered", !.quantity = 9] : r \in Ranges}
              \cup Splits \cup Bad
\* the whole cents below 1.20 that IEEE doubles truncate downwards
MCShortDoubles == {5700, 6900, 11300, 11400, 11500, 11600}
=============================================================================
