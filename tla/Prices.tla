------------------------------- MODULE Prices -------------------------------
(***************************************************************************)
(* Prices and how tools/orders.py writes them for Schwab.  Amounts are in  *)
(* ten-thousandths of a dollar, so a cent is 100.                          *)
(***************************************************************************)
EXTENDS Integers

CONSTANT ShortDoubles  \* amounts whose double, scaled up, falls below the amount

Cent == 100
Dollar == 100 * Cent

\* A double is off by much less than a place, so that only an amount of whole
\* places loses one; 0.0001 * 10000 is 1.0.
ASSUME PricesAssumption ==
  ShortDoubles \subseteq {x \in Nat \ {0, 1} : x < Dollar \/ x % Cent = 0}

\* _format_order_price: four places below a dollar, two above, truncated
\* towards zero after scaling the double.  The builders of order_helpers.py
\* leave the string it returns alone.
Sent(x) ==
  LET size == IF x < 0 THEN -x ELSE x
      place == IF size < Dollar THEN 1 ELSE Cent
      sent == (size \div place) * place - (IF size \in ShortDoubles THEN place ELSE 0)
  IN IF x < 0 THEN -sent ELSE sent
=============================================================================
