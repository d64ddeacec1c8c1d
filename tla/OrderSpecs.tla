----------------------------- MODULE OrderSpecs -----------------------------
(***************************************************************************)
(* The order specifications that tools/orders.py builds with the factories *)
(* of tools/order_helpers.py.                                              *)
(*                                                                         *)
(* A specification is a tree.  It is written here as the sequence of its   *)
(* nodes in pre-order, each naming its parent (0 for the root), so that a  *)
(* recursive walk of the code is a walk of the sequence.  The empty        *)
(* sequence stands for the ValueError the code raises instead.  Enumerated *)
(* names are in upper case, to which the code converts them before it      *)
(* looks (a combo's instructions excepted, which it passes on as they      *)
(* come).                                                                  *)
(***************************************************************************)
EXTENDS Prices, Integers, Sequences, SequencesExt

None == 0           \* a number that was not supplied
Unnamed == "none"   \* a name that was not supplied
Failed == <<>>      \* ValueError

----------------------------------------------------------------------------
(* One order. *)

EquityTypes == {"MARKET", "LIMIT", "STOP", "STOP_LIMIT"}
EquityInstructions == {"BUY", "SELL"}
OptionInstructions == {"BUY_TO_OPEN", "SELL_TO_OPEN", "BUY_TO_CLOSE", "SELL_TO_CLOSE"}
LinkTypes == {"VALUE", "PERCENT"}
NeedsPrice(type) == type \in {"LIMIT", "STOP_LIMIT"}
NeedsStop(type) == type \in {"STOP", "STOP_LIMIT"}

\* __equity_base_builder, __option_base_builder with one leg
Single(asset, d) ==
  [parent |-> 0, strategy |-> "SINGLE", type |-> d.type,
   legs |-> <<[asset |-> asset, symbol |-> d.symbol, instruction |-> d.instruction,
               quantity |-> d.quantity]>>,
   price |-> None, stop |-> None, offset |-> None, link |-> Unnamed,
   session |-> "NORMAL", duration |-> "DAY"]

\* the equity_* factories take their prices by position
EquityBuilder(d, args) ==
  LET order == Single("EQUITY", d)
  IN CASE d.type = "MARKET" -> order
       [] d.type = "LIMIT" -> [order EXCEPT !.price = args[1]]
       [] d.type = "STOP" -> [order EXCEPT !.stop = args[1]]
       [] d.type = "STOP_LIMIT" -> [order EXCEPT !.stop = args[1], !.price = args[2]]

OptionBuilder(d, args) ==
  LET order == Single("OPTION", d)
  IN IF d.type = "MARKET" THEN order ELSE [order EXCEPT !.price = args[1]]

TrailingBuilder(d, link) ==
  [Single("EQUITY", d) EXCEPT !.type = "TRAILING_STOP", !.offset = d.offset, !.link = link]

PriceArgs(d) ==
  (IF NeedsStop(d.type) THEN <<Sent(d.stop)>> ELSE <<>>)
  \o (IF NeedsPrice(d.type) THEN <<Sent(d.price)>> ELSE <<>>)

\* a price and a stop price exactly when the type has one
EquityOrder(d) ==
  IF /\ d.type \in EquityTypes
     /\ d.instruction \in EquityInstructions
     /\ (d.price # None) = NeedsPrice(d.type)
     /\ (d.stop # None) = NeedsStop(d.type)
  THEN <<EquityBuilder(d, PriceArgs(d))>>
  ELSE Failed

\* a stop price is not looked at
OptionOrder(d) ==
  IF /\ d.type \in {"MARKET", "LIMIT"}
     /\ d.instruction \in OptionInstructions
     /\ (d.price # None) = (d.type = "LIMIT")
  THEN <<OptionBuilder(d, <<Sent(d.price)>>)>>
  ELSE Failed

\* offset: None or a number, which may be negative; no price is looked at
TrailingOrder(d) ==
  LET link == IF d.trail = Unnamed THEN "VALUE" ELSE d.trail
  IN IF /\ d.instruction \in EquityInstructions
        /\ link \in LinkTypes
        /\ d.offset > 0
     THEN <<TrailingBuilder(d, link)>>
     ELSE Failed

Durations == {"DAY", "GOOD_TILL_CANCEL", "FILL_OR_KILL", "IMMEDIATE_OR_CANCEL",
              "END_OF_WEEK", "END_OF_MONTH", "NEXT_END_OF_MONTH"}

Canonical(duration) ==
  CASE duration = "GTC" -> "GOOD_TILL_CANCEL"
    [] duration = "IOC" -> "IMMEDIATE_OR_CANCEL"
    [] duration = "FOK" -> "FILL_OR_KILL"
    [] OTHER -> duration

\* _apply_order_settings: what is not supplied stays as the factory set it
Settled(order, session, duration) ==
  IF order = Failed \/ (duration # Unnamed /\ Canonical(duration) \notin Durations) THEN Failed
  ELSE LET s == IF session = Unnamed THEN order[1].session ELSE session
           d == IF duration = Unnamed THEN order[1].duration ELSE Canonical(duration)
       IN <<[order[1] EXCEPT !.session = s, !.duration = d]>>

----------------------------------------------------------------------------
(* An order described by a dictionary. *)

\* OrderDesc.from_dict.  malformed: a required field missing, or any of the
\* wrong type.
WellFormed(d) == ~d.malformed /\ d.asset \in {"EQUITY", "OPTION"}

\* _build_order_from_desc
OrderFromDesc(d, session, duration) ==
  LET trails == d.type = "TRAILING_STOP"
      order == IF d.asset = "OPTION" THEN IF trails THEN Failed ELSE OptionOrder(d)
               ELSE IF trails THEN TrailingOrder(d) ELSE EquityOrder(d)
  IN IF WellFormed(d)
     THEN Settled(order, IF d.session = Unnamed THEN session ELSE d.session,
                         IF d.duration = Unnamed THEN duration ELSE d.duration)
     ELSE Failed

SuppliedFields(d) ==
  (IF d.price = None THEN {} ELSE {"price"}) \cup (IF d.stop = None THEN {} ELSE {"stop_price"})
  \cup (IF d.offset = None THEN {} ELSE {"trail_offset"})
  \cup (IF d.trail = Unnamed THEN {} ELSE {"trail_type"})

\* _REPLACEMENT_ALLOWED_FIELDS: what a pair that is not listed may have does
\* not matter, as its builder raises
AllowedFields(asset, type) ==
  CASE type = "TRAILING_STOP" -> IF asset = "EQUITY" THEN {"trail_offset", "trail_type"} ELSE {}
    [] type \in {"STOP", "STOP_LIMIT"} /\ asset = "OPTION" ->
         {"price", "stop_price", "trail_offset", "trail_type"}
    [] OTHER -> (IF NeedsPrice(type) THEN {"price"} ELSE {})
                \cup (IF NeedsStop(type) THEN {"stop_price"} ELSE {})

----------------------------------------------------------------------------
(* Composite orders. *)

\* the nodes of a specification below node 1 of another, from position by on
Below(spec, by) ==
  [k \in DOMAIN spec |->
     [spec[k] EXCEPT !.parent = IF @ = 0 THEN 1 ELSE @ + by - 1]]

\* one_cancels_other of schwab-py
Oco(first, second) ==
  IF Failed \in {first, second} THEN Failed
  ELSE <<[parent |-> 0, strategy |-> "OCO", type |-> Unnamed, legs |-> <<>>, price |-> None,
          stop |-> None, offset |-> None, link |-> Unnamed, session |-> Unnamed,
          duration |-> Unnamed]>>
       \o Below(first, 2) \o Below(second, 2 + Len(first))

\* first_triggers_second of schwab-py, for an entry that is one order
Trigger(entry, exits) ==
  IF Failed \in {entry, exits} THEN Failed
  ELSE <<[entry[1] EXCEPT !.strategy = "TRIGGER"]>> \o Below(exits, 2)

----------------------------------------------------------------------------
(* The _prepare_* functions.  A call's orders are the orders it describes. *)

PrepareEquity(c) == Settled(EquityOrder(c.orders[1]), c.session, c.duration)

PrepareOption(c) == Settled(OptionOrder(c.orders[1]), c.session, c.duration)

PrepareTrailing(c) == Settled(TrailingOrder(c.orders[1]), c.session, c.duration)

PrepareReplacement_Lenient(c) == OrderFromDesc(c.orders[1], "NORMAL", "DAY")

PrepareReplacement(c) ==
  LET d == c.orders[1]
  IN IF SuppliedFields(d) \subseteq AllowedFields(d.asset, d.type)
     THEN OrderFromDesc(d, "NORMAL", "DAY")
     ELSE Failed

PrepareOco(c) ==
  Oco(OrderFromDesc(c.orders[1], c.session, c.duration),
      OrderFromDesc(c.orders[2], c.session, c.duration))

PrepareTrigger_Parallel(c) ==
  LET o == [k \in DOMAIN c.orders |-> OrderFromDesc(c.orders[k], c.session, c.duration)]
  IN CASE Len(o) = 2 -> Trigger(o[1], o[2])
       [] Len(o) = 3 -> IF Failed \in {o[2], o[3]} THEN Failed
                        ELSE Trigger(o[1], o[2]) \o Below(o[3], 2)
       [] OTHER -> Failed

\* an entry and one or two exits
PrepareTrigger(c) ==
  LET o == [k \in DOMAIN c.orders |-> OrderFromDesc(c.orders[k], c.session, c.duration)]
  IN CASE Len(o) = 2 -> Trigger(o[1], o[2])
       [] Len(o) = 3 -> Trigger(o[1], Oco(o[2], o[3]))
       [] OTHER -> Failed

\* the rules for loss_type and loss_limit_price
LossWellFormed(c) ==
  IF c.loss = None THEN c.lossType = "STOP" /\ c.lossLimit = None
  ELSE /\ c.lossType \in {"STOP", "STOP_LIMIT", "LIMIT"}
       /\ (c.lossLimit # None) = (c.lossType = "STOP_LIMIT")

\* _build_bracket_exit_order; d is the entry turned round
BracketExits(c, d, session, duration) ==
  LET profit == Settled(EquityOrder([d EXCEPT !.type = "LIMIT", !.price = c.profit, !.stop = None]),
                        session, duration)
      loss == Settled(EquityOrder(
                        [d EXCEPT !.type = c.lossType,
                                  !.price = IF c.lossType = "LIMIT" THEN c.loss ELSE c.lossLimit,
                                  !.stop = IF c.lossType = "LIMIT" THEN None ELSE c.loss]),
                      session, duration)
  IN IF ~LossWellFormed(c) THEN Failed
     ELSE IF c.loss = None THEN profit
     ELSE IF c.profit = None THEN loss
     ELSE Oco(profit, loss)

PrepareBracket(c) ==
  LET d == c.orders[1]
      exit == [d EXCEPT !.instruction = IF d.instruction = "BUY" THEN "SELL" ELSE "BUY"]
  IN IF c.profit = None /\ c.loss = None THEN Failed
     ELSE Trigger(Settled(EquityOrder(d), c.session, c.duration),
                  BracketExits(c, exit,
                               IF c.exitSession = Unnamed THEN c.session ELSE c.exitSession,
                               IF c.exitDuration = Unnamed THEN c.duration ELSE c.exitDuration))

\* two legs or more; Schwab is left to judge the order type and the price
PrepareCombo(c) ==
  IF Len(c.orders) < 2 THEN Failed
  ELSE Settled(<<[Single("OPTION", [c.orders[1] EXCEPT !.type = c.type]) EXCEPT
                    !.legs = [k \in DOMAIN c.orders |-> Single("OPTION", c.orders[k]).legs[1]],
                    !.price = IF c.price = None THEN None ELSE Sent(c.price),
                    !.session = Unnamed, !.duration = Unnamed]>>,
               c.session, c.duration)

----------------------------------------------------------------------------
(* The symbols the asset check looks up. *)

\* the equity symbols of a list of legs, each once
SymbolsOf(legs) ==
  FoldLeft(LAMBDA found, leg : IF leg.asset # "EQUITY" \/ Contains(found, leg.symbol)
                               THEN found ELSE Append(found, leg.symbol),
           <<>>, legs)

EquityLegSymbols_RootOnly(spec) == SymbolsOf(spec[1].legs)

\* _equity_leg_symbols: in the order of the tree
EquityLegSymbols(spec) == SymbolsOf(FlattenSeq([k \in DOMAIN spec |-> spec[k].legs]))
=============================================================================
