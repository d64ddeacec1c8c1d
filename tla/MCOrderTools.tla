---------------------------- MODULE MCOrderTools ----------------------------
(* Calls of every tool, sound and unsound, with amounts below and above a    *)
(* dollar (0.57 and 1.13 among them), a fund and a bond beside a stock, and  *)
(* books of three orders.                                                    *)
EXTENDS OrderTools

Order == [symbol |-> "stock", quantity |-> 1, instruction |-> "BUY", type |-> "MARKET",
          price |-> None, stop |-> None, offset |-> None, trail |-> Unnamed, asset |-> "EQUITY",
          session |-> Unnamed, duration |-> Unnamed, malformed |-> FALSE]
Limit == [Order EXCEPT !.type = "LIMIT", !.price = 11300]
Stop == [Order EXCEPT !.type = "STOP", !.stop = 5700]
StopLimit == [Order EXCEPT !.type = "STOP_LIMIT", !.stop = 12345, !.price = 9999]
Trailing == [Order EXCEPT !.type = "TRAILING_STOP", !.offset = 3, !.trail = "PERCENT"]
Option == [Limit EXCEPT !.asset = "OPTION", !.instruction = "BUY_TO_OPEN", !.symbol = "option"]
Fund == [Limit EXCEPT !.symbol = "fund"]
Bond == [Stop EXCEPT !.symbol = "bond", !.instruction = "SELL"]
Sell(d) == [d EXCEPT !.instruction = "SELL"]

Call(tool, orders) ==
  [tool |-> tool, orders |-> orders, clean |-> TRUE, session |-> "NORMAL", duration |-> "DAY",
   type |-> "NET_DEBIT", price |-> 11300, profit |-> None, loss |-> None, lossType |-> "STOP",
   lossLimit |-> None, exitSession |-> Unnamed, exitDuration |-> Unnamed, statuses |-> <<>>]

\* fields that belong to another type of order
Stray(d) == {[d EXCEPT !.price = 20000], [d EXCEPT !.stop = 20000], [d EXCEPT !.offset = 3],
             [d EXCEPT !.trail = "VALUE"]}
Singles == {Order, Limit, Stop, StopLimit, Trailing, Option}
Invalid == {[Limit EXCEPT !.type = "NONE"], [Limit EXCEPT !.price = None],
            [Option EXCEPT !.instruction = "BUY"], [Option EXCEPT !.type = "TRAILING_STOP"],
            [Option EXCEPT !.type = "STOP", !.stop = 5700, !.price = None],
            [Trailing EXCEPT !.offset = -1], [Trailing EXCEPT !.trail = "NONE"]}
Asked == Singles \cup UNION {Stray(d) : d \in Singles} \cup Invalid

\* the direct tools have no parameter for the fields of another kind of order
EquityCalls == {Call("preview_equity_order", <<d>>) :
                  d \in {x \in Asked : x.offset = None /\ x.trail = Unnamed} \cup {Fund, Bond}}
OptionCalls == {Call("preview_option_order", <<d>>) :
                  d \in {x \in Asked : x.offset = None /\ x.stop = None /\ x.trail = Unnamed}}
TrailingCalls == {Call("preview_equity_trailing_stop_order", <<d>>) :
                    d \in {x \in Asked : /\ x.type = "TRAILING_STOP"
                                        /\ x.price = None /\ x.stop = None}}
Settings == {[Call("preview_equity_order", <<Limit>>) EXCEPT
                !.session = s, !.duration = d, !.clean = ok] :
               s \in {Unnamed, "AM"}, d \in {Unnamed, "GTC", "IOC", "FOK", "SOON"}, ok \in BOOLEAN}
Replacements == {Call("preview_replacement_order", <<d>>) :
                   d \in Asked \cup {Fund, [Limit EXCEPT !.duration = "GTC"],
                                     [Limit EXCEPT !.malformed = TRUE],
                                     [Limit EXCEPT !.asset = "BOND"]}}

Pairs == {<<Sell(Limit), Sell(Stop)>>, <<Option, Sell(StopLimit)>>, <<Fund, Bond>>, <<Limit, Bond>>,
          <<[Limit EXCEPT !.price = None], Stop>>, <<Trailing, [Limit EXCEPT !.session = "PM"]>>}
Ocos == {Call("preview_oco_order", p) : p \in Pairs}
Triggers == {Call("preview_trigger_order", <<Limit>> \o p) :
               p \in Pairs \cup {<<>>, <<Sell(Trailing)>>, <<Fund>>, <<Stop, Stop, Stop>>}}

Brackets ==
  {[Call("preview_bracket_order", <<d>>) EXCEPT
      !.profit = p, !.loss = l, !.lossType = t, !.lossLimit = m, !.exitDuration = "GTC"] :
     d \in {Limit, Sell(StopLimit)}, p \in {None, 25000}, l \in {None, 5700},
     t \in {"STOP", "STOP_LIMIT", "LIMIT", "MARKET"}, m \in {None, 6900}}
  \cup {[Call("preview_bracket_order", <<d>>) EXCEPT !.profit = 25000, !.exitSession = "AM"] :
           d \in {x \in Invalid : x.offset = None /\ x.trail = Unnamed} \cup {Fund}}

Combos == {Call("preview_option_combo_order", o) : o \in {<<Option>>, <<Option, Option>>}}

Listings == {[Call("get_orders", <<>>) EXCEPT !.statuses = s] :
               s \in {<<>>, <<"WORKING">>, <<"WORKING", "FILLED">>, <<"FILLED", "WORKING">>,
                      <<"WORKING", "WORKING">>, <<"PENDING_ACTIVATION", "WORKING", "CANCELED">>,
                      <<"WORKING", "LOST">>}}
            \cup {[Call("get_orders", <<>>) EXCEPT !.clean = FALSE]}

MCCalls == EquityCalls \cup OptionCalls \cup TrailingCalls \cup Settings \cup Replacements \cup Ocos
           \cup Triggers \cup Brackets \cup Combos \cup Listings
MCAssetType == [stock |-> "EQUITY", option |-> "OPTION", fund |-> "MUTUAL_FUND", bond |-> "BOND"]
MCBooks == [1..3 -> {"PENDING_ACTIVATION", "WORKING"}]
MCShortDoubles == {5700, 6900, 11300, 11400, 11500, 11600}
=============================================================================
