----------------------------- MODULE OrderTools -----------------------------
(***************************************************************************)
(* The read-only order tools of tools/orders.py: the preview tools, each   *)
(* building a specification, having its equity legs checked and asking     *)
(* Schwab for a preview; and get_orders, which merges one query per status *)
(* while the orders move.  An accepted preview is placed as it is (how is  *)
(* OrderWrites' subject), and the broker then executes its orders.         *)
(***************************************************************************)
EXTENDS OrderSpecs, FiniteSets

CONSTANTS
  Calls,      \* the tool calls
  AssetType,  \* symbol |-> the assetType Schwab's instruments endpoint knows
  Books       \* the books of orders get_orders may find: node |-> status

Unorderable == {"MUTUAL_FUND", "BOND", "FIXED_INCOME"}

Statuses == {"AWAITING_PARENT_ORDER", "PENDING_ACTIVATION", "WORKING", "FILLED", "CANCELED"}

\* what OrderDesc and the parameters of the tools hold
OrderDescs ==
  [symbol : DOMAIN AssetType, quantity : Int, instruction : STRING, type : STRING,
   price : Int, stop : Int, offset : Int, trail : STRING, asset : STRING,
   session : STRING, duration : STRING, malformed : BOOLEAN]

CallArguments ==
  [tool : STRING, orders : Seq(OrderDescs), clean : BOOLEAN, session : STRING, duration : STRING,
   type : STRING, price : Int, profit : Int, loss : Int, lossType : STRING, lossLimit : Int,
   exitSession : STRING, exitDuration : STRING, statuses : Seq(STRING)]

\* the tools that preview one order have no parameter for the fields of
\* another kind of order; a replacement is described by a dictionary
Signature(c) ==
  LET d == c.orders[1]
  IN CASE c.tool \in {"preview_equity_order", "preview_bracket_order"} ->
            Len(c.orders) = 1 /\ d.offset = None /\ d.trail = Unnamed
       [] c.tool = "preview_option_order" ->
            Len(c.orders) = 1 /\ d.stop = None /\ d.offset = None /\ d.trail = Unnamed
       [] c.tool = "preview_equity_trailing_stop_order" ->
            Len(c.orders) = 1 /\ d.price = None /\ d.stop = None
       [] c.tool = "preview_replacement_order" -> Len(c.orders) = 1
       [] c.tool = "preview_oco_order" -> Len(c.orders) = 2
       [] OTHER -> TRUE

ASSUME OrderToolsAssumption ==
  /\ \A c \in Calls : c \in CallArguments /\ Signature(c)
  /\ \A book \in Books : IsFiniteSet(DOMAIN book) /\ book \in [DOMAIN book -> Statuses]

VARIABLES
  call,        \* the arguments of the call
  phase,       \* where the call is
  spec,        \* the specification built
  todo,        \* the symbols left to look up, or the statuses left to query
  unanswered,  \* the symbols whose lookup gave no answer
  status,      \* order |-> status at the broker
  moved,       \* the orders whose status has changed during the call
  listed       \* get_orders' result so far: pairs of an order and its status

vars == <<call, phase, spec, todo, unanswered, status, moved, listed>>

Lists(c) == c.tool = "get_orders"

Init ==
  /\ call \in Calls
  /\ phase = "called"
  /\ spec = <<>>
  /\ todo = <<>>
  /\ unanswered = {}
  /\ status \in IF Lists(call) THEN Books ELSE {<<>>}
  /\ moved = {}
  /\ listed = <<>>

----------------------------------------------------------------------------
(* The preview tools. *)

\* a tool builds its specification; an identifier that may not go into a URL
\* (the call is not clean) makes it raise as well
Prepares(tool, built) ==
  /\ phase = "called"
  /\ call.tool = tool
  /\ IF built = Failed \/ ~call.clean
     THEN phase' = "raised" /\ UNCHANGED <<spec, todo>>
     ELSE /\ phase' = "checking"
          /\ spec' = built
          /\ todo' = EquityLegSymbols(built)
  /\ UNCHANGED <<call, unanswered, status, moved, listed>>

PreviewEquity == Prepares("preview_equity_order", PrepareEquity(call))
PreviewOption == Prepares("preview_option_order", PrepareOption(call))
PreviewTrailing == Prepares("preview_equity_trailing_stop_order", PrepareTrailing(call))
PreviewOco == Prepares("preview_oco_order", PrepareOco(call))
PreviewTrigger == Prepares("preview_trigger_order", PrepareTrigger(call))
PreviewBracket == Prepares("preview_bracket_order", PrepareBracket(call))
PreviewCombo == Prepares("preview_option_combo_order", PrepareCombo(call))
PreviewReplacement == Prepares("preview_replacement_order", PrepareReplacement(call))

\* _require_supported_asset_type for the next symbol: a lookup that fails or
\* makes no sense passes, a type known to be rejected raises
CheckAsset ==
  /\ phase = "checking"
  /\ todo # <<>>
  /\ \/ /\ unanswered' = unanswered \cup {Head(todo)}
        /\ todo' = Tail(todo)
        /\ UNCHANGED phase
     \/ /\ IF AssetType[Head(todo)] \in Unorderable
           THEN phase' = "raised" /\ UNCHANGED todo
           ELSE todo' = Tail(todo) /\ UNCHANGED phase
        /\ UNCHANGED unanswered
  /\ UNCHANGED <<call, spec, status, moved, listed>>

\* Schwab previews the order, and the preview is stored; or the request fails
Preview ==
  /\ phase = "checking"
  /\ todo = <<>>
  /\ phase' \in {"previewed", "raised"}
  /\ UNCHANGED <<call, spec, todo, unanswered, status, moved, listed>>

----------------------------------------------------------------------------
(* The broker. *)

Children(n) == {k \in DOMAIN spec : spec[k].parent = n}

Root(n) == spec[n].parent = 0
IsOco(n) == spec[n].strategy = "OCO"

\* the orders released once n is: n itself, or the two of an OCO
Released(n) == IF IsOco(n) THEN Children(n) ELSE {n}

\* the stored specification is placed: its root works, what a trigger holds
\* back awaits its parent
Place ==
  /\ phase = "previewed"
  /\ phase' = "placed"
  /\ status' = [n \in DOMAIN spec |-> IF n \in Released(1) \cup {1} THEN "WORKING"
                                      ELSE "AWAITING_PARENT_ORDER"]
  /\ UNCHANGED <<call, spec, todo, unanswered, moved, listed>>

\* the orders that leave the market when n fills: the other one of its OCO
Siblings(n) ==
  IF Root(n) \/ ~IsOco(spec[n].parent) THEN {} ELSE Children(spec[n].parent) \ {n}

Fill(n) ==
  /\ phase = "placed"
  /\ status[n] = "WORKING"
  /\ ~IsOco(n)
  /\ LET released == Children(n) \cup UNION {Released(k) : k \in Children(n)}
     IN status' = [k \in DOMAIN status |-> CASE k = n -> "FILLED"
                                             [] k \in released -> "WORKING"
                                             [] k \in Siblings(n) -> "CANCELED"
                                             [] OTHER -> status[k]]
  /\ UNCHANGED <<call, phase, spec, todo, unanswered, moved, listed>>

\* the orders of a book are single orders, which move by themselves
Moves == {<<"PENDING_ACTIVATION", "WORKING">>, <<"PENDING_ACTIVATION", "CANCELED">>,
          <<"WORKING", "FILLED">>, <<"WORKING", "CANCELED">>}

Move(n) ==
  /\ phase = "listing"
  /\ \E s \in Statuses :
       /\ <<status[n], s>> \in Moves
       /\ status' = [status EXCEPT ![n] = s]
  /\ moved' = moved \cup {n}
  /\ UNCHANGED <<call, phase, spec, todo, unanswered, listed>>

----------------------------------------------------------------------------
(* get_orders. *)

\* a date or a status that does not parse raises
GetOrders ==
  /\ phase = "called"
  /\ Lists(call)
  /\ IF call.clean /\ ToSet(call.statuses) \subseteq Statuses
     THEN phase' = "listing" /\ todo' = call.statuses
     ELSE phase' = "raised" /\ UNCHANGED todo
  /\ UNCHANGED <<call, spec, unanswered, status, moved, listed>>

\* one query's answer, in some order
Answers(matching) ==
  {[k \in DOMAIN s |-> <<s[k], status[s[k]]>>] : s \in SetToSeqs(matching)}

Merged_Appended(matching) == {listed \o s : s \in Answers(matching)}

\* an order that a former query returned is dropped from the answer
Merged(matching) ==
  {listed \o s : s \in Answers(matching \ {listed[k][1] : k \in DOMAIN listed})}

QueryStatus ==
  /\ phase = "listing"
  /\ todo # <<>>
  /\ \/ /\ listed' \in Merged({n \in DOMAIN status : status[n] = Head(todo)})
        /\ todo' = Tail(todo)
        /\ phase' = IF todo' = <<>> THEN "listed" ELSE "listing"
     \/ phase' = "raised" /\ UNCHANGED <<todo, listed>>  \* call raises
  /\ UNCHANGED <<call, spec, unanswered, status, moved>>

\* without a status: one query for all
QueryAll ==
  /\ phase = "listing"
  /\ call.statuses = <<>>
  /\ \/ listed' \in Answers(DOMAIN status) /\ phase' = "listed"
     \/ phase' = "raised" /\ UNCHANGED listed
  /\ UNCHANGED <<call, spec, todo, unanswered, status, moved>>

Next ==
  \/ PreviewEquity \/ PreviewOption \/ PreviewTrailing \/ PreviewOco
  \/ PreviewTrigger \/ PreviewBracket \/ PreviewCombo \/ PreviewReplacement
  \/ CheckAsset \/ Preview \/ Place
  \/ \E n \in DOMAIN status : Fill(n)
  \/ \E n \in DOMAIN status : Move(n)
  \/ GetOrders \/ QueryStatus \/ QueryAll

Spec == Init /\ [][Next]_vars

----------------------------------------------------------------------------
(* Properties. *)

\* However a specification nests its orders, no preview reaches Schwab with an
\* equity leg of a type its order endpoint rejects, unless the lookup of that
\* symbol could not answer.
Vetted ==
  phase \in {"previewed", "placed"} =>
    \A n \in DOMAIN spec : \A k \in DOMAIN spec[n].legs :
      LET leg == spec[n].legs[k]
      IN leg.asset = "EQUITY" /\ AssetType[leg.symbol] \in Unorderable => leg.symbol \in unanswered

\* the fields of order d are those of a node
Carries(node, d) ==
  /\ d.price # None => node.price = Sent(d.price)
  /\ d.stop # None => node.stop = Sent(d.stop)
  /\ d.offset # None => node.offset = d.offset
  /\ d.trail # Unnamed => node.link = d.trail

Exits == {n \in DOMAIN spec : ~Root(n) /\ ~IsOco(n)}

\* Every amount a caller gave for a single order, for a replacement or for a
\* bracket is in the specification the reviewer is shown, as the right kind of
\* price of the right order: one that would be ignored is refused.
NothingDropped ==
  spec # <<>> =>
    /\ call.tool \in {"preview_equity_order", "preview_option_order",
                      "preview_equity_trailing_stop_order", "preview_replacement_order",
                      "preview_bracket_order"} => Carries(spec[1], call.orders[1])
    /\ call.tool = "preview_bracket_order" =>
         /\ call.profit # None => \E n \in Exits : spec[n].price = Sent(call.profit)
         /\ call.loss # None => \E n \in Exits : Sent(call.loss) \in {spec[n].stop, spec[n].price}
         /\ call.lossLimit # None =>
              \E n \in Exits : spec[n].stop # None /\ spec[n].price = Sent(call.lossLimit)

Filled(N) == {n \in N : status[n] = "FILLED"}

\* Once placed, a composite order closes a position no more than once: at most
\* one of two exits fills, and none works before its entry has filled.
ExitsExclusive ==
  phase = "placed" =>
    /\ Cardinality(Filled(Exits)) <= 1
    /\ spec[1].strategy = "TRIGGER" =>
         \A n \in Exits : status[n] \in {"WORKING", "FILLED"} => status[1] = "FILLED"

\* get_orders returns no order twice, even one that moved from one requested
\* status to another between two queries, and every order that stayed in a
\* requested status while it asked.
ListingSound ==
  phase = "listed" =>
    /\ \A j, k \in DOMAIN listed : listed[j][1] = listed[k][1] => j = k
    /\ \A n \in DOMAIN status \ moved :
         call.statuses = <<>> \/ status[n] \in ToSet(call.statuses)
           => \E k \in DOMAIN listed : listed[k] = <<n, status[n]>>
=============================================================================
