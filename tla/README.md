# Verification of schwab-mcp

TLA+ models of the parts of `schwab-mcp` that decide whether an order reaches
Schwab, with TLC configurations that check them on small instances and TLAPS
proofs for every instance. Paths below are relative to `src/src/schwab_mcp/`.

## The system

`schwab-mcp` is an asyncio server that offers the Schwab trading API to an MCP
client. Reading is free; a *write tool* must first get a human's approval over
Signal or Discord. Orders go through two steps: a preview tool builds an order,
has Schwab preview it and caches it under an id; a write tool takes the id,
asks for approval and sends exactly the cached order. A fishing campaign gets one
approval and then cancels and replaces its child orders on its own.

| Component | State | Operations | What makes it correct |
|---|---|---|---|
| Approval contract, `approvals/base.py` | none | `require` | one answer per call, approved only by an authorized reviewer of that call |
| Signal backend, `approvals/signal.py` | `_pending` by send timestamp, futures, receive task, HTTP client | `start`, `stop`, `require`, `_receive_loop`, `_handle_envelope` | replies correlated with the right call, nothing stale in `_pending`, first verdict final, every call ends |
| Discord backend, `approvals/discord.py` | `_pending` by message id, futures, client task, ready event | `start`, `stop`, `require`, `_handle_reaction_add` | registered exactly while waiting, the message shows the answer or the verdict a timeout overrode |
| Preview store, `previews.py` | id -> entry | `put`, `pop`, `_prune` | single use, TTL, bound to account and operation |
| Order tools, `tools/orders.py` | none of their own | preview tools, `place_previewed_order`, `replace_previewed_order`, `cancel_order` | only approved, fresh, accepted previews are executed, as previewed |
| Approval wrapping, `tools/_registration.py` | keepalive task | `run_approval`, `_wrap_with_approval` | no write without approval, cancellation is honoured |
| Fishing, `tools/fishing.py` | `_CAMPAIGNS`, campaign, sub-orders, task | `place_option_order_with_fishing`, `_run_campaign`, `cancel_fishing`, `get_fishing_status` | one open order per chunk, true bookkeeping, termination, every order left open accounted for |
| Lifespan, `server.py`, `context.py` | one preview store per lifespan | start, stop | sessions do not disturb each other |
| CLI, `cli.py`; login, `auth.py`; files, `tokens.py` | token and credential files, the callback port and its server process | `server`, `auth`, `auth --manual`, `save-credentials` | write mode only with a complete backend, no truncated or stale token in service, no callback server left behind, every command ends |
| Order builders, `tools/order_helpers.py`, parts of `tools/orders.py` | none | pure | the specification says what the arguments say |
| Read-only tools, resources, indicators | none | pure proxies and numerics | out of scope |

The components meet in three places: the write tools call `require` and rely
only on its contract; the manager is shared by every session and `stop()` by any
of them; tools and tasks share the broker, which acts whenever it likes.

The hard behaviours are interleavings of calls, replies and reactions at the
suspension points of the event loop; answers that arrive before registration or
after a timeout; cancellation by the MCP client at any `await`; requests that are
executed although their answer is lost; orders that fill between a poll and the
request based on it. `PROJECT.json` lists them as hazards with their lines.

## Modules

An asyncio program changes state only between two suspension points, so one
action is the code between two `await`s that can really suspend. The locks of
the managers protect sections without such an `await`; they are never contended
and do not appear.

- **`ApprovalDesk`** - what `ApprovalManager.require` promises (`approvals/base.py`):
  a request is open until it gets one final answer, and the answer is `approved`
  only if a reviewer approved that request.
- **`SignalApproval`** - `SignalApprovalManager`. `pc[r]` is where the `require()`
  call of `r` is suspended (in the auto-denial notice, the prompt's POST, the wait,
  the expiry notice, the collision notice), `future[r]` its future, `pending` is
  `_pending`. `prompt` and `stamp` are the daemon's view: a prompt can be shown
  while its POST is still out, or after the caller has given up. `SharedStamps`
  says whether two prompts can get the same millisecond. `replies` is a history;
  `inbox` holds what the receive loop has not seen, and is lossy while the
  websocket is down. `stopper` splits `stop()` at its awaits. `Timeout` may win
  over a verdict that is already set, as `asyncio.wait_for` does from Python 3.12 on.
- **`DiscordApproval`** - `DiscordApprovalManager`, in the same way. `message` is
  what the channel displays and `edits` the edits that handler tasks have in
  flight; they race with the edits `require()` makes.
- **`WriteGate`** - what the preview and write tools promise about placements and
  replacements: out of an accepted, unused preview, after approval, once.
- **`OrderWrites`** - the preview store, the preview tools and the three write
  tools over an instance of `ApprovalDesk` (the composition: the backends are
  shown to implement the desk, the tools are checked over it). `held[w]` is the
  entry that call `w` popped, `wire` and `ledger` are the broker's side.
- **`Fishing`** - one campaign: the task, the `cancel_fishing` calls, and the
  broker with its child orders. `orders` is the truth at the broker, `sub` what
  the campaign believes. `Faults` chooses which misfortunes may happen. A price
  is abstracted to whether it has reached `range_end`; which chunks move is a
  free choice, which contains every pattern. `ChunkSizes` is what `FishingPrices`
  computes: `ChunksAreContracts` there proves what is assumed of it here.
- **`Prices`** - `_format_order_price` over ten-thousandths of a dollar. It
  truncates the scaled double towards zero; `ShortDoubles` are the amounts whose
  scaled double lies below the amount (0.57 * 10000 is 5699.99...), for which a last
  place is lost. `PricesAssumption` says that from a dollar up only whole cents can
  lose one, because the error of a double is far smaller than a cent.
- **`FishingPrices`** - the part that `Fishing` abstracts: `_validate_inputs`,
  `_auto_chunks`, `_initial_prices`, `_next_price`, the rounding, and what
  `Prices` makes of it on the wire. `Refuse` and `Launch` are the two ways a call
  goes, `Tick` a cycle of the loop, `ChunkEnds` the broker. A continuous draw (the
  random walk) is any cent between its two ends.
- **`OrderSpecs`** - the factories of `tools/order_helpers.py` and the `_prepare_*`
  and `_build_*` functions of `tools/orders.py` as pure operators. A specification
  is a tree, written as the sequence of its nodes in pre-order with their parents,
  so a recursive walk of the code is a walk of a sequence; a `ValueError` is the
  empty sequence.
- **`OrderTools`** - the calls that use them: one action per preview tool, then
  `CheckAsset` per equity symbol and `Preview`; `Place` and `Fill` are the broker's
  meaning of OCO and trigger orders. `GetOrders`, `QueryStatus`, `QueryAll` are
  `get_orders`, whose orders `Move` between two queries.
- **`Startup`** - the commands of `cli.py` as processes over a shared token file,
  credentials file and callback port. `OpenToken` to `Written` are `easy_client`
  and the login flow of `auth.py`; `Serve` is the age check and
  `_select_write_mode`; `Refresh` is the client's own refresh. A file is written in
  two steps (truncated, then filled) and `Crash` may come between any two steps.
- **`ToolCalls`** - one call through the wrappers of `register_tool`: `layers` are
  the wrappers still to pass, `keepalive` is the task of `run_approval`. `Cancel`
  cancels the request's scope, after which every further `await` raises, also
  after one that swallowed the cancellation (anyio's semantics, external).
- **`..._proofs`** - the theorems about the module of that name: `SignalApproval`,
  `DiscordApproval`, `OrderWrites`, `Startup`, `FishingPrices`, `Fishing`; those of
  `Tools_proofs` are about `ToolCalls` and `OrderTools`, which it extends both.
- **`Sums`** - lemmas about the sum of a function over a finite set
  (`SumFunctionOnSet`), by which both fishing modules count contracts: its recursion,
  how sums compare, and that an injection of the non-zero terms bounds them; and
  the first-order induction principles that `Tools_proofs` uses too.
- **`MC...`** - symmetry sets, constant values and the enumerated calls for TLC.

What composes what: `OrderWrites` uses `ApprovalDesk`, which `SignalApproval` and
`DiscordApproval` implement, and implements `WriteGate`; `OrderTools` puts
`OrderSpecs` behind the tools whose results `OrderWrites` carries as model values;
`FishingPrices` and `OrderSpecs` share `Prices`; `ToolCalls` refines the step
between "a tool is called" and "`require()` is called" that `OrderWrites` takes
in one action; `Startup` ends where the server begins to serve.

Operators named `Action_Something` are faults: each is the action beside it with
one plausible mistake, used to see that a property notices the mistake.

## Runs

| Run | Shows | Instance |
|---|---|---|
| `SignalUnique` | `TypeOK`, `ApprovedByOwnReply`, `WaitingIsRegistered`, `DeskSpec`, `EveryCallEnds` | 2 calls, 2 timestamps, distinct, an approver and a stranger, 1 reply |
| `SignalShared` | `NoStaleRegistration`, `ApprovedUnderItsStamp`, `VerdictSticks` | 3 calls, 2 timestamps that they may share, an approver and a stranger, 2 replies, of which one may be stray (`FewStrays`) |
| `SignalAmbiguous` | violation of `ApprovedByOwnReply` | 2 calls, one timestamp |
| `Discord` | `TypeOK`, `RegisteredWhileWaiting`, `DisplayAgrees`, `DeskSpec`, `PostedCallEnds` | 2 calls, an approver and a stranger, 2 reactions |
| `Orders` | `TypeOK`, `WrittenOnlyIfApproved`, `SingleUse`, `WrittenAsPreviewed`, `HandedOverLive`, `GateSpec` | 2 accounts, 2 previews, 2 writes, TTL 1, clock to 2 |
| `FishingReliable` | `TypeOK`, `OneOpenOrderPerChunk`, `EndAccountsForOrders`, `CampaignEnds`, `CancelReturns` | chunks of 2 and 1, 3 orders, one `cancel_fishing` at any time, orders may be queued and expire |
| `FishingFaulty` | `NeverOverreports`, `FilledMeansFilled`, `FinishedStaysFinished` | chunks of 2 and 1, 3 orders, five kinds of faults |
| `FishingOverfill` | violation of `NoOverfill` | one chunk of 2, no faults |
| `FishingPrices` | `ChunksCoverQuantity`, `OfferHolds`, `WalkArrives` | 46 requests around a dollar and down to zero, valid and invalid |
| `OrderTools` | `Vetted`, `NothingDropped`, `ExitsExclusive`, `ListingSound` | 248 pairs of a call and a book, books of 3 orders |
| `Startup` | `WritesReviewed`, `ListenerReaped`, `OnlyYoungTokensServe`, `CommandEnds` | 2 processes, 11 sets of options, a token that lives one tick, clock to 2 |
| `ToolCalls` | `GateInOrder`, `KeepaliveWithinWait` | every kind of tool, identifiers, progress token or not |

What some of these say. `ApprovedUnderItsStamp` asks for a reply of an authorized
reviewer to a prompt with the call's timestamp, so that `SignalShared` needs a
second timestamp and a stranger; with them it is the largest run (4.5 million
states), and `FewStrays` keeps it that small: both replies are verdicts, and at most
one must not count, a stranger's or one that quotes somebody else's message.
`DisplayAgrees` allows one disagreement between the channel and the tool: from
Python 3.12 on the timeout may win over a verdict already set, the tool is told
`expired`, and the edit of the reaction handler may land after the one that says so.
`HandedOverLive` says to whom a live preview may go: to a call that named its
account and its operation. `FilledMeansFilled` speaks of both things that say
"filled": the event "all chunks filled" takes the whole quantity, the status
`FILLED` without it (the code sets it on a partial fill, `tools/fishing.py:463`)
takes one order filled completely. `EndAccountsForOrders` names the two orders that
the end of a campaign may leave open: one last polled as queued, and one whose place
request `cancel_fishing` cut off. `OfferHolds` bounds a price by `range_end` and the
half cent that rounding may add, and the sent price by the campaign's price and a
cent below it; `WalkArrives` is restricted to linear walks whose step survives
rounding. `Vetted` says that the symbol walk finds every equity leg however orders
are nested; `ExitsExclusive` that a placed bracket or OCO cannot close a position
twice, which depends on how the builders nest it; `NothingDropped` that what a
caller gave for a single order, a replacement or a bracket is in what the reviewer
sees, or refused. `WritesReviewed` compares the mode a server serves in with the
options and stored credentials it came from: half a backend, two backends and blank
lists never fall back to unreviewed service.

Why the bounds are enough. Calls interact in pairs: one reply or one timestamp
can confuse two calls, and a third (in `SignalShared`) is what it takes for the
collision of two to disturb another. Two replies (`SignalShared`) or reactions
are the first verdict and whatever comes after it; one is enough in
`SignalUnique`, whose safety properties are also proved for any number. In
`Orders` two writes are what competes for a preview, two accounts are the right
and the wrong one, and a clock of TTL + 1 lets an entry be fresh, at its limit and
expired. In `Fishing` a chunk of two contracts can be partially filled, two chunks
are what the selection and the two cleanups interleave over, and 3 orders
leave one replacement (a fourth was tried in `FishingReliable` and showed nothing else). The prices of `FishingPrices` straddle a dollar,
where the number of places changes, and include ranges that end between two cents,
steps below a cent, amounts whose doubles fall short, and quantities around every
case of `_auto_chunks`. The calls of `OrderTools` take each builder with each
field supplied, missing or out of place, and each nesting; three orders are one per
requested status. Two processes are what shares a port or a file. The bounds are
`MaxReplies`, `MaxReactions`, `MaxTime`, `MaxOrders` (the broker refuses further
orders), `FewStrays` (above), `MaxFeint` (how far head-fakes may lead away from `range_start`; the code
has no bound) and `MaxNow`. Symmetry is used only in runs without liveness
properties (`SignalShared`, `Orders`). Runs whose system ends (a campaign, a tool
call, a listing) do not check deadlock.

Fairness. `SignalApproval` and `DiscordApproval`: weak fairness of `Progress(r)`,
that is, of each suspended call; its HTTP requests end within
`_HTTP_TIMEOUT_SECONDS` or discord.py's limits and `wait_for` within
`timeout_seconds`. Reviewers, the daemon, the receive loop and `stop()` are not
fair. Discord's wait for readiness has no bound in the code and gets no
fairness, which is why `PostedCallEnds` starts after it: when the login fails,
`require()` hangs. `Fishing`: weak fairness of the task, the passage of the four
hours, the broker's answers and each `cancel_fishing` call (its wait has a grace
period of ten seconds); fills and expiries are not fair. `FishingPrices`: weak
fairness of `Tick`, since the loop sleeps a bounded, jittered interval. `Startup`:
weak fairness of each process's own steps, of its callback server coming up or
exiting, and of the 300 seconds of `callback_timeout`; users, browsers, crashes and
whoever kills an orphan are not fair, and a paste or a save has no deadline.

## What the runs and the modelling found

Found by a run:

- `SignalAmbiguous`: two prompts with the same millisecond. The second is
  registered only when its POST returns; a reply quoting it before that approves
  the *first* call. The code and its test say that both must be denied.
- `FishingOverfill`: a partially filled chunk is placed again with its full size.

With shared timestamps `WaitingIsRegistered` does not hold either (of three calls
the first one's cleanup unregisters the third, which then can only expire); it is
checked, like `ApprovedByOwnReply` and `DeskSpec`, where timestamps are distinct.

Where the models follow the code although a document, a comment or a first reading
says otherwise:

- Signal: `docs/signal-setup.md:58` calls any other reply a denial; the code
  ignores it and a later approving reply still counts.
- Fishing: a task canceled during a place request loses the new order, and an order
  that is queued when the cleanups pass is not looked for (`is_working()` does not
  count it); both go on working after `cancel_fishing`. The docstring at
  `tools/fishing.py:728` says that the sub-orders still working are canceled.
  `EndAccountsForOrders` allows these two and no other. A partial fill followed by an expiry is reported as "no fills"
  (`tools/fishing.py:466`). A head-fake may lead past `range_start`, without
  bound. A linear step of half a cent or less never moves the price.
- Prices: 1.13 is sent as 1.12 and 0.57 as 0.5699, so a sale may be offered up to
  a cent below `range_end`; the summary rounds to two places (`tools/orders.py:941`)
  and can differ from what is sent.
- Composite orders: a `stop_price` of an option leg and the trail fields of
  a leg that does not trail are ignored; only the replacement tool refuses them.
  That is why `NothingDropped` speaks of single orders, replacements and brackets.
- `get_orders`: `max_results` counts per query; an order that moves between two
  queries is listed with its earlier status, or missed if it moved backwards in the
  list of statuses.
- Files: after a crash in a write the token file is empty, and `server` and `auth`
  fail until `auth --manual` or its deletion. A server's refresh overwrites a newer
  login. `load_credentials` raises for invalid YAML, which its docstring reads as
  absent fields.
- Login: `auth` with a young token returns without a login; a server whose token is
  too old runs the login flow itself; of two flows one may be handed the other's
  redirect and fail, and the other waits for its timeout. A killed process leaves
  its callback server on the port.
- Modes: a Discord token in the credentials file makes a `server` without other
  options, or with Signal's only, exit instead of serving read-only.

## What is proved

Every theorem holds for all values of the constants under the assumptions the
modules name (`SignalAssumption`, `OrderWritesAssumption`, ...), which TLC evaluates
in the runs. Each is `Spec => []Inv`, `Spec => [][A]_vars` or a refinement, and
rests on an inductive invariant that TLC checked before it was proved. The type
invariant is part of each of them.

**Signal** (`SignalApproval_proofs`): any number of requests, approvers, strangers,
timestamps and replies.

- `TypeCorrect`, and `NothingStale` (`NoStaleRegistration`), shared timestamps
  included. The property is not inductive alone: a step unregisters *its own*
  timestamp, so one must know that whoever waits or expires has a timestamp and a
  displayed prompt, that the table holds only such calls and under their own
  timestamp. This is `RegInv`.
- `OwnReplyOnly`: `~SharedStamps` implies `[]ApprovedByOwnReply`. `ReplyInv` adds to
  `RegInv` that displayed prompts have different timestamps, that replies quote
  displayed prompts, and that a decided future and a returned approval are
  justified by a reply to that very prompt. The heart is `FoundIsQuoted`: the call
  registered under the quoted timestamp is the call whose prompt was quoted.
- `OwnStampOnly`: `[]ApprovedUnderItsStamp`, shared timestamps included. This is what
  is left of the correlation when two prompts can be told apart no longer.
  `StampInv` needs that nobody's timestamp changes once people can quote it
  (`ChatGrows`), and that only the entry found is decided (`FutureApproved`).
- `NobodyWaitsInVain`: `~SharedStamps` implies `[]WaitingIsRegistered`. A step of one
  call removes at most the entry under its own timestamp, and by `ReplyInv` no other
  waiting call has that timestamp; a collision cannot occur.
- `FirstVerdictFinal` (`VerdictSticks`), shared timestamps included: a call that has
  not come to wait has no future yet.
- `SignalImplementsDesk`: `~SharedStamps` implies `Spec => DeskSpec`: each action is
  an `Ask`, a `Vote`, a `Settle` or a stutter of the desk.

**Discord** (`DiscordApproval_proofs`), without a hypothesis on message ids, which
Discord never repeats.

- `TypeCorrect`; `RegisteredIffWaiting` (`RegisteredWhileWaiting`), which is
  inductive with the types.
- `DisplayIsAccountedFor` (`DisplayAgrees`). `DisplayInv`: an edit in flight carries
  the verdict set on the future, a future exists only of a call that came to wait,
  and a message shows a verdict only if it is the future's or, for a denial, if
  there never was one. A call that is told approved or denied has that future, and
  one that is told expired came to wait.
- `DiscordImplementsDesk` (`DeskSpec`); `VoteInv` adds that an approved future has an
  authorized reaction to that very message.

**Orders** (`OrderWrites_proofs`), over any accounts, previews, writes and TTL.

- `TypeCorrect`; `PreviewsAreSingleUse` (`SingleUse`). `StoreInv`: an entry, stored or
  popped, is the draft of an accepted preview call, and a preview is in one place,
  under one id or in the hands of one call.
- `OnlyApprovedWrites` (`WrittenOnlyIfApproved`). `WriteInv`: a request is on the wire
  only of a call the desk approved, and what Schwab executed is the one request of
  a call whose answer counts as settled.
- `WritesAreAsPreviewed` (`WrittenAsPreviewed`), from both; `LivePreviewsAreHandedOver`
  (`HandedOverLive`), an action property: what `pop` hands over matches the account
  and operation that the call records (`PopType`), and `put` prunes no live entry.
- `OrderWritesImplementGate` (`GateSpec`): the refinement mapping reads the previews
  taken off the calls that hold them, and needs both invariants.

**Startup** (`Startup_proofs`), any number of processes and any sets of options.

- `TypeCorrect`: `[]TypeInv`, which says besides the types that a process past its
  login holds a whole token and that a server that serves has chosen its mode.
- `ListenersAreReaped` (`ListenerReaped`), `YoungTokensServe` (`OnlyYoungTokensServe`)
  and `WritesAreReviewed` (`WritesReviewed`). The last is a fact about
  `_select_write_mode` (lemma `ModeReviews`, by cases over the options and what the
  credentials file holds) carried by every step: only `Serve` chooses a mode.

**Wrappers** (`Tools_proofs`).

- `GatesInOrder` (`GateInOrder`). `LayersInv` follows the layers still to pass:
  whoever is past the outermost has no unsafe identifier, and the approval is the
  innermost.
- `KeepaliveEndsWithWait` (`KeepaliveWithinWait`), inductive as it stands.

**Order tools** (`Tools_proofs`), any calls of the right types, any asset types, any
books of finitely many orders, and any set of short doubles.

- `ListingIsSound` (`ListingSound`). The property speaks of the end of a listing.
  `ListingInv` says of every prefix that it has no order twice (`Distinct`), that an
  order that has not moved is listed with the status it has (`Current`), and
  that one whose status is asked for is listed or its status is still to be queried
  (`Covered`). `Extended` shows that appending an answer without the orders already
  listed keeps the first two, and `SeqsOfSet` that each answer, in whatever order, is
  a permutation of what matched. The moves between two queries only take orders
  out of what `Covered` speaks of.
- `EquitiesAreVetted` (`Vetted`), `AmountsAreKept` (`NothingDropped`) and
  `ExitsAreExclusive` (`ExitsExclusive`), all from `PreviewInv`: a specification has one
  of four shapes (`Shaped`: an order, an entry with an exit, two exits, an entry with
  two exits) and holds what its call gave (`Kept`); what may be of a rejected type is
  still to be looked up or unanswered (`Doubts`); and after the placement an exit that
  fills has ended the other one (`Apart`).
- What each builder returns is a lemma (`EquityOrderIs`, `OptionOrderIs`,
  `TrailingOrderIs`, `OrderFromDescIs`, `OcoIs`, `TriggerIs`, `BracketExitsAre`), and
  what each preview tool prepares is another (`EquityPrepared` to `BracketPrepared`).
  `Family` reads parents, children and siblings off the four shapes; of the
  orders that can fill, only an entry has children and only an exit has siblings, so
  that a fill disturbs no more than `Apart` allows.
- `EveryEquityLooked`: the walk of `_equity_leg_symbols` finds the symbol of every
  equity leg of every nested order. It is about two folds of the community modules,
  `FlattenSeq` and `FoldLeft`, whose recursive functions are shown to exist
  (`FlattensExists`, `FoldsExists`) before anything is said of their values.

**Prices** (`FishingPrices_proofs`), any request, any walk, any set of short doubles.

- `OffersHold` (`OfferHolds`). `WalkInv` keeps each price within half a cent of the
  range on the side of `range_end`, since clamping comes before rounding and
  rounding moves a price by half a cent at most (`RoundedWithin`, `MovedWithin`). How
  far below its price an offer is sent is `SentWithin`.
- `ChunksCover` (`ChunksCoverQuantity`), from the sums of what `_auto_chunks` returns
  (`AutoChunksCover`) and of sizes that were validated.
- `ChunksAreContracts`: what `Fishing` assumes of its chunks.

**Campaigns** (`Fishing_proofs`), any chunks, any number of `cancel_fishing` calls,
any bound on the orders, and any misfortunes unless a hypothesis says otherwise.

- `TypeCorrect`. `TypeInv` must know what the task awaits in each state (`TaskInv`),
  that a place request is on the wire exactly then (`WireInv`), and that whoever
  cancels does so when the task has only its cleanup left (`CallerInv`).
- `FinishedChunksRest` (`FinishedStaysFinished`): the selection of a cycle is older
  than its requests, but the chunks in it cannot end before their turn.
- `FillsAreReal` (`NeverOverreports`) and `FilledIsFilled` (`FilledMeansFilled`).
  `FillsInv`: a sub-order knows an order of its own chunk, and what it counts that
  order accounts for. The sum of the chunks is at most the sum of the orders because
  chunk |-> order is injective on what has been counted (`SumInjection`); that is
  how a campaign that says "all chunks filled" has had its quantity filled, lost
  answers, lost ids and interruptions included. For the status `FILLED` on a partial
  fill, `WholeInv` keeps that a chunk polled as filled has an order that was.
- `OneOpenOrder`: `Answering` implies `[]OneOpenOrderPerChunk`. `Answering` excludes the
  misfortunes by which an order escapes the campaign (an unanswered place
  request, an answer without an id, a cancellation that fails); TLC finds the
  property violated with each one of them. `OpenInv`: every open order is the one
  its chunk knows or the one whose answer is on its way, and only one of the two.
- `EndIsAccountedFor`: `Answering` implies `[]EndAccountsForOrders`. `EndInv`: the
  campaign knows of every open order that it is open, unless its answer has not been
  read; the cleanup of the task, when it is at chunk k, has settled every order
  before k; and of a task that was interrupted, whose own cleanup may have been cut
  short, some call's pass over the sub-orders is still to settle the rest
  (`Passing`) or has done so. Settled means ended, or one of the two
  exceptions. With any of the three misfortunes that `Answering` excludes TLC finds it
  violated.

Every invariant and action property of the passing runs, and each refinement, is
stated by one of these theorems. Model-checked only is liveness (`EveryCallEnds`,
`PostedCallEnds`, `CampaignEnds`, `CancelReturns`, `WalkArrives`, `CommandEnds`), which
under fairness is beyond TLAPS, as ENABLED is.

Induction over data needs care: the library's induction theorems take an operator
as a parameter, which the provers here cannot instantiate. `Sums` therefore proves
first-order principles (`LeastExists`, `SetInduction`, `SubsetInduction`), in which the
property is a set, and derives the recursion of the community modules' folds from
them. That a string literal is in `STRING` is not known to the provers either, so
`Words` adds to `STRING` the names that the builders write themselves.

What the theorems about `OrderTools` assume (`OrderToolsAssumption`) is what the
signatures of the tools and `OrderDesc` declare: the types of the fields, and for
each tool the fields it has no parameter for (`Signature`). Quantities and amounts
are any integers, negative ones included, as the code takes any; a book has finitely
many orders.

Proving changed the models in a few places. `PricesAssumption` was too weak: with
such `ShortDoubles` an offer could be sent two cents below its price, and a price of
0.0001, whose scaled double is 1.0 exactly, as nothing at all.
`OfferHolds` speaks of what is sent only of prices that are not negative: the
head-fakes of a buyer may lead below zero, where truncation goes the other way, and
the run now has such a request. `CASE` arms that overlapped, harmless to TLC
which takes the first, were made exclusive. The calls of `OrderTools` got the types
that nothing said they had, and its merge of answers and its walk of symbols are
written with set constructors and one fold, where `SelectSeq` could not be
reasoned about.

## What is not modelled

- The wording of prompts, embeds and summaries (only whether they fit), argument
  redaction, logging, and everything `ToolCalls` passes through unchanged: context
  injection, annotations and result transforms.
- `NoOpApprovalManager`, which approves everything by design; it appears only as a
  write mode in `Startup`.
- The campaign registry's pruning and `get_fishing_status` beyond what it reads;
  the lengths of jittered intervals (only that they end).
- The MCP transports and the session handshake. Sessions over one manager are
  modelled as `start()` and `stop()` at any time.
- The contents of quotes and accounts: the read-only market and account tools and
  the resources are single requests passed through, without state or control
  beyond the wrappers of `ToolCalls`; `get_orders` is the exception and is modelled.
- The technical indicators, which are numerics over series of doubles.

Within what is modelled, these details are simpler than the code:

- `SignalApproval`: one `stop()` at a time; two sessions that end together are two
  of them in a row.
- `DiscordApproval`: the edit that `require()` makes lands with its return, and a call
  cancelled during it leaves the message as it was. `NoOpApprovalManager` does not
  suspend, so in `ToolCalls` a cancelled call that it serves would be answered; neither
  property there depends on it.
- `Fishing`: an order is canceled when the cancel request is answered. Schwab may
  accept the request and leave the order in `PENDING_CANCEL`; `OneOpenOrderPerChunk`
  holds for synchronous cancels only, and `FishingFaulty` has the others as lost ones.
- `FishingPrices`: no replacement fails, so a walk moves with every cycle;
  `FishingFaulty` has the failures.
- `OrderSpecs`: a field of a replacement that is given as null counts as absent, while
  `tools/orders.py:768-791` counts it as supplied; unsupported keys are one kind of
  malformed order. `NothingDropped` compares with the amount as it is sent, so that the
  truncation of `Prices` is `OfferHolds`' matter.
- `OrderTools`: every listed order has an id (`tools/orders.py:1073` drops those
  without).
- `Startup`: two writers of one file that have both truncated it leave one whole
  token, where the code could leave a mixture of two; a killed callback
  server frees its port at once, while `auth.py:139` does not wait for it.
