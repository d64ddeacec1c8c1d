---------------------------- MODULE OrderWrites ----------------------------
(***************************************************************************)
(* The preview tools, the PreviewStore and the three order write tools     *)
(* (tools/orders.py, previews.py) over the approval desk that the managers *)
(* implement.  Every action is the code between two suspension points of   *)
(* the asyncio loop; the store itself never suspends.                      *)
(***************************************************************************)
EXTENDS Naturals, FiniteSets

CONSTANTS
  Accounts,     \* account hashes
  Orders,       \* ids of existing orders, the targets of replace and cancel
  Specs,        \* order specifications the builders produce
  PreviewIds,   \* ids token_hex can draw
  Previews,     \* the calls of the preview tools
  Writes,       \* the calls of the write tools
  TTL,          \* PreviewStore._ttl, in ticks
  MaxTime,      \* bound on the clock
  None

ASSUME OrderWritesAssumption ==
  /\ TTL \in Nat
  /\ MaxTime \in Nat
  /\ None \notin Orders \cup Specs \cup Previews

VARIABLES
  now,        \* time.monotonic()
  entries,    \* PreviewStore._entries: id -> entry, or None
  draft,      \* draft[p]: what the preview call p has built, or None
  phase,      \* phase[p]: "idle", "asking" (preview_order awaited) or "done"
  accepted,   \* history: the previews Schwab accepted
  pc,         \* pc[w]: where the write call w is suspended
  held,       \* held[w]: the entry w popped, or None
  tool,       \* tool[w]: which tool w calls and its arguments, or None
  wire,       \* wire[w]: "none", "sent" or "settled" broker request of w
  ledger,     \* the writes Schwab executed
  answer,     \* the approval desk
  votes

store == <<entries, draft, phase, accepted>>
calls == <<pc, held, tool>>
desk == <<answer, votes>>
broker == <<wire, ledger>>
vars == <<now, entries, draft, phase, accepted, pc, held, tool,
          wire, ledger, answer, votes>>

Desk == INSTANCE ApprovalDesk WITH Requests <- Writes

\* A preview is bound to an account, an operation and, for a replacement, a
\* target order (the checks at the top of PreviewStore.put).
Draft ==
  [account : Accounts, operation : {"PLACE_ORDER"}, spec : Specs, target : {None}]
    \cup
  [account : Accounts, operation : {"REPLACE_ORDER"}, spec : Specs, target : Orders]

\* Fault: the entry keeps its deadline where readers expect its creation.
EntryOf_Deadline(p, t) == [order |-> draft[p], preview |-> p, born |-> t + TTL]

\* An entry: the draft, the call it came from and its creation time.
EntryOf(p, t) == [order |-> draft[p], preview |-> p, born |-> t]
Entry == [order : Draft, preview : Previews, born : 0..MaxTime]

\* A call of a write tool; only cancel_order names an order itself.
ToolCall ==
  [operation : {"PLACE_ORDER", "REPLACE_ORDER"}, account : Accounts, order : {None}]
    \cup
  [operation : {"CANCEL"}, account : Accounts, order : Orders]

\* What a write tool makes Schwab do.
Write ==
  [call : Writes, account : Accounts, operation : {"PLACE_ORDER", "REPLACE_ORDER"},
   spec : Specs, target : Orders \cup {None}]
    \cup
  [call : Writes, account : Accounts, operation : {"CANCEL"},
   spec : {None}, target : Orders]

Suspended == {"popped", "asking", "writing"}

TypeOK ==
  /\ now \in 0..MaxTime
  /\ entries \in [PreviewIds -> Entry \cup {None}]
  /\ draft \in [Previews -> Draft \cup {None}]
  /\ phase \in [Previews -> {"idle", "asking", "done"}]
  /\ accepted \subseteq Previews
  /\ pc \in [Writes -> {"idle", "returned", "raised"} \cup Suspended]
  /\ held \in [Writes -> Entry \cup {None}]
  /\ tool \in [Writes -> ToolCall \cup {None}]
  /\ wire \in [Writes -> {"none", "sent", "settled"}]
  /\ ledger \subseteq Write
  /\ Desk!TypeOK

Init ==
  /\ now = 0
  /\ entries = [i \in PreviewIds |-> None]
  /\ draft = [p \in Previews |-> None]
  /\ phase = [p \in Previews |-> "idle"]
  /\ accepted = {}
  /\ pc = [w \in Writes |-> "idle"]
  /\ held = [w \in Writes |-> None]
  /\ tool = [w \in Writes |-> None]
  /\ wire = [w \in Writes |-> "none"]
  /\ ledger = {}
  /\ Desk!Init

Tick ==
  /\ now < MaxTime
  /\ now' = now + 1
  /\ UNCHANGED <<store, calls, broker, desk>>

-----------------------------------------------------------------------------
(* PreviewStore *)

\* created_at + ttl < now: an entry lives through the whole TTL.
Expired(e) == e.born + TTL < now

Live(i) == entries[i] # None /\ ~Expired(entries[i])

\* The table after _prune().
Pruned == [i \in PreviewIds |-> IF Live(i) THEN entries[i] ELSE None]

\* put(): prune, draw up to eight ids until one is free, store a copy.
Put(p) ==
  \/ \E i \in PreviewIds :
       /\ Pruned[i] = None
       /\ entries' = [Pruned EXCEPT ![i] = EntryOf(p, now)]
  \/ /\ \E i \in PreviewIds : Pruned[i] # None
     /\ entries' = Pruned

Take(w, i) ==
  /\ held' = [held EXCEPT ![w] = entries[i]]
  /\ entries' = [entries EXCEPT ![i] = None]
  /\ pc' = [pc EXCEPT ![w] = "popped"]

\* Drop whatever the table has under i and refuse.
RefuseAndDrop(w, i) ==
  /\ entries' = [entries EXCEPT ![i] = None]
  /\ pc' = [pc EXCEPT ![w] = "raised"]
  /\ UNCHANGED held

Refuse(w) ==
  /\ pc' = [pc EXCEPT ![w] = "raised"]
  /\ UNCHANGED <<entries, held>>

Matches(i, account, operation) ==
  entries[i].order.account = account /\ entries[i].order.operation = operation

\* Faults of pop(): the entry is looked up and not removed, ...
PopEntry_Keeps(w, i, account, operation) ==
  IF Live(i) /\ Matches(i, account, operation)
  THEN /\ held' = [held EXCEPT ![w] = entries[i]]
       /\ pc' = [pc EXCEPT ![w] = "popped"]
       /\ UNCHANGED entries
  ELSE Refuse(w)

\* ... or not checked against the operation.
PopEntry_AnyOperation(w, i, account, operation) ==
  IF ~Live(i) THEN RefuseAndDrop(w, i)
  ELSE IF entries[i].order.account = account THEN Take(w, i) ELSE Refuse(w)

\* pop() for a write call: an unknown or expired id is dropped and refused, a
\* mismatch is refused and leaves the entry in place.
PopEntry(w, i, account, operation) ==
  IF ~Live(i) THEN RefuseAndDrop(w, i)
  ELSE IF Matches(i, account, operation) THEN Take(w, i) ELSE Refuse(w)

-----------------------------------------------------------------------------
(* The preview tools *)

\* preview_*_order and preview_replacement_order: validate, build the order
\* and ask Schwab to preview it.  Invalid arguments raise and change nothing.
PreviewOrder(p) ==
  /\ phase[p] = "idle"
  /\ \E d \in Draft : draft' = [draft EXCEPT ![p] = d]
  /\ phase' = [phase EXCEPT ![p] = "asking"]
  /\ UNCHANGED <<now, entries, accepted, calls, broker, desk>>

FinalizePreview(p) ==
  /\ phase[p] = "asking"
  /\ Put(p)
  /\ accepted' = accepted \cup {p}
  /\ phase' = [phase EXCEPT ![p] = "done"]
  /\ UNCHANGED <<now, draft, calls, broker, desk>>

\* Fault: the entry is cached although the preview failed.
PreviewRefused_Cached(p) ==
  /\ phase[p] = "asking"
  /\ Put(p)
  /\ phase' = [phase EXCEPT ![p] = "done"]
  /\ UNCHANGED <<now, draft, accepted, calls, broker, desk>>

\* Schwab refuses the order, the asset-type guard does, or the call fails.
PreviewRefused(p) ==
  /\ phase[p] = "asking"
  /\ phase' = [phase EXCEPT ![p] = "done"]
  /\ UNCHANGED <<now, entries, draft, accepted, calls, broker, desk>>

-----------------------------------------------------------------------------
(* The write tools *)

Called(w, operation, account, order) ==
  /\ pc[w] = "idle"
  /\ tool' = [tool EXCEPT ![w] =
                [operation |-> operation, account |-> account, order |-> order]]
  /\ UNCHANGED <<now, draft, phase, accepted, broker, desk>>

\* The preview is taken before approval is asked, so that no second call can
\* take it meanwhile; a denied, expired or failed approval does not return it.
PlacePreviewedOrder(w) ==
  \E i \in PreviewIds, a \in Accounts :
    Called(w, "PLACE_ORDER", a, None) /\ PopEntry(w, i, a, "PLACE_ORDER")

ReplacePreviewedOrder(w) ==
  \E i \in PreviewIds, a \in Accounts :
    Called(w, "REPLACE_ORDER", a, None) /\ PopEntry(w, i, a, "REPLACE_ORDER")

CancelOrder(w) ==
  /\ \E a \in Accounts, o \in Orders : Called(w, "CANCEL", a, o)
  /\ pc' = [pc EXCEPT ![w] = "popped"]
  /\ UNCHANGED <<entries, held>>

\* run_approval: report progress (a suspension), then require().
RunApproval(w) ==
  /\ pc[w] = "popped"
  /\ pc' = [pc EXCEPT ![w] = "asking"]
  /\ Desk!Ask(w)
  /\ UNCHANGED <<now, store, held, tool, broker>>

\* A reviewer reacts to the prompt of w.
ReviewerVotes(w) ==
  /\ \E v \in Desk!Verdicts : Desk!Vote(w, v)
  /\ UNCHANGED <<now, store, calls, broker>>

\* Fault: whatever is not a denial lets the write through.
Decided_NotDenied(w) ==
  /\ pc[w] = "asking"
  /\ \E a \in Desk!Final :
       /\ Desk!Settle(w, a)
       /\ IF a # "denied"
          THEN /\ pc' = [pc EXCEPT ![w] = "writing"]
               /\ wire' = [wire EXCEPT ![w] = "sent"]
          ELSE /\ pc' = [pc EXCEPT ![w] = "raised"]
               /\ UNCHANGED wire
  /\ UNCHANGED <<now, store, held, tool, ledger>>

\* require() has answered.  Approved: send the broker request.  Denied raises
\* PermissionError, expired raises TimeoutError, an error propagates.
Decided(w) ==
  /\ pc[w] = "asking"
  /\ \E a \in Desk!Final :
       /\ Desk!Settle(w, a)
       /\ IF a = "approved"
          THEN /\ pc' = [pc EXCEPT ![w] = "writing"]
               /\ wire' = [wire EXCEPT ![w] = "sent"]
          ELSE /\ pc' = [pc EXCEPT ![w] = "raised"]
               /\ UNCHANGED wire
  /\ UNCHANGED <<now, store, held, tool, ledger>>

\* Fault: the target of a replacement is looked for among the arguments.
Request_OwnTarget(w) ==
  [call |-> w, account |-> tool[w].account, operation |-> tool[w].operation,
   spec |-> IF held[w] = None THEN None ELSE held[w].order.spec,
   target |-> tool[w].order]

\* The request of w: the account is the tool's argument, the specification
\* and the target of a replacement come from the entry it popped.
Request(w) ==
  [call |-> w, account |-> tool[w].account, operation |-> tool[w].operation,
   spec |-> IF held[w] = None THEN None ELSE held[w].order.spec,
   target |-> IF held[w] = None THEN tool[w].order ELSE held[w].order.target]

\* Schwab executes or refuses the request, whether or not w still waits.
BrokerExecutes(w) ==
  /\ wire[w] = "sent"
  /\ wire' = [wire EXCEPT ![w] = "settled"]
  /\ ledger' = ledger \cup {Request(w)}
  /\ UNCHANGED <<now, store, calls, desk>>

BrokerRefuses(w) ==
  /\ wire[w] = "sent"
  /\ wire' = [wire EXCEPT ![w] = "settled"]
  /\ UNCHANGED <<now, store, calls, ledger, desk>>

\* The response arrives (and the compact status is fetched), or the request
\* fails or times out: the tool returns or raises and never tries again.
WriteEnds(w) ==
  /\ pc[w] = "writing"
  /\ \/ wire[w] = "settled" /\ pc' = [pc EXCEPT ![w] = "returned"]
     \/ pc' = [pc EXCEPT ![w] = "raised"]
  /\ UNCHANGED <<now, store, held, tool, broker, desk>>

\* The MCP client cancels the call: a preview it popped stays consumed, and a
\* request on the wire stays on the wire.
CancelTool(w) ==
  /\ pc[w] \in Suspended
  /\ pc' = [pc EXCEPT ![w] = "raised"]
  /\ answer' = [answer EXCEPT ![w] = IF @ = "open" THEN "failed" ELSE @]
  /\ UNCHANGED <<now, store, held, tool, broker, votes>>

\* The session ends: its context, and the store in it, is dropped and its
\* calls are cancelled.  Nothing is persisted.
SessionEnds ==
  /\ entries' = [i \in PreviewIds |-> None]
  /\ phase' = [p \in Previews |-> IF phase[p] = "asking" THEN "done" ELSE phase[p]]
  /\ pc' = [w \in Writes |-> IF pc[w] \in Suspended THEN "raised" ELSE pc[w]]
  /\ answer' = [w \in Writes |-> IF answer[w] = "open" THEN "failed" ELSE answer[w]]
  /\ UNCHANGED <<now, draft, accepted, held, tool, broker, votes>>

-----------------------------------------------------------------------------
Preview(p) == PreviewOrder(p) \/ FinalizePreview(p) \/ PreviewRefused(p)

WriteTool(w) ==
  \/ PlacePreviewedOrder(w) \/ ReplacePreviewedOrder(w) \/ CancelOrder(w)
  \/ RunApproval(w) \/ Decided(w) \/ WriteEnds(w) \/ CancelTool(w)

Next ==
  \/ \E p \in Previews : Preview(p)
  \/ \E w \in Writes :
       WriteTool(w) \/ ReviewerVotes(w) \/ BrokerExecutes(w) \/ BrokerRefuses(w)
  \/ SessionEnds
  \/ Tick

Spec == Init /\ [][Next]_vars

-----------------------------------------------------------------------------
(* Properties *)

\* Whatever reached Schwab was approved by a reviewer for that very call.
WrittenOnlyIfApproved ==
  \A x \in ledger : <<x.call, "approve">> \in votes

\* Two write calls never get hold of the same preview, not even when they run
\* concurrently or when one of them ends without writing: "previews are
\* single-use" (place_previewed_order).
SingleUse ==
  \A v, w \in Writes :
    held[v] # None /\ held[w] # None /\ held[v].preview = held[w].preview => v = w

\* A placement or replacement is, in every field, the order Schwab accepted in
\* the preview: account, operation, specification and target order.
WrittenAsPreviewed ==
  \A x \in ledger : x.operation # "CANCEL" =>
    \E p \in accepted :
      /\ draft[p] = [account |-> x.account, operation |-> x.operation,
                     spec |-> x.spec, target |-> x.target]
      /\ held[x.call].preview = p

\* A live entry leaves the store only into the hands of a write call that named
\* its account and its operation, or when the session ends: a wrong account
\* hash or the wrong tool does not burn somebody's preview.  And what a write
\* call takes is still live, although nothing removes an entry on time.
HandedOverLive ==
  [][/\ \A i \in PreviewIds : Live(i) /\ entries'[i] # entries[i] =>
          \/ \E w \in Writes :
               /\ held[w] = None /\ held'[w] = entries[i]
               /\ tool'[w].account = entries[i].order.account
               /\ tool'[w].operation = entries[i].order.operation
          \/ SessionEnds
     /\ \A w \in Writes : held'[w] # held[w] => now <= held'[w].born + TTL]_vars

\* The order tools implement the write gate.
Taken(w) == IF held[w] = None THEN None ELSE held[w].preview
Gate == INSTANCE WriteGate WITH
  NoPreview <- None,
  reviewed <- accepted,
  claim <- [w \in Writes |-> Taken(w)],
  approved <- {w \in Writes : held[w] # None /\ answer[w] = "approved"},
  executed <- {x.call : x \in {y \in ledger : y.operation # "CANCEL"}}
GateSpec == Gate!Spec
=============================================================================
