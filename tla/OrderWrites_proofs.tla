------------------------- MODULE OrderWrites_proofs -------------------------
(***************************************************************************)
(* Proofs about OrderWrites for any number of accounts, previews and write *)
(* calls, any TTL and any bound on the clock: type correctness, writes     *)
(* only after approval, single use of previews, writes as previewed, what  *)
(* the store hands over, and that the order tools implement the write gate.*)
(***************************************************************************)
EXTENDS OrderWrites, TLAPS

-----------------------------------------------------------------------------
(* The inductive invariant *)

\* What Schwab is asked to preview has been built.
Drafts == \A p \in Previews : phase[p] = "asking" => draft[p] \in Draft

\* A write call that has not begun holds nothing; one that has, unless it was
\* refused, either cancels an order or holds an entry; and an entry is held for
\* the account and the operation that the call named.
Holding ==
  \A w \in Writes :
    /\ pc[w] = "idle" => held[w] = None /\ wire[w] = "none" /\ answer[w] = "idle"
    /\ pc[w] \in Suspended \/ wire[w] # "none" =>
         /\ tool[w] \in ToolCall
         /\ tool[w].operation = "CANCEL" <=> held[w] = None
    /\ held[w] # None =>
         /\ held[w].order.account = tool[w].account
         /\ held[w].order.operation = tool[w].operation

TypeInv == TypeOK /\ Drafts /\ Holding

\* An entry is the draft of a preview that Schwab accepted.
Sound(e) ==
  /\ e.preview \in accepted
  /\ phase[e.preview] = "done"
  /\ draft[e.preview] = e.order

Stored == \A i \in PreviewIds : entries[i] # None => Sound(entries[i])
Popped == \A w \in Writes : held[w] # None => Sound(held[w])

\* A preview is in one place: under one id or in the hands of one call.
OneEntry ==
  \A i, j \in PreviewIds :
    entries[i] # None /\ entries[j] # None /\ entries[i].preview = entries[j].preview => i = j
NotBoth ==
  \A i \in PreviewIds, w \in Writes :
    entries[i] # None /\ held[w] # None => entries[i].preview # held[w].preview

StoreInv == TypeInv /\ Stored /\ Popped /\ OneEntry /\ NotBoth /\ SingleUse

\* A request is on the wire only of a call that was approved, and what Schwab
\* executed is the one request of a call.
Sending ==
  \A w \in Writes : wire[w] # "none" => answer[w] = "approved" /\ <<w, "approve">> \in votes
Executed == \A x \in ledger : wire[x.call] = "settled" /\ x = Request(x.call)

WriteInv == TypeInv /\ Sending /\ Executed
GateInv == StoreInv /\ WriteInv

-----------------------------------------------------------------------------
(* Type correctness *)

\* What pop() hands over is an entry for the account and operation asked for.
LEMMA PopType ==
  ASSUME TypeOK, NEW w \in Writes, NEW i \in PreviewIds, NEW a \in Accounts,
         NEW op \in {"PLACE_ORDER", "REPLACE_ORDER"}, PopEntry(w, i, a, op)
  PROVE  /\ entries' \in [PreviewIds -> Entry \cup {None}]
         /\ held' \in [Writes -> Entry \cup {None}]
         /\ \/ /\ pc' = [pc EXCEPT ![w] = "popped"]
               /\ entries[i] # None /\ ~Expired(entries[i]) /\ Matches(i, a, op)
               /\ held' = [held EXCEPT ![w] = entries[i]]
               /\ entries' = [entries EXCEPT ![i] = None]
            \/ /\ pc' = [pc EXCEPT ![w] = "raised"]
               /\ held' = held
               /\ \/ entries' = entries
                  \/ ~Live(i) /\ entries' = [entries EXCEPT ![i] = None]
BY DEF PopEntry, Take, RefuseAndDrop, Refuse, Live, TypeOK

\* What put() leaves in the table: the live entries, and the new one, if there
\* was a free id, where no live one was.
LEMMA PutType ==
  ASSUME TypeInv, NEW p \in Previews, phase[p] = "asking", Put(p)
  PROVE  /\ entries' \in [PreviewIds -> Entry \cup {None}]
         /\ \A i \in PreviewIds : Live(i) => entries'[i] = entries[i]
         /\ \A i \in PreviewIds :
              \/ entries'[i] = entries[i]
              \/ entries'[i] = None
              \/ entries'[i] = EntryOf(p, now)
         /\ \A i, j \in PreviewIds :
              entries'[i] # entries[i] /\ entries'[i] # None
                /\ entries'[j] # entries[j] /\ entries'[j] # None => i = j
<1>1. EntryOf(p, now) \in Entry
  BY DEF TypeInv, TypeOK, Drafts, EntryOf, Entry
<1>2. /\ Pruned \in [PreviewIds -> Entry \cup {None}]
      /\ \A i \in PreviewIds : Live(i) => Pruned[i] = entries[i] /\ Pruned[i] # None
      /\ \A i \in PreviewIds : Pruned[i] = entries[i] \/ Pruned[i] = None
  BY DEF TypeInv, TypeOK, Pruned, Live
<1>3. CASE entries' = Pruned
  BY <1>2, <1>3
<1>4. ASSUME NEW k \in PreviewIds, Pruned[k] = None,
             entries' = [Pruned EXCEPT ![k] = EntryOf(p, now)]
      PROVE  /\ entries' \in [PreviewIds -> Entry \cup {None}]
             /\ entries'[k] = EntryOf(p, now) /\ ~Live(k)
             /\ \A i \in PreviewIds \ {k} : entries'[i] = Pruned[i]
  BY <1>1, <1>2, <1>4
<1> QED
  BY <1>2, <1>3, <1>4 DEF Put

LEMMA TypeStep == TypeInv /\ [Next]_vars => TypeInv'
<1> SUFFICES ASSUME TypeInv, [Next]_vars PROVE TypeInv'
  OBVIOUS
<1> USE OrderWritesAssumption DEF TypeInv, TypeOK, Drafts, Holding, Suspended, store, calls, desk, broker
<1>1. ASSUME NEW p \in Previews, PreviewOrder(p) PROVE TypeInv'
  BY <1>1 DEF PreviewOrder, Desk!TypeOK
<1>2. ASSUME NEW p \in Previews, FinalizePreview(p) PROVE TypeInv'
  <2>1. entries' \in [PreviewIds -> Entry \cup {None}]
    BY <1>2, PutType DEF FinalizePreview
  <2> QED
    BY <1>2, <2>1 DEF FinalizePreview, Desk!TypeOK
<1>3. ASSUME NEW p \in Previews, PreviewRefused(p) PROVE TypeInv'
  BY <1>3 DEF PreviewRefused, Desk!TypeOK
<1>4. ASSUME NEW w \in Writes, NEW i \in PreviewIds, NEW a \in Accounts,
             NEW op \in {"PLACE_ORDER", "REPLACE_ORDER"},
             Called(w, op, a, None), PopEntry(w, i, a, op)
      PROVE  TypeInv'
  <2>1. /\ entries' \in [PreviewIds -> Entry \cup {None}]
        /\ held' \in [Writes -> Entry \cup {None}]
    BY <1>4, PopType
  <2>2. [operation |-> op, account |-> a, order |-> None] \in ToolCall
    BY DEF ToolCall
  <2>3. tool' = [tool EXCEPT ![w] = [operation |-> op, account |-> a, order |-> None]]
    BY <1>4 DEF Called
  <2>4. pc' \in [Writes -> {"idle", "returned", "raised"} \cup Suspended]
    BY <1>4, PopType
  <2>5. Holding'
    <3>1. \A v \in Writes \ {w} : pc'[v] = pc[v] /\ held'[v] = held[v] /\ tool'[v] = tool[v]
      BY <1>4, <2>3, PopType
    <3>2. wire[w] = "none" /\ held[w] = None /\ UNCHANGED <<wire, answer>>
      BY <1>4 DEF Called
    <3>3. \/ pc'[w] = "raised" /\ held'[w] = None
          \/ /\ pc'[w] = "popped" /\ held'[w] # None
             /\ held'[w].order.account = a /\ held'[w].order.operation = op
      BY <1>4, <3>2, PopType DEF Matches
    <3>4. tool'[w] \in ToolCall /\ tool'[w].operation = op /\ tool'[w].account = a
      BY <2>2, <2>3
    <3> QED
      BY <3>1, <3>2, <3>3, <3>4
  <2>6. TypeOK'
    <3>1. tool' \in [Writes -> ToolCall \cup {None}]
      BY <2>2, <2>3
    <3>2. UNCHANGED <<now, draft, phase, accepted, wire, ledger, answer, votes>>
      BY <1>4 DEF Called
    <3> QED
      BY <2>1, <2>4, <3>1, <3>2 DEF Desk!TypeOK
  <2>7. Drafts'
    BY <1>4 DEF Called
  <2> QED
    BY <2>5, <2>6, <2>7
<1>5. ASSUME NEW w \in Writes, CancelOrder(w) PROVE TypeInv'
  <2>1. PICK a \in Accounts, o \in Orders : Called(w, "CANCEL", a, o)
    BY <1>5 DEF CancelOrder
  <2>2. [operation |-> "CANCEL", account |-> a, order |-> o] \in ToolCall
    BY DEF ToolCall
  <2> QED
    BY <1>5, <2>1, <2>2 DEF CancelOrder, Called, Desk!TypeOK
<1>6. ASSUME NEW w \in Writes, RunApproval(w) PROVE TypeInv'
  BY <1>6 DEF RunApproval, Desk!Ask, Desk!TypeOK
<1>7. ASSUME NEW w \in Writes, Decided(w) PROVE TypeInv'
  BY <1>7 DEF Decided, Desk!Settle, Desk!Final, Desk!TypeOK
<1>8. ASSUME NEW w \in Writes, WriteEnds(w) PROVE TypeInv'
  BY <1>8 DEF WriteEnds, Desk!TypeOK
<1>9. ASSUME NEW w \in Writes, CancelTool(w) PROVE TypeInv'
  BY <1>9 DEF CancelTool, Desk!Final, Desk!TypeOK
<1>10. ASSUME NEW w \in Writes, ReviewerVotes(w) PROVE TypeInv'
  BY <1>10 DEF ReviewerVotes, Desk!Vote, Desk!Verdicts, Desk!TypeOK
<1>11. ASSUME NEW w \in Writes, BrokerExecutes(w) PROVE TypeInv'
  <2>1. Request(w) \in Write
    <3>1. tool[w] \in ToolCall /\ (tool[w].operation = "CANCEL" <=> held[w] = None)
      BY <1>11 DEF BrokerExecutes
    <3>2. CASE held[w] = None
      BY <3>1, <3>2 DEF Request, Write, ToolCall
    <3>3. CASE held[w] # None
      <4>1. held[w].order \in Draft
        BY <3>3 DEF Entry
      <4> QED
        BY <3>1, <3>3, <4>1 DEF Request, Write, ToolCall, Draft
    <3> QED
      BY <3>2, <3>3
  <2> QED
    BY <1>11, <2>1 DEF BrokerExecutes, Desk!TypeOK
<1>12. ASSUME NEW w \in Writes, BrokerRefuses(w) PROVE TypeInv'
  BY <1>12 DEF BrokerRefuses, Desk!TypeOK
<1>13. CASE SessionEnds
  BY <1>13 DEF SessionEnds, Desk!Final, Desk!TypeOK
<1>14. CASE Tick
  BY <1>14 DEF Tick, Desk!TypeOK
<1>15. CASE UNCHANGED vars
  BY <1>15 DEF vars, Desk!TypeOK
<1> QED
  BY <1>1, <1>2, <1>3, <1>4, <1>5, <1>6, <1>7, <1>8, <1>9, <1>10, <1>11, <1>12, <1>13, <1>14, <1>15
     DEF Next, Preview, WriteTool, PlacePreviewedOrder, ReplacePreviewedOrder

LEMMA TypeInit == Init => TypeInv
BY OrderWritesAssumption
   DEF Init, TypeInv, TypeOK, Drafts, Holding, Suspended, Desk!Init, Desk!TypeOK

\* Every reachable state is well typed, whatever the constants.
THEOREM TypeCorrect == Spec => []TypeOK
<1>1. TypeInv => TypeOK
  BY DEF TypeInv
<1> QED
  BY <1>1, TypeInit, TypeStep, PTL DEF Spec

-----------------------------------------------------------------------------
(* Previews are single-use *)

\* A step that touches neither what is stored or held nor what it is drawn from
\* keeps the store in order.
LEMMA StoreFrame ==
  ASSUME StoreInv, TypeInv',
         UNCHANGED held,
         \A i \in PreviewIds : entries'[i] = entries[i] \/ entries'[i] = None,
         accepted \subseteq accepted',
         \A p \in Previews : phase[p] = "done" => phase'[p] = "done" /\ draft'[p] = draft[p]
  PROVE  StoreInv'
<1>1. \A e \in Entry : Sound(e) => Sound(e)'
  BY DEF Sound, Entry
<1>2. Stored' /\ Popped'
  BY <1>1 DEF StoreInv, TypeInv, TypeOK, Stored, Popped
<1>3. OneEntry' /\ NotBoth' /\ SingleUse'
  BY DEF StoreInv, OneEntry, NotBoth, SingleUse
<1> QED
  BY <1>2, <1>3 DEF StoreInv

\* Every step keeps every preview in one place: an entry moves from the store
\* to one call, and no preview is stored twice.
LEMMA StoreStep == StoreInv /\ [Next]_vars => StoreInv'
<1> SUFFICES ASSUME StoreInv, [Next]_vars PROVE StoreInv'
  OBVIOUS
<1>0. TypeInv /\ TypeOK /\ TypeInv'
  BY TypeStep DEF StoreInv, TypeInv
<1>1. ASSUME NEW p \in Previews, FinalizePreview(p) PROVE StoreInv'
  <2> DEFINE new == EntryOf(p, now)
  <2>1. /\ phase[p] = "asking" /\ Put(p) /\ accepted' = accepted \cup {p}
        /\ phase' = [phase EXCEPT ![p] = "done"] /\ UNCHANGED <<draft, held>>
    BY <1>1 DEF FinalizePreview, calls
  <2>2. /\ \A i \in PreviewIds :
             entries'[i] = entries[i] \/ entries'[i] = None \/ entries'[i] = new
        /\ \A i, j \in PreviewIds :
             entries'[i] # entries[i] /\ entries'[i] # None
               /\ entries'[j] # entries[j] /\ entries'[j] # None => i = j
    BY <1>0, <2>1, PutType
  <2> DEFINE Kept(e) == /\ e.preview \in accepted' /\ phase'[e.preview] = "done"
                        /\ draft'[e.preview] = e.order
  <2>3. \A e \in Entry : Sound(e) => Kept(e) /\ e.preview # p
    BY <1>0, <2>1 DEF Sound, Entry, TypeOK
  <2>4. new.preview = p /\ Kept(new)
    BY <1>0, <2>1 DEF EntryOf, TypeOK
  <2>5. \A i \in PreviewIds : entries[i] # None => Kept(entries[i]) /\ entries[i].preview # p
    BY <1>0, <2>3 DEF StoreInv, Stored, TypeOK
  <2>6. \A w \in Writes : held[w] # None => Kept(held[w]) /\ held[w].preview # p
    BY <1>0, <2>3 DEF StoreInv, Popped, TypeOK
  <2>7. Stored'
    BY <2>2, <2>4, <2>5 DEF Stored, Sound
  <2>8. Popped' /\ SingleUse'
    BY <2>1, <2>6 DEF Popped, Sound, StoreInv, SingleUse
  <2>9. OneEntry' /\ NotBoth'
    BY <2>1, <2>2, <2>4, <2>5, <2>6 DEF StoreInv, OneEntry, NotBoth
  <2> QED
    BY <1>0, <2>7, <2>8, <2>9 DEF StoreInv
<1>2. ASSUME NEW p \in Previews, PreviewOrder(p) \/ PreviewRefused(p) PROVE StoreInv'
  BY <1>0, <1>2, StoreFrame DEF PreviewOrder, PreviewRefused, TypeOK, calls
<1>3. ASSUME NEW w \in Writes, NEW i \in PreviewIds, NEW a \in Accounts,
             NEW op \in {"PLACE_ORDER", "REPLACE_ORDER"},
             Called(w, op, a, None), PopEntry(w, i, a, op)
      PROVE  StoreInv'
  <2>1. UNCHANGED <<accepted, phase, draft>>
    BY <1>3 DEF Called
  <2>2. held[w] = None
    BY <1>0, <1>3 DEF Called, TypeInv, Holding
  <2>3. CASE held' = held
    BY <1>0, <1>3, <2>1, <2>3, PopType, StoreFrame DEF TypeOK
  <2>4. CASE /\ entries[i] # None
             /\ held' = [held EXCEPT ![w] = entries[i]]
             /\ entries' = [entries EXCEPT ![i] = None]
    <3>1. \A v \in Writes : held'[v] = IF v = w THEN entries[i] ELSE held[v]
      BY <1>0, <2>4 DEF TypeOK
    <3>2. \A j \in PreviewIds : entries'[j] = IF j = i THEN None ELSE entries[j]
      BY <1>0, <2>4 DEF TypeOK
    <3>3. Stored' /\ Popped'
      BY <2>1, <2>4, <3>1, <3>2 DEF StoreInv, Stored, Popped, Sound
    <3>4. OneEntry' /\ NotBoth' /\ SingleUse'
      BY <2>4, <3>1, <3>2 DEF StoreInv, OneEntry, NotBoth, SingleUse
    <3> QED
      BY <1>0, <3>3, <3>4 DEF StoreInv
  <2> QED
    BY <1>0, <1>3, <2>3, <2>4, PopType
<1>4. ASSUME UNCHANGED <<held, entries, accepted, phase, draft>> PROVE StoreInv'
  BY <1>0, <1>4, StoreFrame
<1>5. ASSUME NEW w \in Writes,
             \/ CancelOrder(w) \/ RunApproval(w) \/ Decided(w) \/ WriteEnds(w) \/ CancelTool(w)
             \/ ReviewerVotes(w) \/ BrokerExecutes(w) \/ BrokerRefuses(w)
      PROVE  StoreInv'
  BY <1>4, <1>5 DEF CancelOrder, Called, RunApproval, Decided, WriteEnds, CancelTool,
                    ReviewerVotes, BrokerExecutes, BrokerRefuses, store, calls
<1>6. CASE SessionEnds
  BY <1>0, <1>6, StoreFrame DEF SessionEnds, TypeOK
<1>7. CASE Tick \/ UNCHANGED vars
  BY <1>4, <1>7 DEF Tick, vars, store, calls
<1> QED
  BY <1>1, <1>2, <1>3, <1>5, <1>6, <1>7
     DEF Next, Preview, WriteTool, PlacePreviewedOrder, ReplacePreviewedOrder

LEMMA StoreInit == Init => StoreInv
BY TypeInit DEF Init, StoreInv, Stored, Popped, OneEntry, NotBoth, SingleUse

\* Two write calls never hold the same preview, whatever races for it and
\* however its users end.
THEOREM PreviewsAreSingleUse == Spec => []SingleUse
<1>1. StoreInv => SingleUse
  BY DEF StoreInv
<1> QED
  BY <1>1, StoreInit, StoreStep, PTL DEF Spec

-----------------------------------------------------------------------------
(* Writes are approved, and as previewed *)

\* A call that has begun keeps its tool's arguments and what it popped.
LEMMA CallKeeps ==
  ASSUME TypeInv, [Next]_vars, NEW v \in Writes, pc[v] # "idle"
  PROVE  pc'[v] # "idle" /\ tool'[v] = tool[v] /\ held'[v] = held[v]
<1> USE DEF TypeInv, TypeOK, store, calls, Suspended
<1>1. ASSUME NEW w \in Writes, NEW i \in PreviewIds, NEW a \in Accounts,
             NEW op \in {"PLACE_ORDER", "REPLACE_ORDER"},
             Called(w, op, a, None), PopEntry(w, i, a, op)
      PROVE  pc'[v] # "idle" /\ tool'[v] = tool[v] /\ held'[v] = held[v]
  BY <1>1, PopType DEF Called
<1>2. ASSUME NEW w \in Writes, CancelOrder(w)
      PROVE  pc'[v] # "idle" /\ tool'[v] = tool[v] /\ held'[v] = held[v]
  BY <1>2 DEF CancelOrder, Called
<1>3. ASSUME NEW w \in Writes,
             RunApproval(w) \/ Decided(w) \/ WriteEnds(w) \/ CancelTool(w)
      PROVE  pc'[v] # "idle" /\ tool'[v] = tool[v] /\ held'[v] = held[v]
  BY <1>3 DEF RunApproval, Decided, WriteEnds, CancelTool
<1>4. ASSUME NEW w \in Writes, ReviewerVotes(w) \/ BrokerExecutes(w) \/ BrokerRefuses(w)
      PROVE  pc'[v] # "idle" /\ tool'[v] = tool[v] /\ held'[v] = held[v]
  BY <1>4 DEF ReviewerVotes, BrokerExecutes, BrokerRefuses
<1>5. ASSUME NEW p \in Previews, Preview(p)
      PROVE  pc'[v] # "idle" /\ tool'[v] = tool[v] /\ held'[v] = held[v]
  BY <1>5 DEF Preview, PreviewOrder, FinalizePreview, PreviewRefused
<1>6. CASE SessionEnds \/ Tick \/ UNCHANGED vars
  BY <1>6 DEF SessionEnds, Tick, vars
<1> QED
  BY <1>1, <1>2, <1>3, <1>4, <1>5, <1>6
     DEF Next, WriteTool, PlacePreviewedOrder, ReplacePreviewedOrder

\* Requests are sent after approval only, executed at most once, and as they
\* were sent.
LEMMA WriteStep == WriteInv /\ [Next]_vars => WriteInv'
<1> SUFFICES ASSUME WriteInv, [Next]_vars PROVE Sending' /\ Executed'
  BY TypeStep DEF WriteInv
<1>0. TypeInv /\ TypeOK /\ TypeInv'
  BY TypeStep DEF WriteInv, TypeInv
<1>1. ASSUME NEW x \in ledger
      PROVE  /\ x.call \in Writes /\ wire[x.call] = "settled" /\ x = Request(x.call)
             /\ tool'[x.call] = tool[x.call] /\ held'[x.call] = held[x.call]
  <2>1. x.call \in Writes /\ wire[x.call] = "settled" /\ x = Request(x.call)
    BY <1>0 DEF TypeOK, Write, WriteInv, Executed
  <2>2. pc[x.call] # "idle"
    BY <1>0, <2>1 DEF TypeInv, Holding
  <2> QED
    BY <1>0, <2>1, <2>2, CallKeeps
<1>2. ASSUME ledger' = ledger, \A w \in Writes : wire[w] = "settled" => wire'[w] = "settled"
      PROVE  Executed'
  BY <1>1, <1>2 DEF Executed, Request
<1>3. ASSUME NEW w \in Writes, BrokerExecutes(w) PROVE Sending' /\ Executed'
  <2>1. /\ wire[w] = "sent" /\ wire' = [wire EXCEPT ![w] = "settled"]
        /\ ledger' = ledger \cup {Request(w)}
        /\ UNCHANGED <<tool, held, answer, votes>>
    BY <1>3 DEF BrokerExecutes, calls, desk
  <2>2. Request(w).call = w
    BY DEF Request
  <2>3. ASSUME NEW x \in ledger' PROVE wire'[x.call] = "settled" /\ x = Request(x.call)'
    BY <1>0, <1>1, <2>1, <2>2, <2>3 DEF Request, TypeOK
  <2>4. Sending'
    BY <1>0, <2>1 DEF WriteInv, Sending, TypeOK
  <2> QED
    BY <2>3, <2>4 DEF Executed
<1>4. ASSUME NEW w \in Writes, Decided(w) PROVE Sending' /\ Executed'
  <2>1. pc[w] = "asking" /\ ledger' = ledger /\ votes' = votes
    BY <1>4 DEF Decided, Desk!Settle
  <2>2. PICK a \in Desk!Final :
          /\ answer[w] = "open" /\ answer' = [answer EXCEPT ![w] = a]
          /\ a = "approved" => <<w, "approve">> \in votes
          /\ \/ a = "approved" /\ wire' = [wire EXCEPT ![w] = "sent"]
             \/ wire' = wire
    BY <1>4 DEF Decided, Desk!Settle
  <2>3. wire[w] = "none"
    BY <1>0, <2>2 DEF WriteInv, Sending, TypeOK
  <2>4. Sending'
    BY <1>0, <2>1, <2>2 DEF WriteInv, Sending, TypeOK, Desk!TypeOK
  <2> QED
    BY <1>0, <1>2, <2>1, <2>2, <2>3, <2>4 DEF TypeOK
<1>5. ASSUME NEW w \in Writes, BrokerRefuses(w) PROVE Sending' /\ Executed'
  BY <1>0, <1>2, <1>5 DEF BrokerRefuses, desk, WriteInv, Sending, TypeOK
<1>6. ASSUME UNCHANGED <<wire, ledger>>, votes \subseteq votes',
             \A w \in Writes : answer[w] = "approved" => answer'[w] = "approved"
      PROVE  Sending' /\ Executed'
  BY <1>2, <1>6 DEF WriteInv, Sending
<1>7. ASSUME NEW w \in Writes, RunApproval(w) \/ CancelTool(w) \/ ReviewerVotes(w)
      PROVE  Sending' /\ Executed'
  BY <1>0, <1>6, <1>7 DEF RunApproval, CancelTool, ReviewerVotes, Desk!Ask, Desk!Vote, broker,
                          TypeOK, Desk!TypeOK
<1>8. CASE SessionEnds
  BY <1>6, <1>8 DEF SessionEnds, broker
<1>9. ASSUME UNCHANGED <<wire, ledger, answer, votes>> PROVE Sending' /\ Executed'
  BY <1>6, <1>9
<1>10. ASSUME NEW w \in Writes, NEW op, NEW a, NEW o, Called(w, op, a, o)
       PROVE  Sending' /\ Executed'
  BY <1>9, <1>10 DEF Called, broker, desk
<1>11. ASSUME NEW w \in Writes, WriteEnds(w) PROVE Sending' /\ Executed'
  BY <1>9, <1>11 DEF WriteEnds, broker, desk
<1>12. ASSUME NEW p \in Previews, Preview(p) PROVE Sending' /\ Executed'
  BY <1>9, <1>12 DEF Preview, PreviewOrder, FinalizePreview, PreviewRefused, broker, desk
<1>13. CASE Tick \/ UNCHANGED vars
  BY <1>9, <1>13 DEF Tick, vars, broker, desk
<1> QED
  BY <1>3, <1>4, <1>5, <1>7, <1>8, <1>10, <1>11, <1>12, <1>13
     DEF Next, WriteTool, PlacePreviewedOrder, ReplacePreviewedOrder, CancelOrder

LEMMA WriteInit == Init => WriteInv
BY TypeInit DEF Init, WriteInv, Sending, Executed

\* Whatever reached Schwab was approved by a reviewer for that very call, also
\* when the call or its session is cancelled with the request on the wire.
THEOREM OnlyApprovedWrites == Spec => []WrittenOnlyIfApproved
<1>1. WriteInv => WrittenOnlyIfApproved
  BY DEF WriteInv, TypeInv, TypeOK, Write, Sending, Executed, WrittenOnlyIfApproved
<1> QED
  BY <1>1, WriteInit, WriteStep, PTL DEF Spec

\* Every placement and replacement is in every field the order that Schwab
\* accepted in the preview its call popped.
THEOREM WritesAreAsPreviewed == Spec => []WrittenAsPreviewed
<1>1. StoreInv /\ WriteInv => WrittenAsPreviewed
  <2> SUFFICES ASSUME StoreInv, WriteInv, NEW x \in ledger, x.operation # "CANCEL"
               PROVE  \E p \in accepted :
                        /\ draft[p] = [account |-> x.account, operation |-> x.operation,
                                       spec |-> x.spec, target |-> x.target]
                        /\ held[x.call].preview = p
    BY DEF WrittenAsPreviewed
  <2> DEFINE w == x.call
             d == held[w].order
  <2>1. w \in Writes /\ wire[w] # "none" /\ x = Request(w)
    BY DEF WriteInv, TypeInv, TypeOK, Write, Executed
  <2>2. held[w] # None /\ d.account = tool[w].account /\ d.operation = tool[w].operation
    BY <2>1 DEF WriteInv, TypeInv, Holding, Request
  <2>3. d \in Draft
    BY <2>1, <2>2 DEF WriteInv, TypeInv, TypeOK, Entry
  <2>4. d = [account |-> x.account, operation |-> x.operation, spec |-> x.spec, target |-> x.target]
    BY <2>1, <2>2, <2>3 DEF Request, Draft
  <2>5. held[w].preview \in accepted /\ draft[held[w].preview] = d
    BY <2>1, <2>2 DEF StoreInv, Popped, Sound
  <2> QED
    BY <2>4, <2>5
<1> QED
  BY <1>1, StoreInit, StoreStep, WriteInit, WriteStep, PTL DEF Spec

-----------------------------------------------------------------------------
(* What the store hands over *)

\* What a step may do to live entries and to what the calls hold.
HandsOver ==
  /\ \A i \in PreviewIds : Live(i) /\ entries'[i] # entries[i] =>
       \/ \E w \in Writes :
            /\ held[w] = None /\ held'[w] = entries[i]
            /\ tool'[w].account = entries[i].order.account
            /\ tool'[w].operation = entries[i].order.operation
       \/ SessionEnds
  /\ \A w \in Writes : held'[w] # held[w] => now <= held'[w].born + TTL

LEMMA HandingStep == TypeInv /\ [Next]_vars => HandsOver
<1> SUFFICES ASSUME TypeInv, [Next]_vars PROVE HandsOver
  OBVIOUS
<1>1. ASSUME NEW p \in Previews, FinalizePreview(p) PROVE HandsOver
  <2>1. phase[p] = "asking" /\ Put(p) /\ held' = held
    BY <1>1 DEF FinalizePreview, calls
  <2> QED
    BY <2>1, PutType DEF HandsOver
<1>2. ASSUME NEW w \in Writes, NEW i \in PreviewIds, NEW a \in Accounts,
             NEW op \in {"PLACE_ORDER", "REPLACE_ORDER"},
             Called(w, op, a, None), PopEntry(w, i, a, op)
      PROVE  HandsOver
  <2> USE DEF TypeInv, TypeOK
  <2>1. held[w] = None
    BY <1>2 DEF Called, Holding
  <2>2. CASE held' = held
    <3>1. \A j \in PreviewIds : Live(j) => entries'[j] = entries[j]
      BY <1>2, <2>1, <2>2, PopType DEF Live
    <3> QED
      BY <2>2, <3>1 DEF HandsOver
  <2>3. CASE /\ entries[i] # None /\ ~Expired(entries[i]) /\ Matches(i, a, op)
             /\ held' = [held EXCEPT ![w] = entries[i]]
             /\ entries' = [entries EXCEPT ![i] = None]
    <3>0. tool'[w].account = entries[i].order.account /\ tool'[w].operation = entries[i].order.operation
      BY <1>2, <2>3 DEF Called, Matches
    <3>1. held'[w] = entries[i] /\ \A v \in Writes \ {w} : held'[v] = held[v]
      BY <2>3
    <3>2. \A j \in PreviewIds \ {i} : entries'[j] = entries[j]
      BY <2>3
    <3>3. now \in Nat /\ TTL \in Nat /\ entries[i].born \in Nat
      BY <2>3, OrderWritesAssumption DEF Entry
    <3>4. now <= entries[i].born + TTL
      BY <2>3, <3>3 DEF Expired
    <3> QED
      BY <2>1, <3>0, <3>1, <3>2, <3>4 DEF HandsOver
  <2> QED
    BY <1>2, <2>2, <2>3, PopType
<1>3. CASE SessionEnds
  BY <1>3 DEF SessionEnds, HandsOver
<1>4. ASSUME UNCHANGED <<entries, held>> PROVE HandsOver
  BY <1>4 DEF HandsOver
<1>5. ASSUME NEW p \in Previews, PreviewOrder(p) \/ PreviewRefused(p) PROVE HandsOver
  BY <1>4, <1>5 DEF PreviewOrder, PreviewRefused, calls
<1>6. ASSUME NEW w \in Writes,
             \/ CancelOrder(w) \/ RunApproval(w) \/ Decided(w) \/ WriteEnds(w) \/ CancelTool(w)
             \/ ReviewerVotes(w) \/ BrokerExecutes(w) \/ BrokerRefuses(w)
      PROVE  HandsOver
  BY <1>4, <1>6 DEF CancelOrder, RunApproval, Decided, WriteEnds, CancelTool,
                    ReviewerVotes, BrokerExecutes, BrokerRefuses, store, calls
<1>7. CASE Tick \/ UNCHANGED vars
  BY <1>4, <1>7 DEF Tick, vars, store, calls
<1> QED
  BY <1>1, <1>2, <1>3, <1>5, <1>6, <1>7
     DEF Next, Preview, WriteTool, PlacePreviewedOrder, ReplacePreviewedOrder

\* A live preview leaves the store only with the end of the session or into the
\* hands of a call that named its account and its operation, so that no other
\* call burns it; and no call takes one whose TTL is over.
THEOREM LivePreviewsAreHandedOver == Spec => HandedOverLive
<1>1. TypeInv /\ [Next]_vars => [HandsOver]_vars
  BY HandingStep
<1> QED
  BY <1>1, TypeInit, TypeStep, PTL DEF Spec, HandedOverLive, HandsOver

-----------------------------------------------------------------------------
(* The order tools implement the write gate *)

GateClaim == [w \in Writes |-> Taken(w)]
GateApproved == {w \in Writes : held[w] # None /\ answer[w] = "approved"}
GateExecuted == {x.call : x \in {y \in ledger : y.operation # "CANCEL"}}

\* A step that touches neither what is held nor an approval nor the ledger
\* changes nothing that the gate sees.
LEMMA GateStutter ==
  ASSUME UNCHANGED <<accepted, held, ledger>>,
         \A w \in Writes : answer'[w] = "approved" <=> answer[w] = "approved"
  PROVE  UNCHANGED Gate!vars
<1>1. GateClaim' = GateClaim
  BY DEF GateClaim, Taken
<1>2. GateApproved' = GateApproved
  BY DEF GateApproved
<1>3. GateExecuted' = GateExecuted
  BY DEF GateExecuted
<1> QED
  BY <1>1, <1>2, <1>3 DEF Gate!vars, GateClaim, GateApproved, GateExecuted

\* A preview call that Schwab accepts reviews, a write call that pops an entry
\* claims it, an approval approves and an execution executes; the rest stutters.
LEMMA GateStep == GateInv /\ [Next]_vars => [Gate!Next]_(Gate!vars)
<1> SUFFICES ASSUME GateInv, [Next]_vars PROVE Gate!Next \/ UNCHANGED Gate!vars
  OBVIOUS
<1>0. StoreInv /\ WriteInv /\ TypeInv /\ TypeOK /\ answer \in [Writes -> {"idle", "open"} \cup Desk!Final]
  BY DEF GateInv, StoreInv, TypeInv, TypeOK, Desk!TypeOK
<1>1. ASSUME NEW p \in Previews, FinalizePreview(p) PROVE Gate!Next
  <2>1. UNCHANGED <<held, ledger, answer>> /\ accepted' = accepted \cup {p}
    BY <1>1 DEF FinalizePreview, calls, broker, desk
  <2>2. GateClaim' = GateClaim /\ GateApproved' = GateApproved /\ GateExecuted' = GateExecuted
    BY <2>1 DEF GateClaim, Taken, GateApproved, GateExecuted
  <2>3. Gate!Review(p)
    BY <2>1, <2>2 DEF Gate!Review, GateClaim, GateApproved, GateExecuted
  <2> QED
    BY <2>3 DEF Gate!Next
<1>2. ASSUME NEW p \in Previews, PreviewOrder(p) \/ PreviewRefused(p) PROVE UNCHANGED Gate!vars
  BY <1>2, GateStutter DEF PreviewOrder, PreviewRefused, calls, broker, desk
<1>3. ASSUME NEW w \in Writes, NEW i \in PreviewIds, NEW a \in Accounts,
             NEW op \in {"PLACE_ORDER", "REPLACE_ORDER"},
             Called(w, op, a, None), PopEntry(w, i, a, op)
      PROVE  Gate!Next \/ UNCHANGED Gate!vars
  <2>1. UNCHANGED <<accepted, ledger, answer>> /\ held[w] = None /\ answer[w] = "idle"
    BY <1>0, <1>3 DEF Called, TypeInv, Holding, broker, desk
  <2>2. CASE held' = held
    BY <2>1, <2>2, GateStutter
  <2>3. CASE entries[i] # None /\ held' = [held EXCEPT ![w] = entries[i]]
    <3> DEFINE p == entries[i].preview
    <3>1. p \in Previews /\ p \in accepted /\ \A v \in Writes : Taken(v) # p
      BY <1>0, <2>3, OrderWritesAssumption
         DEF TypeOK, Entry, StoreInv, Stored, Sound, NotBoth, Taken
    <3>2. \A v \in Writes : Taken(v)' = IF v = w THEN p ELSE Taken(v)
      BY <1>0, <2>3 DEF TypeOK, Taken
    <3>3. GateClaim' = [GateClaim EXCEPT ![w] = p]
      BY <3>2 DEF GateClaim
    <3>4. GateApproved' = GateApproved /\ GateExecuted' = GateExecuted
      BY <1>0, <2>1, <2>3 DEF GateApproved, GateExecuted, TypeOK
    <3>5. GateClaim[w] = None /\ \A v \in Writes : GateClaim[v] # p
      BY <2>1, <3>1 DEF GateClaim, Taken
    <3>6. Gate!Claim(w, p)
      BY <2>1, <3>1, <3>3, <3>4, <3>5 DEF Gate!Claim, GateClaim, GateApproved, GateExecuted
    <3> QED
      BY <3>1, <3>6 DEF Gate!Next
  <2> QED
    BY <1>0, <1>3, <2>2, <2>3, PopType
<1>4. ASSUME NEW w \in Writes, Decided(w) PROVE Gate!Next \/ UNCHANGED Gate!vars
  <2>1. UNCHANGED <<accepted, held, ledger>>
    BY <1>4 DEF Decided, store
  <2>2. PICK a \in Desk!Final : answer[w] = "open" /\ answer' = [answer EXCEPT ![w] = a]
    BY <1>4 DEF Decided, Desk!Settle
  <2>3. CASE a = "approved" /\ held[w] # None
    <3>1. GateApproved' = GateApproved \cup {w}
      BY <1>0, <2>1, <2>2, <2>3 DEF GateApproved
    <3>2. GateClaim' = GateClaim /\ GateExecuted' = GateExecuted
      BY <2>1 DEF GateClaim, Taken, GateExecuted
    <3>3. GateClaim[w] # None
      BY <1>0, <2>3, OrderWritesAssumption DEF GateClaim, Taken, TypeOK, Entry
    <3>4. Gate!Approve(w)
      BY <2>1, <3>1, <3>2, <3>3 DEF Gate!Approve, GateClaim, GateApproved, GateExecuted
    <3> QED
      BY <3>4 DEF Gate!Next
  <2>4. CASE ~(a = "approved" /\ held[w] # None)
    <3>1. GateApproved' = GateApproved
      BY <1>0, <2>1, <2>2, <2>4 DEF GateApproved
    <3>2. GateClaim' = GateClaim /\ GateExecuted' = GateExecuted
      BY <2>1 DEF GateClaim, Taken, GateExecuted
    <3> QED
      BY <2>1, <3>1, <3>2 DEF Gate!vars, GateClaim, GateApproved, GateExecuted
  <2> QED
    BY <2>3, <2>4
<1>5. ASSUME NEW w \in Writes, BrokerExecutes(w) PROVE Gate!Next \/ UNCHANGED Gate!vars
  <2>1. /\ UNCHANGED <<accepted, held, answer>> /\ wire[w] = "sent"
        /\ ledger' = ledger \cup {Request(w)}
    BY <1>5 DEF BrokerExecutes, store, calls, desk
  <2>2. GateClaim' = GateClaim /\ GateApproved' = GateApproved
    BY <2>1 DEF GateClaim, Taken, GateApproved
  <2>3. Request(w).call = w /\ Request(w).operation = tool[w].operation
    BY DEF Request
  <2>4. CASE tool[w].operation = "CANCEL"
    <3>1. GateExecuted' = GateExecuted
      BY <2>1, <2>3, <2>4 DEF GateExecuted
    <3> QED
      BY <2>1, <2>2, <3>1 DEF Gate!vars, GateClaim, GateApproved, GateExecuted
  <2>5. CASE tool[w].operation # "CANCEL"
    <3>1. GateExecuted' = GateExecuted \cup {w}
      BY <2>1, <2>3, <2>5 DEF GateExecuted
    <3>2. w \in GateApproved
      BY <1>0, <2>1, <2>5 DEF WriteInv, Sending, TypeInv, Holding, GateApproved
    <3>3. w \notin GateExecuted
      BY <1>0, <2>1 DEF WriteInv, Executed, GateExecuted
    <3>4. Gate!Execute(w)
      BY <2>1, <2>2, <3>1, <3>2, <3>3 DEF Gate!Execute, GateClaim, GateApproved, GateExecuted
    <3> QED
      BY <3>4 DEF Gate!Next
  <2> QED
    BY <2>4, <2>5
<1>6. ASSUME NEW w \in Writes, CancelOrder(w) \/ WriteEnds(w) \/ BrokerRefuses(w) \/ ReviewerVotes(w)
      PROVE  UNCHANGED Gate!vars
  BY <1>6, GateStutter DEF CancelOrder, Called, WriteEnds, BrokerRefuses, ReviewerVotes, Desk!Vote,
                           store, calls, broker, desk
<1>7. ASSUME NEW w \in Writes, RunApproval(w) \/ CancelTool(w) PROVE UNCHANGED Gate!vars
  BY <1>0, <1>7, GateStutter DEF RunApproval, CancelTool, Desk!Ask, store, broker
<1>8. CASE SessionEnds
  BY <1>8, GateStutter DEF SessionEnds, broker
<1>9. CASE Tick \/ UNCHANGED vars
  BY <1>9, GateStutter DEF Tick, vars, store, calls, broker, desk
<1> QED
  BY <1>1, <1>2, <1>3, <1>4, <1>5, <1>6, <1>7, <1>8, <1>9
     DEF Next, Preview, WriteTool, PlacePreviewedOrder, ReplacePreviewedOrder

LEMMA GateInit == Init => Gate!Init
BY DEF Init, Gate!Init, Taken

\* The order tools implement the write gate: every placement and replacement
\* spends a preview of its own, accepted before and approved for that call, and
\* is executed at most once.
THEOREM OrderWritesImplementGate == Spec => GateSpec
<1>1. Init => GateInv
  BY StoreInit, WriteInit DEF GateInv
<1>2. GateInv /\ [Next]_vars => GateInv'
  BY StoreStep, WriteStep DEF GateInv
<1> QED
  BY <1>1, <1>2, GateInit, GateStep, PTL DEF Spec, GateSpec, Gate!Spec
=============================================================================
