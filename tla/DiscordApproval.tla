-------------------------- MODULE DiscordApproval --------------------------
(***************************************************************************)
(* DiscordApprovalManager (approvals/discord.py): concurrent require()     *)
(* calls post a message each and wait for a reaction; discord.py runs one  *)
(* handler task per reaction.  Every action is the code between two        *)
(* suspension points; the sections under self._lock contain no await.      *)
(* A message id is unique, so a prompt is identified with its request.     *)
(* The channel object is cached data: looking it up either works or        *)
(* raises, which Post covers.                                              *)
(***************************************************************************)
EXTENDS Naturals, FiniteSets

CONSTANTS
  Requests,      \* the approval requests, one per write-tool call
  Approvers,     \* settings.approver_ids
  Strangers,     \* other users who see the channel, bots included
  MaxReactions   \* bound on the reactions people add

ASSUME DiscordAssumption == MaxReactions \in Nat

VARIABLES
  pc,         \* pc[r]: where the require() call of r is suspended
  outcome,    \* outcome[r]: the decision require() returned, or "none"
  future,     \* future[r]: pending.future of r
  pending,    \* the requests in self._pending
  message,    \* message[r]: "no", "out" (request in flight) or what it displays
  edits,      \* message edits handler tasks have in flight, as <<r, verdict>>
  reactions,  \* every reaction anybody added to a prompt (history)
  events,     \* reactions not yet dispatched to a handler
  runner,     \* self._runner: "none", "live", "ended" or "closing"
  ready       \* self._ready

calls == <<pc, outcome, future, pending>>
discord == <<message, edits, reactions, events>>
bot == <<runner, ready>>
vars == <<pc, outcome, future, pending, message, edits, reactions, events,
          runner, ready>>

Verdicts == {"approved", "denied"}
Decisions == Verdicts \cup {"expired"}

\* Where require() can be suspended; "noticing" posts the auto-denial,
\* "refusing" edits the message after its reactions could not be added.
Suspended == {"connecting", "posting", "reacting", "waiting", "expiring",
              "refusing", "noticing"}
Ended == {"returned", "raised"}

Reaction == [on : Requests, user : Approvers \cup Strangers,
             emoji : Verdicts \cup {"other"}]

TypeOK ==
  /\ pc \in [Requests -> {"idle", "toolarge"} \cup Suspended \cup Ended]
  /\ outcome \in [Requests -> Decisions \cup {"none"}]
  /\ future \in [Requests -> Verdicts \cup {"none", "pending", "cancelled"}]
  /\ pending \subseteq Requests
  /\ message \in [Requests -> {"no", "out", "pending"} \cup Decisions]
  /\ edits \subseteq Requests \X Verdicts
  /\ reactions \subseteq Reaction
  /\ events \subseteq reactions
  /\ runner \in {"none", "live", "ended", "closing"}
  /\ ready \in BOOLEAN

Init ==
  /\ pc = [r \in Requests |-> "idle"]
  /\ outcome = [r \in Requests |-> "none"]
  /\ future = [r \in Requests |-> "none"]
  /\ pending = {}
  /\ message = [r \in Requests |-> "no"]
  /\ edits = {}
  /\ reactions = {}
  /\ events = {}
  /\ runner = "none"
  /\ ready = FALSE

Posted(r) == message[r] \notin {"no", "out"}

-----------------------------------------------------------------------------
(* start(), stop() and the client task *)

\* start() up to the point where it, or _ensure_channel, awaits readiness.
StartUp ==
  /\ runner' = IF runner = "none" THEN "live" ELSE runner
  /\ UNCHANGED ready

Start == StartUp /\ UNCHANGED <<calls, discord>>

\* on_ready.
HandleReady ==
  /\ runner = "live"
  /\ ready' = TRUE
  /\ UNCHANGED <<calls, discord, runner>>

\* _run_client ends: the login fails or the client stops unexpectedly.  The
\* task object stays in self._runner and self._ready keeps its value.
RunnerEnds ==
  /\ runner = "live"
  /\ runner' = "ended"
  /\ UNCHANGED <<calls, discord, ready>>

\* stop(): close the client and await its task, ...
StopBegins ==
  /\ runner \in {"live", "ended"}
  /\ runner' = "closing"
  /\ UNCHANGED <<calls, discord, ready>>

\* ... then forget the task, readiness and the channel.
StopEnds ==
  /\ runner = "closing"
  /\ runner' = "none"
  /\ ready' = FALSE
  /\ UNCHANGED <<calls, discord>>

-----------------------------------------------------------------------------
(* require() *)

Goto(r, where) == pc' = [pc EXCEPT ![r] = where] /\ UNCHANGED outcome

Return(r, decision) ==
  /\ pc' = [pc EXCEPT ![r] = "returned"]
  /\ outcome' = [outcome EXCEPT ![r] = decision]

Raise(r) == Goto(r, "raised")

\* Called: the arguments fit the embed or not; either way the bot is started.
Require(r) ==
  /\ pc[r] = "idle"
  /\ \/ Goto(r, "connecting")
     \/ Goto(r, "toolarge")
  /\ StartUp
  /\ UNCHANGED <<future, pending, discord>>

\* The bot is ready: post the prompt, or the auto-denial notice, or fail to
\* find a channel to post to (which still denies a request too large to show,
\* if the failure is an HTTPException).
Post(r) ==
  /\ ready
  /\ \/ /\ pc[r] = "connecting"
        /\ Goto(r, "posting")
        /\ message' = [message EXCEPT ![r] = "out"]
     \/ /\ pc[r] = "toolarge"
        /\ Goto(r, "noticing")
        /\ UNCHANGED message
     \/ /\ \/ pc[r] \in {"connecting", "toolarge"} /\ Raise(r)
           \/ pc[r] = "toolarge" /\ Return(r, "denied")
        /\ UNCHANGED message
  /\ UNCHANGED <<future, pending, edits, reactions, events, bot>>

\* An HTTPException while posting the notice is swallowed.
AutoDeny(r) ==
  /\ pc[r] = "noticing"
  /\ Return(r, "denied") \/ Raise(r)
  /\ UNCHANGED <<future, pending, discord, bot>>

\* channel.send answers: add the two reactions; or it fails.
Sent(r) ==
  /\ pc[r] = "posting"
  /\ \/ Posted(r) /\ Goto(r, "reacting")
     \/ Raise(r)
  /\ UNCHANGED <<future, pending, discord, bot>>

\* The reactions are there: only now is the request registered.  When they
\* cannot be added the request is denied; other errors propagate.
ReactionsAdded(r) ==
  /\ pc[r] = "reacting"
  /\ \/ /\ Goto(r, "waiting")
        /\ future' = [future EXCEPT ![r] = "pending"]
        /\ pending' = pending \cup {r}
     \/ /\ Goto(r, "refusing") \/ Raise(r)
        /\ UNCHANGED <<future, pending>>
  /\ UNCHANGED <<discord, bot>>

\* _finalize_message edits the message, or fails to (HTTPException is
\* swallowed), and require() goes on.
Finalize(r, decision) ==
  /\ Return(r, decision) \/ Raise(r)
  /\ \/ message' = [message EXCEPT ![r] = decision]
     \/ UNCHANGED message
  /\ UNCHANGED <<edits, reactions, events>>

Refuse(r) ==
  /\ pc[r] = "refusing"
  /\ Finalize(r, "denied")
  /\ UNCHANGED <<future, pending, bot>>

\* wait_for returns the decision; finally unregisters.
Resume(r) ==
  /\ pc[r] = "waiting"
  /\ future[r] \in Verdicts
  /\ Return(r, future[r])
  /\ pending' = pending \ {r}
  /\ UNCHANGED <<future, discord, bot>>

\* Fault: require() awaits the future without a timeout.
Timeout_Never(r) == pc[r] = "waiting" /\ FALSE /\ UNCHANGED vars

\* wait_for times out; as in the Signal manager it may win over a verdict that
\* is set but not yet delivered.
Timeout(r) ==
  /\ pc[r] = "waiting"
  /\ Goto(r, "expiring")
  /\ future' = [future EXCEPT ![r] = IF @ = "pending" THEN "cancelled" ELSE @]
  /\ UNCHANGED <<pending, discord, bot>>

\* Fault: require() returns the state of the future instead of a decision.
Expire_ReturnsFuture(r) ==
  /\ pc[r] = "expiring"
  /\ Finalize(r, future[r])
  /\ pending' = pending \ {r}
  /\ UNCHANGED <<future, bot>>

Expire(r) ==
  /\ pc[r] = "expiring"
  /\ Finalize(r, "expired")
  /\ pending' = pending \ {r}
  /\ UNCHANGED <<future, bot>>

\* Fault: no finally clause, so a cancelled call stays registered.
Cancel_NoCleanup(r) ==
  /\ pc[r] \in Suspended \cup {"toolarge"}
  /\ Raise(r)
  /\ future' = [future EXCEPT ![r] = IF @ = "pending" THEN "cancelled" ELSE @]
  /\ UNCHANGED <<pending, discord, bot>>

\* The MCP client cancels the tool call.
Cancel(r) ==
  /\ pc[r] \in Suspended \cup {"toolarge"}
  /\ Raise(r)
  /\ future' = [future EXCEPT ![r] = IF @ = "pending" THEN "cancelled" ELSE @]
  /\ pending' = pending \ {r}
  /\ UNCHANGED <<discord, bot>>

-----------------------------------------------------------------------------
(* Discord and the people in the channel (external) *)

DiscordPosts(r) ==
  /\ message[r] = "out"
  /\ message' = [message EXCEPT ![r] = "pending"]
  /\ UNCHANGED <<calls, edits, reactions, events, bot>>

\* Somebody reacts to a prompt as soon as it is visible.
React(e) ==
  /\ Cardinality(reactions) < MaxReactions
  /\ Posted(e.on)
  /\ e \notin reactions
  /\ reactions' = reactions \cup {e}
  /\ events' = events \cup {e}
  /\ UNCHANGED <<calls, message, edits, bot>>

\* A reaction is lost while the gateway is down.
LoseReaction(e) ==
  /\ e \in events
  /\ runner # "live" \/ ~ready
  /\ events' = events \ {e}
  /\ UNCHANGED <<calls, message, edits, reactions, bot>>

-----------------------------------------------------------------------------
(* _handle_reaction_add *)

Authorized(e) == e.user \in Approvers

\* A verdict is set on the future and the handler goes on to edit the message.
Decide(e) ==
  /\ future' = [future EXCEPT ![e.on] = e.emoji]
  /\ edits' = edits \cup {<<e.on, e.emoji>>}

\* The handler task of a reaction runs; stop() does not wait for it.
Dispatch(e) ==
  /\ runner \in {"live", "closing"}
  /\ e \in events
  /\ events' = events \ {e}
  /\ UNCHANGED <<pc, outcome, pending, message, reactions, bot>>

\* Faults: anybody's reaction counts, or a decided future is decided again.
HandleReaction_Anybody(e) ==
  /\ Dispatch(e)
  /\ IF e.on \in pending /\ e.emoji \in Verdicts /\ future[e.on] = "pending"
     THEN Decide(e) ELSE UNCHANGED <<future, edits>>

HandleReaction_DoneIgnored(e) ==
  /\ Dispatch(e)
  /\ IF e.on \in pending /\ e.emoji \in Verdicts /\ Authorized(e)
     THEN Decide(e) ELSE UNCHANGED <<future, edits>>

\* Only a registered prompt, only the two emojis, only an approver (anybody
\* else's reaction is removed), only the first verdict.
HandleReaction(e) ==
  /\ Dispatch(e)
  /\ IF /\ e.on \in pending
        /\ e.emoji \in Verdicts
        /\ Authorized(e)
        /\ future[e.on] = "pending"
     THEN Decide(e)
     ELSE UNCHANGED <<future, edits>>

\* The handler's edit lands or fails, possibly after require() has returned.
EditLands(x) ==
  /\ x \in edits
  /\ edits' = edits \ {x}
  /\ \/ message' = [message EXCEPT ![x[1]] = x[2]]
     \/ UNCHANGED message
  /\ UNCHANGED <<calls, reactions, events, bot>>

-----------------------------------------------------------------------------
\* What the event loop makes r do once its prompt is being posted.
Progress(r) ==
  \/ AutoDeny(r) \/ Sent(r) \/ ReactionsAdded(r) \/ Refuse(r)
  \/ Resume(r) \/ Timeout(r) \/ Expire(r)

Next ==
  \/ \E r \in Requests :
       Require(r) \/ Post(r) \/ Progress(r) \/ Cancel(r) \/ DiscordPosts(r)
  \/ \E e \in Reaction : React(e)
  \/ \E e \in reactions : LoseReaction(e) \/ HandleReaction(e)
  \/ \E x \in edits : EditLands(x)
  \/ Start \/ HandleReady \/ RunnerEnds \/ StopBegins \/ StopEnds

Spec == Init /\ [][Next]_vars

\* discord.py's requests end and wait_for ends within timeout_seconds.
\* Nothing bounds the wait for readiness, so Post has no fairness.
FairSpec == Spec /\ \A r \in Requests : WF_vars(Progress(r))

-----------------------------------------------------------------------------
(* Properties *)

\* Nobody waits unregistered and nobody who has ended stays registered: a
\* verdict can reach a call exactly as long as the call can use it.
RegisteredWhileWaiting ==
  \A r \in Requests : r \in pending <=> pc[r] \in {"waiting", "expiring"}

\* A decision the channel shows is the one the tool was told, however the edits
\* of the handler task and of require() are ordered.  There is one exception: a
\* timeout that won over a verdict already set tells the tool "expired", and the
\* handler's edit may land last; then the channel shows that verdict, no other.
DisplayAgrees ==
  \A r \in Requests : outcome[r] # "none" /\ message[r] \in Decisions =>
    \/ message[r] = outcome[r]
    \/ outcome[r] = "expired" /\ message[r] = future[r]

\* A call whose prompt is being posted, shown or withdrawn ends, whatever
\* Discord, the reviewers and stop() do.
PostedCallEnds ==
  \A r \in Requests :
    pc[r] \in Suspended \ {"connecting"} ~> pc[r] \in Ended

\* The manager implements the approval desk the write tools rely on.
DeskAnswer ==
  [r \in Requests |-> IF pc[r] = "returned" THEN outcome[r]
                     ELSE IF pc[r] = "raised" THEN "failed"
                     ELSE IF pc[r] = "idle" THEN "idle" ELSE "open"]
DeskVotes ==
  {<<e.on, IF e.emoji = "approved" THEN "approve" ELSE "deny">> :
     e \in {x \in reactions : Authorized(x) /\ x.emoji # "other"}}
Desk == INSTANCE ApprovalDesk WITH answer <- DeskAnswer, votes <- DeskVotes
DeskSpec == Desk!Spec
=============================================================================
