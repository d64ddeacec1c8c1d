--------------------------- MODULE SignalApproval ---------------------------
(***************************************************************************)
(* SignalApprovalManager (approvals/signal.py): concurrent require() calls *)
(* post prompts through the signal-cli daemon and wait; one receive loop   *)
(* resolves them from quoted replies.  Every action is the code between    *)
(* two suspension points of the asyncio loop.  The sections under          *)
(* self._lock contain no await, so the lock is never contended and each is *)
(* part of one action.                                                     *)
(***************************************************************************)
EXTENDS Naturals, FiniteSets

CONSTANTS
  Requests,      \* the approval requests, one per write-tool call
  Approvers,     \* settings.approver_numbers
  Strangers,     \* other Signal users whose messages reach the account
  Stamps,        \* send timestamps the daemon can return
  SharedStamps,  \* TRUE if two prompts can get the same millisecond
  MaxReplies,    \* bound on the replies people send
  NoRequest

NoStamp == 0

ASSUME SignalAssumption ==
  /\ Stamps \subseteq Nat \ {NoStamp}
  /\ SharedStamps \in BOOLEAN
  /\ MaxReplies \in Nat
  /\ NoRequest \notin Requests

VARIABLES
  pc,        \* pc[r]: where the require() call of r is suspended
  outcome,   \* outcome[r]: the decision require() returned, or "none"
  future,    \* future[r]: pending.future of r
  pending,   \* self._pending: stamp -> request
  prompt,    \* prompt[r]: "no", "out" (POST in flight) or "shown" by the daemon
  stamp,     \* stamp[r]: the timestamp the daemon gave the prompt of r
  replies,   \* every reply anybody ever sent (history)
  inbox,     \* replies the daemon has not yet handed to the receive loop
  receiver,  \* self._receiver: "none", "down", "up" or "cancelling"
  client,    \* self._client is not None
  stopper    \* progress of a stop() call: "idle", "receiver" or "closing"

calls == <<pc, outcome, future, pending>>
signal == <<prompt, stamp, replies, inbox>>
manager == <<receiver, client, stopper>>
vars == <<pc, outcome, future, pending, prompt, stamp, replies, inbox,
          receiver, client, stopper>>

Suspended == {"autodeny", "sending", "waiting", "expiring", "colliding"}
Ended == {"returned", "raised"}
Decisions == {"approved", "denied", "expired"}

\* A reply: whose prompt the sender quoted, who sent it, whether the quoted
\* message is the bot's own (quote.author), and how the text reads.
Reply == [of : Requests, source : Approvers \cup Strangers,
          ours : BOOLEAN, word : {"approve", "deny", "other"}]

TypeOK ==
  /\ pc \in [Requests -> {"idle"} \cup Suspended \cup Ended]
  /\ outcome \in [Requests -> Decisions \cup {"none"}]
  /\ future \in [Requests -> {"none", "pending", "approved", "denied", "cancelled"}]
  /\ pending \in [Stamps -> Requests \cup {NoRequest}]
  /\ prompt \in [Requests -> {"no", "out", "shown"}]
  /\ stamp \in [Requests -> Stamps \cup {NoStamp}]
  /\ replies \subseteq Reply
  /\ inbox \subseteq replies
  /\ receiver \in {"none", "down", "up", "cancelling"}
  /\ client \in BOOLEAN
  /\ stopper \in {"idle", "receiver", "closing"}

Init ==
  /\ pc = [r \in Requests |-> "idle"]
  /\ outcome = [r \in Requests |-> "none"]
  /\ future = [r \in Requests |-> "none"]
  /\ pending = [s \in Stamps |-> NoRequest]
  /\ prompt = [r \in Requests |-> "no"]
  /\ stamp = [r \in Requests |-> NoStamp]
  /\ replies = {}
  /\ inbox = {}
  /\ receiver = "none"
  /\ client = FALSE
  /\ stopper = "idle"

-----------------------------------------------------------------------------
(* Helpers *)

\* The registration a reply or a new prompt with the stamp of r meets.
Registered(r) ==
  IF stamp[r] \in Stamps THEN pending[stamp[r]] ELSE NoRequest

\* self._pending.pop(sent_timestamp, None) in the finally clause.
Unregister(r) == pending' = [pending EXCEPT ![stamp[r]] = NoRequest]

\* start(): idempotent, and it never suspends.
StartUp ==
  /\ client' = TRUE
  /\ receiver' = IF receiver = "none" THEN "down" ELSE receiver
  /\ UNCHANGED stopper

Return(r, decision) ==
  /\ pc' = [pc EXCEPT ![r] = "returned"]
  /\ outcome' = [outcome EXCEPT ![r] = decision]

Raise(r) ==
  /\ pc' = [pc EXCEPT ![r] = "raised"]
  /\ UNCHANGED outcome

\* The end of _send_best_effort and the return that follows it: transport
\* errors are swallowed, but a client closed under the call or a malformed
\* answer of the daemon is not an httpx.HTTPError and propagates.
AfterNotice(r, decision) == Return(r, decision) \/ Raise(r)

-----------------------------------------------------------------------------
(* require() *)

\* Called: start(), render the body, and either post it or, when it exceeds
\* _BODY_LIMIT, post the auto-denial notice.
Require(r) ==
  /\ pc[r] = "idle"
  /\ StartUp
  /\ \/ /\ pc' = [pc EXCEPT ![r] = "autodeny"]
        /\ UNCHANGED prompt
     \/ /\ pc' = [pc EXCEPT ![r] = "sending"]
        /\ prompt' = [prompt EXCEPT ![r] = "out"]
  /\ UNCHANGED <<outcome, future, pending, stamp, replies, inbox>>

AutoDeny(r) ==
  /\ pc[r] = "autodeny"
  /\ AfterNotice(r, "denied")
  /\ UNCHANGED <<future, pending, signal, manager>>

\* Fault: the table keeps the timestamp where the pending call belongs.
Sent_StoresStamp(r) ==
  /\ pc[r] = "sending"
  /\ prompt[r] = "shown"
  /\ pending' = [pending EXCEPT ![stamp[r]] = stamp[r]]
  /\ future' = [future EXCEPT ![r] = "pending"]
  /\ pc' = [pc EXCEPT ![r] = "waiting"]
  /\ UNCHANGED <<outcome, signal, manager>>

\* _send returned: create the future and register it, unless another prompt
\* already waits under the same timestamp, which denies both.  The denial
\* notice raises at once when stop() has dropped the client meanwhile.
Sent(r) ==
  /\ pc[r] = "sending"
  /\ prompt[r] = "shown"
  /\ LET colliding == Registered(r) IN
     IF colliding = NoRequest
     THEN /\ pending' = [pending EXCEPT ![stamp[r]] = r]
          /\ future' = [future EXCEPT ![r] = "pending"]
          /\ pc' = [pc EXCEPT ![r] = "waiting"]
     ELSE /\ Unregister(r)
          /\ future' = [future EXCEPT ![colliding] =
                          IF @ = "pending" THEN "denied" ELSE @]
          /\ pc' = [pc EXCEPT ![r] = IF client THEN "colliding" ELSE "raised"]
  /\ UNCHANGED <<outcome, signal, manager>>

\* The POST failed or timed out; the daemon may still deliver the prompt.
SendFails(r) ==
  /\ pc[r] = "sending"
  /\ Raise(r)
  /\ UNCHANGED <<future, pending, signal, manager>>

CollisionNoticed(r) ==
  /\ pc[r] = "colliding"
  /\ AfterNotice(r, "denied")
  /\ UNCHANGED <<future, pending, signal, manager>>

\* wait_for returns the decision; finally unregisters.
Resume(r) ==
  /\ pc[r] = "waiting"
  /\ future[r] \in {"approved", "denied"}
  /\ Return(r, future[r])
  /\ Unregister(r)
  /\ UNCHANGED <<future, signal, manager>>

\* Fault: require() awaits the future without a timeout.
Timeout_Never(r) == pc[r] = "waiting" /\ FALSE /\ UNCHANGED vars

\* wait_for times out.  From Python 3.12 on the timer cancels the waiting
\* task, which wins over a result set in the same iteration of the loop but
\* not yet delivered; a future still pending is cancelled.  Then the expiry
\* notice is posted, which raises at once when stop() has dropped the client.
Timeout(r) ==
  /\ pc[r] = "waiting"
  /\ future' = [future EXCEPT ![r] = IF @ = "pending" THEN "cancelled" ELSE @]
  /\ IF client
     THEN /\ pc' = [pc EXCEPT ![r] = "expiring"]
          /\ UNCHANGED <<outcome, pending>>
     ELSE Raise(r) /\ Unregister(r)
  /\ UNCHANGED <<signal, manager>>

\* The expiry notice is done; only now does finally unregister the request.
Expire(r) ==
  /\ pc[r] = "expiring"
  /\ AfterNotice(r, "expired")
  /\ Unregister(r)
  /\ UNCHANGED <<future, signal, manager>>

\* Fault: the cleanup is not in a finally clause, so a cancellation skips it.
Cancel_NoCleanup(r) ==
  /\ pc[r] \in Suspended
  /\ Raise(r)
  /\ future' = [future EXCEPT ![r] = IF @ = "pending" THEN "cancelled" ELSE @]
  /\ UNCHANGED <<pending, signal, manager>>

\* The MCP client cancels the tool call: CancelledError at the suspension
\* point, through the finally clause where there is one.
Cancel(r) ==
  /\ pc[r] \in Suspended
  /\ Raise(r)
  /\ future' = [future EXCEPT ![r] = IF @ = "pending" THEN "cancelled" ELSE @]
  /\ IF pc[r] \in {"waiting", "expiring"} THEN Unregister(r) ELSE UNCHANGED pending
  /\ UNCHANGED <<signal, manager>>

-----------------------------------------------------------------------------
(* The daemon and the people behind it (external) *)

\* The daemon stamps the prompt with its millisecond clock and delivers it,
\* possibly after the caller has given up.
DaemonPosts(r) ==
  /\ prompt[r] = "out"
  /\ prompt' = [prompt EXCEPT ![r] = "shown"]
  /\ \E s \in Stamps :
       /\ \A q \in Requests : prompt[q] = "shown" =>
            IF SharedStamps THEN stamp[q] <= s ELSE stamp[q] < s
       /\ stamp' = [stamp EXCEPT ![r] = s]
  /\ UNCHANGED <<calls, replies, inbox, manager>>

\* Somebody replies, quoting the prompt of e.of (or, if ~e.ours, a message of
\* somebody else that carries the same id).
SendReply(e) ==
  /\ Cardinality(replies) < MaxReplies
  /\ prompt[e.of] = "shown"
  /\ e \notin replies
  /\ replies' = replies \cup {e}
  /\ inbox' = inbox \cup {e}
  /\ UNCHANGED <<calls, prompt, stamp, manager>>

\* A reply is lost while no websocket is open.
LoseReply(e) ==
  /\ e \in inbox
  /\ receiver # "up"
  /\ inbox' = inbox \ {e}
  /\ UNCHANGED <<calls, prompt, stamp, replies, manager>>

-----------------------------------------------------------------------------
(* The receive loop *)

Connect ==
  /\ receiver = "down"
  /\ receiver' = "up"
  /\ UNCHANGED <<calls, signal, client, stopper>>

\* The websocket closes or a frame cannot be handled: back off and retry.
Disconnect ==
  /\ receiver = "up"
  /\ receiver' = "down"
  /\ UNCHANGED <<calls, signal, client, stopper>>

Authentic(e) == e.source \in Approvers /\ e.ours

\* What a handled reply does to the request registered under its timestamp.
Decide(q, word) ==
  future' = [future EXCEPT ![q] =
               IF word = "approve" THEN "approved" ELSE "denied"]

\* Faults of _handle_envelope: a check forgotten, ...
HandleEnvelope_AnySource(e) ==
  /\ receiver = "up" /\ e \in inbox /\ inbox' = inbox \ {e}
  /\ LET q == Registered(e.of) IN
     IF e.ours /\ q # NoRequest /\ future[q] = "pending" /\ e.word # "other"
     THEN Decide(q, e.word) ELSE UNCHANGED future
  /\ UNCHANGED <<pc, outcome, pending, prompt, stamp, replies, manager>>

HandleEnvelope_AnyQuote(e) ==
  /\ receiver = "up" /\ e \in inbox /\ inbox' = inbox \ {e}
  /\ LET q == Registered(e.of) IN
     IF /\ e.source \in Approvers
        /\ q # NoRequest /\ future[q] = "pending" /\ e.word # "other"
     THEN Decide(q, e.word) ELSE UNCHANGED future
  /\ UNCHANGED <<pc, outcome, pending, prompt, stamp, replies, manager>>

HandleEnvelope_DoneIgnored(e) ==
  /\ receiver = "up" /\ e \in inbox /\ inbox' = inbox \ {e}
  /\ LET q == Registered(e.of) IN
     IF Authentic(e) /\ q # NoRequest /\ e.word # "other"
     THEN Decide(q, e.word) ELSE UNCHANGED future
  /\ UNCHANGED <<pc, outcome, pending, prompt, stamp, replies, manager>>

\* ... or the entry popped where the code only looks it up.
HandleEnvelope_Pops(e) ==
  /\ receiver = "up" /\ e \in inbox /\ inbox' = inbox \ {e}
  /\ LET q == Registered(e.of) IN
     IF Authentic(e) /\ q # NoRequest
     THEN /\ pending' = [pending EXCEPT ![stamp[e.of]] = NoRequest]
          /\ IF future[q] = "pending" /\ e.word # "other"
             THEN Decide(q, e.word) ELSE UNCHANGED future
     ELSE UNCHANGED <<pending, future>>
  /\ UNCHANGED <<pc, outcome, prompt, stamp, replies, manager>>

\* _handle_envelope: only an approver quoting the bot's own message, only a
\* registered request whose future is not done, only a word that decides.
HandleEnvelope(e) ==
  /\ receiver = "up"
  /\ e \in inbox
  /\ inbox' = inbox \ {e}
  /\ LET q == Registered(e.of) IN
     IF /\ Authentic(e)
        /\ q # NoRequest
        /\ future[q] = "pending"
        /\ e.word # "other"
     THEN Decide(q, e.word)
     ELSE UNCHANGED future
  /\ UNCHANGED <<pc, outcome, pending, prompt, stamp, replies, manager>>

-----------------------------------------------------------------------------
(* start() and stop(), called by every session's lifespan *)

Start ==
  /\ StartUp
  /\ UNCHANGED <<calls, signal>>

\* stop() cancels the receive loop and awaits its end, ...
StopBegins ==
  /\ stopper = "idle"
  /\ IF receiver = "none"
     THEN stopper' = "closing" /\ UNCHANGED receiver
     ELSE stopper' = "receiver" /\ receiver' = "cancelling"
  /\ UNCHANGED <<calls, signal, client>>

ReceiverStopped ==
  /\ stopper = "receiver"
  /\ receiver' = "none"
  /\ stopper' = "closing"
  /\ UNCHANGED <<calls, signal, client>>

\* ... then drops the notices and closes the HTTP client.
StopEnds ==
  /\ stopper = "closing"
  /\ client' = FALSE
  /\ stopper' = "idle"
  /\ UNCHANGED <<calls, signal, receiver>>

-----------------------------------------------------------------------------
\* What the event loop and its timers make r do without anybody else.
Progress(r) ==
  \/ AutoDeny(r) \/ Sent(r) \/ SendFails(r) \/ CollisionNoticed(r)
  \/ Resume(r) \/ Timeout(r) \/ Expire(r)

Call(r) == Require(r) \/ Progress(r) \/ Cancel(r)

Next ==
  \/ \E r \in Requests : Call(r) \/ DaemonPosts(r)
  \/ \E e \in Reply : SendReply(e)
  \/ \E e \in replies : LoseReply(e) \/ HandleEnvelope(e)
  \/ Connect \/ Disconnect
  \/ Start \/ StopBegins \/ ReceiverStopped \/ StopEnds

Spec == Init /\ [][Next]_vars

\* HTTP calls end within _HTTP_TIMEOUT_SECONDS and wait_for within
\* timeout_seconds, so a suspended require() is always resumed.
FairSpec == Spec /\ \A r \in Requests : WF_vars(Progress(r))

-----------------------------------------------------------------------------
(* Properties *)

\* An approved call was approved by an authorized reviewer's reply to its own
\* prompt: the correlation by timestamp never hands a verdict to another call
\* (_handle_envelope and the registration in require()).
ApprovedByOwnReply ==
  \A r \in Requests : outcome[r] = "approved" =>
    \E e \in replies : e.of = r /\ Authentic(e) /\ e.word = "approve"

\* A call that still waits for its verdict can be answered: no other call's
\* cleanup or collision handling has removed its registration.
WaitingIsRegistered ==
  \A r \in Requests :
    pc[r] = "waiting" /\ future[r] = "pending" => Registered(r) = r

\* Nothing is left in self._pending for a call that has ended, in whichever
\* way it ended (decision, expiry, notice failure, cancellation).
NoStaleRegistration ==
  \A s \in Stamps : pending[s] # NoRequest =>
    pc[pending[s]] \in {"waiting", "expiring"} /\ stamp[pending[s]] = s

\* Even when two prompts share a timestamp, an approved call was approved by an
\* authorized reviewer's reply to a prompt with that call's timestamp: no other
\* message can resolve it (the checks of _handle_envelope).
ApprovedUnderItsStamp ==
  \A r \in Requests : outcome[r] = "approved" =>
    \E e \in replies :
      Authentic(e) /\ e.word = "approve" /\ stamp[e.of] = stamp[r]

\* The first verdict on a call is final: neither a later reply nor a collision
\* replaces a result that is set but that the call has not yet picked up (the
\* done() checks in _handle_envelope and require()).
VerdictSticks ==
  [][\A r \in Requests :
       future[r] \in {"approved", "denied"} => future'[r] = future[r]]_vars

\* Every require() call ends, whatever the daemon, the reviewers and stop()
\* do: a tool call never hangs on its approval.
EveryCallEnds ==
  \A r \in Requests : pc[r] \in Suspended ~> pc[r] \in Ended

\* The manager implements the approval desk the write tools rely on.
DeskAnswer ==
  [r \in Requests |-> IF pc[r] = "returned" THEN outcome[r]
                     ELSE IF pc[r] = "raised" THEN "failed"
                     ELSE IF pc[r] = "idle" THEN "idle" ELSE "open"]
DeskVotes ==
  {<<e.of, e.word>> : e \in {x \in replies : Authentic(x) /\ x.word # "other"}}
Desk == INSTANCE ApprovalDesk WITH answer <- DeskAnswer, votes <- DeskVotes
DeskSpec == Desk!Spec
=============================================================================
