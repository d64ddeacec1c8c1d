----------------------- MODULE SignalApproval_proofs -----------------------
(***************************************************************************)
(* Proofs about SignalApproval for any number of requests, reviewers,      *)
(* replies and timestamps: type correctness, no stale registration, and,   *)
(* when the daemon never stamps two prompts alike, that a call is approved *)
(* only by an authorized reply to its own prompt.                          *)
(***************************************************************************)
EXTENDS SignalApproval, TLAPS

-----------------------------------------------------------------------------
(* The inductive invariant *)

\* The reply that justifies an approval.
OwnApproval(r) ==
  \E e \in replies : e.of = r /\ Authentic(e) /\ e.word = "approve"

\* A registration belongs to a call that still waits or whose expiry notice is
\* on its way, under the timestamp of that call's visible prompt.
Registrations ==
  \A s \in Stamps : pending[s] # NoRequest =>
    /\ pc[pending[s]] \in {"waiting", "expiring"}
    /\ stamp[pending[s]] = s
    /\ prompt[pending[s]] = "shown"

\* A visible prompt has a timestamp, a call waits only for a visible one, and
\* there is none before the call.
Prompts ==
  /\ \A r \in Requests : pc[r] = "idle" => prompt[r] = "no"
  /\ \A r \in Requests : prompt[r] = "shown" => stamp[r] \in Stamps
  /\ \A r \in Requests : pc[r] \in {"waiting", "expiring"} => prompt[r] = "shown"

\* No two visible prompts share a timestamp.
DistinctStamps ==
  \A r, q \in Requests :
    prompt[r] = "shown" /\ prompt[q] = "shown" /\ stamp[r] = stamp[q] => r = q

\* People reply to visible prompts only.
RepliesToShown == \A e \in replies : prompt[e.of] = "shown"

\* An approval set on a future, or returned, has its reply.
FuturesJustified == \A r \in Requests : future[r] = "approved" => OwnApproval(r)
OutcomesJustified == \A r \in Requests : outcome[r] = "approved" => OwnApproval(r)

RegInv == TypeOK /\ Registrations /\ Prompts
ReplyInv == RegInv /\ DistinctStamps /\ RepliesToShown /\ FuturesJustified /\ OutcomesJustified

-----------------------------------------------------------------------------
\* Every step preserves the type invariant.
LEMMA TypeStep == TypeOK /\ [Next]_vars => TypeOK'
<1> SUFFICES ASSUME TypeOK, [Next]_vars PROVE TypeOK'
  OBVIOUS
<1>1. ASSUME NEW r \in Requests, Require(r) PROVE TypeOK'
  BY <1>1 DEF Require, StartUp, TypeOK, Suspended
<1>2. ASSUME NEW r \in Requests, Progress(r) PROVE TypeOK'
  <2>1. CASE AutoDeny(r)
    BY <2>1 DEF AutoDeny, AfterNotice, Return, Raise, TypeOK, Ended, Decisions, signal, manager
  <2>2. CASE Sent(r)
    BY <2>2 DEF Sent, Registered, Unregister, TypeOK, Suspended, Ended, signal, manager
  <2>3. CASE SendFails(r)
    BY <2>3 DEF SendFails, Raise, TypeOK, Ended, signal, manager
  <2>4. CASE CollisionNoticed(r)
    BY <2>4 DEF CollisionNoticed, AfterNotice, Return, Raise, TypeOK, Ended, Decisions, signal, manager
  <2>5. CASE Resume(r)
    BY <2>5 DEF Resume, Return, Unregister, TypeOK, Ended, Decisions, signal, manager
  <2>6. CASE Timeout(r)
    BY <2>6 DEF Timeout, Raise, Unregister, TypeOK, Suspended, Ended, signal, manager
  <2>7. CASE Expire(r)
    BY <2>7 DEF Expire, AfterNotice, Return, Raise, Unregister, TypeOK, Ended, Decisions, signal, manager
  <2> QED
    BY <1>2, <2>1, <2>2, <2>3, <2>4, <2>5, <2>6, <2>7 DEF Progress
<1>3. ASSUME NEW r \in Requests, Cancel(r) PROVE TypeOK'
  BY <1>3 DEF Cancel, Raise, Unregister, TypeOK, Ended, signal, manager
<1>4. ASSUME NEW r \in Requests, DaemonPosts(r) PROVE TypeOK'
  BY <1>4 DEF DaemonPosts, TypeOK, calls, manager
<1>5. ASSUME NEW e \in Reply, SendReply(e) PROVE TypeOK'
  BY <1>5 DEF SendReply, TypeOK, calls, manager
<1>6. ASSUME NEW e \in replies, LoseReply(e) PROVE TypeOK'
  BY <1>6 DEF LoseReply, TypeOK, calls, manager
<1>7. ASSUME NEW e \in replies, HandleEnvelope(e) PROVE TypeOK'
  BY <1>7 DEF HandleEnvelope, Decide, Registered, TypeOK, manager
<1>8. CASE Connect \/ Disconnect \/ Start \/ StopBegins \/ ReceiverStopped \/ StopEnds
  BY <1>8 DEF Connect, Disconnect, Start, StartUp, StopBegins, ReceiverStopped,
              StopEnds, TypeOK, calls, signal
<1>9. CASE UNCHANGED vars
  BY <1>9 DEF vars, TypeOK
<1> QED
  BY <1>1, <1>2, <1>3, <1>4, <1>5, <1>6, <1>7, <1>8, <1>9 DEF Next, Call

LEMMA TypeInit == Init => TypeOK
BY DEF Init, TypeOK, Suspended, Ended, Decisions

\* Every reachable state is well typed, whatever the constants.
THEOREM TypeCorrect == Spec => []TypeOK
BY TypeInit, TypeStep, PTL DEF Spec

-----------------------------------------------------------------------------
(* No stale registration *)

\* Every step preserves the registrations: whichever way a call ends, it takes
\* its own entry with it, and the entry of no call that has ended comes back.
LEMMA RegStep == RegInv /\ [Next]_vars => RegInv'
<1> SUFFICES ASSUME RegInv, [Next]_vars PROVE Registrations' /\ Prompts'
  BY TypeStep DEF RegInv
<1> USE SignalAssumption DEF RegInv
<1>1. ASSUME NEW r \in Requests, Require(r) PROVE Registrations' /\ Prompts'
  BY <1>1 DEF Require, StartUp, TypeOK, Registrations, Prompts
<1>2. ASSUME NEW r \in Requests, Progress(r) PROVE Registrations' /\ Prompts'
  <2>1. CASE AutoDeny(r)
    BY <2>1 DEF AutoDeny, AfterNotice, Return, Raise, TypeOK, Registrations, Prompts, signal, manager
  <2>2. CASE Sent(r)
    <3> DEFINE other == Registered(r)
    <3>1. CASE other = NoRequest
      BY <2>2, <3>1 DEF Sent, TypeOK, Registrations, Prompts, signal, manager
    <3>2. CASE other # NoRequest
      BY <2>2, <3>2 DEF Sent, Registered, Unregister, TypeOK, Registrations, Prompts, signal, manager
    <3> QED
      BY <3>1, <3>2
  <2>3. CASE SendFails(r)
    BY <2>3 DEF SendFails, Raise, TypeOK, Registrations, Prompts, signal, manager
  <2>4. CASE CollisionNoticed(r)
    BY <2>4 DEF CollisionNoticed, AfterNotice, Return, Raise, TypeOK, Registrations, Prompts, signal, manager
  <2>5. CASE Resume(r)
    BY <2>5 DEF Resume, Return, Unregister, TypeOK, Registrations, Prompts, signal, manager
  <2>6. CASE Timeout(r)
    BY <2>6 DEF Timeout, Raise, Unregister, TypeOK, Registrations, Prompts, signal, manager
  <2>7. CASE Expire(r)
    BY <2>7 DEF Expire, AfterNotice, Return, Raise, Unregister, TypeOK, Registrations, Prompts, signal, manager
  <2> QED
    BY <1>2, <2>1, <2>2, <2>3, <2>4, <2>5, <2>6, <2>7 DEF Progress
<1>3. ASSUME NEW r \in Requests, Cancel(r) PROVE Registrations' /\ Prompts'
  BY <1>3 DEF Cancel, Raise, Unregister, TypeOK, Registrations, Prompts, Suspended, signal, manager
<1>4. ASSUME NEW r \in Requests, DaemonPosts(r) PROVE Registrations' /\ Prompts'
  BY <1>4 DEF DaemonPosts, TypeOK, Registrations, Prompts, calls, manager
<1>5. ASSUME UNCHANGED <<pc, pending, prompt, stamp>> PROVE Registrations' /\ Prompts'
  BY <1>5 DEF Registrations, Prompts
<1>6. ASSUME NEW e \in Reply, SendReply(e) PROVE Registrations' /\ Prompts'
  BY <1>5, <1>6 DEF SendReply, calls
<1>7. ASSUME NEW e \in replies, LoseReply(e) \/ HandleEnvelope(e) PROVE Registrations' /\ Prompts'
  BY <1>5, <1>7 DEF LoseReply, HandleEnvelope, calls
<1>8. CASE Connect \/ Disconnect \/ Start \/ StopBegins \/ ReceiverStopped \/ StopEnds
  BY <1>5, <1>8 DEF Connect, Disconnect, Start, StopBegins, ReceiverStopped,
                    StopEnds, calls, signal
<1>9. CASE UNCHANGED vars
  BY <1>5, <1>9 DEF vars
<1> QED
  BY <1>1, <1>2, <1>3, <1>4, <1>6, <1>7, <1>8, <1>9 DEF Next, Call

LEMMA RegInit == Init => RegInv
BY DEF Init, RegInv, TypeOK, Registrations, Prompts, Suspended, Ended, Decisions

\* self._pending never holds a call that has ended, whichever way it ended and
\* even when prompts share timestamps.
THEOREM NothingStale == Spec => []NoStaleRegistration
<1>1. RegInv => NoStaleRegistration
  BY DEF RegInv, Registrations, NoStaleRegistration
<1> QED
  BY <1>1, RegInit, RegStep, PTL DEF Spec

-----------------------------------------------------------------------------
(* Approval by an authorized reply to the call's own prompt *)

\* With distinct timestamps the entry a reply finds is that of its own prompt.
LEMMA FoundIsQuoted ==
  ASSUME ReplyInv, NEW e \in replies, Registered(e.of) # NoRequest
  PROVE  Registered(e.of) = e.of
<1> DEFINE q == pending[stamp[e.of]]
<1>1. e.of \in Requests /\ prompt[e.of] = "shown"
  BY DEF ReplyInv, RegInv, TypeOK, Reply, RepliesToShown
<1>2. stamp[e.of] \in Stamps /\ Registered(e.of) = q /\ q # NoRequest
  BY DEF Registered
<1>3. q \in Requests
  BY <1>2 DEF ReplyInv, RegInv, TypeOK
<1>4. stamp[q] = stamp[e.of] /\ prompt[q] = "shown"
  BY <1>2 DEF ReplyInv, RegInv, Registrations
<1> QED
  BY <1>1, <1>2, <1>3, <1>4 DEF ReplyInv, DistinctStamps

\* A step that neither posts a prompt nor touches the replies, and sets a
\* future or an outcome to "approved" only with its reply, is harmless.
LEMMA ReplyFrame ==
  ASSUME ReplyInv, RegInv',
         UNCHANGED <<stamp, replies>>,
         \A r \in Requests : prompt'[r] = prompt[r] \/ (prompt[r] = "no" /\ prompt'[r] = "out"),
         \A r \in Requests : future'[r] = "approved" => OwnApproval(r),
         \A r \in Requests : outcome'[r] = "approved" => OwnApproval(r)
  PROVE  ReplyInv'
<1>1. \A r \in Requests : OwnApproval(r)' <=> OwnApproval(r)
  BY DEF OwnApproval, Authentic
<1>2. DistinctStamps'
  BY DEF ReplyInv, DistinctStamps
<1>3. RepliesToShown'
  BY DEF ReplyInv, RegInv, TypeOK, Reply, RepliesToShown
<1> QED
  BY <1>1, <1>2, <1>3 DEF ReplyInv, FuturesJustified, OutcomesJustified

\* Every step preserves the correlation of approvals with replies.
LEMMA ReplyStep == ~SharedStamps /\ ReplyInv /\ [Next]_vars => ReplyInv'
<1> SUFFICES ASSUME ~SharedStamps, ReplyInv, [Next]_vars PROVE ReplyInv'
  OBVIOUS
<1>0. RegInv /\ RegInv' /\ TypeOK /\ TypeOK'
  BY RegStep DEF ReplyInv, RegInv
<1>a. /\ \A r \in Requests : future[r] = "approved" => OwnApproval(r)
      /\ \A r \in Requests : outcome[r] = "approved" => OwnApproval(r)
  BY DEF ReplyInv, FuturesJustified, OutcomesJustified
<1>1. ASSUME NEW r \in Requests, Require(r) PROVE ReplyInv'
  <2>1. prompt[r] = "no"
    BY <1>0, <1>1 DEF Require, RegInv, Prompts
  <2> QED
    BY <1>0, <1>a, <1>1, <2>1, ReplyFrame DEF Require, TypeOK
<1>2. ASSUME NEW r \in Requests, Progress(r) PROVE ReplyInv'
  <2>1. UNCHANGED <<stamp, replies, prompt>>
    BY <1>2 DEF Progress, AutoDeny, Sent, SendFails, CollisionNoticed, Resume,
                Timeout, Expire, signal
  <2>2. ASSUME NEW q \in Requests, future'[q] = "approved" PROVE OwnApproval(q)
    <3>1. CASE Sent(r)
      BY <1>0, <1>a, <2>2, <3>1 DEF Sent, TypeOK
    <3>2. CASE Timeout(r)
      BY <1>0, <1>a, <2>2, <3>2 DEF Timeout, TypeOK
    <3>3. CASE UNCHANGED future
      BY <1>a, <2>2, <3>3
    <3> QED
      BY <1>2, <3>1, <3>2, <3>3 DEF Progress, AutoDeny, SendFails, CollisionNoticed, Resume, Expire
  <2>3. ASSUME NEW q \in Requests, outcome'[q] = "approved" PROVE OwnApproval(q)
    <3>1. CASE Resume(r)
      BY <1>0, <1>a, <2>3, <3>1 DEF Resume, Return, TypeOK
    <3>2. CASE AutoDeny(r) \/ CollisionNoticed(r) \/ Expire(r)
      BY <1>0, <1>a, <2>3, <3>2 DEF AutoDeny, CollisionNoticed, Expire, AfterNotice,
                                    Return, Raise, TypeOK
    <3>3. CASE Sent(r) \/ SendFails(r) \/ Timeout(r)
      BY <1>a, <2>3, <3>3 DEF Sent, SendFails, Timeout, Raise
    <3> QED
      BY <1>2, <3>1, <3>2, <3>3 DEF Progress
  <2> QED
    BY <1>0, <2>1, <2>2, <2>3, ReplyFrame
<1>3. ASSUME NEW r \in Requests, Cancel(r) PROVE ReplyInv'
  <2>1. UNCHANGED <<stamp, replies, prompt, outcome>>
    BY <1>3 DEF Cancel, Raise, signal
  <2>2. \A q \in Requests : future'[q] = "approved" => future[q] = "approved"
    BY <1>0, <1>3 DEF Cancel, TypeOK
  <2> QED
    BY <1>0, <1>a, <2>1, <2>2, ReplyFrame
<1>4. ASSUME NEW r \in Requests, DaemonPosts(r) PROVE ReplyInv'
  <2> USE <1>0, <1>4 DEF DaemonPosts, TypeOK, calls, manager
  <2>1. DistinctStamps'
    BY SignalAssumption DEF ReplyInv, RegInv, Prompts, DistinctStamps
  <2>2. RepliesToShown'
    BY DEF ReplyInv, RepliesToShown, Reply
  <2>3. \A q \in Requests : OwnApproval(q)' <=> OwnApproval(q)
    BY DEF OwnApproval, Authentic
  <2> QED
    BY <1>0, <1>a, <2>1, <2>2, <2>3 DEF ReplyInv, FuturesJustified, OutcomesJustified
<1>5. ASSUME NEW e \in Reply, SendReply(e) PROVE ReplyInv'
  <2> USE <1>0, <1>5 DEF SendReply, calls, manager
  <2>1. DistinctStamps'
    BY DEF ReplyInv, DistinctStamps
  <2>2. RepliesToShown'
    BY DEF ReplyInv, RepliesToShown
  <2>3. \A q \in Requests : OwnApproval(q) => OwnApproval(q)'
    BY DEF OwnApproval, Authentic
  <2> QED
    BY <1>0, <1>a, <2>1, <2>2, <2>3 DEF ReplyInv, FuturesJustified, OutcomesJustified
<1>6. ASSUME NEW e \in replies, HandleEnvelope(e) PROVE ReplyInv'
  <2>1. UNCHANGED <<stamp, replies, prompt, outcome>>
    BY <1>6 DEF HandleEnvelope
  <2>2. ASSUME NEW q \in Requests, future'[q] = "approved" PROVE OwnApproval(q)
    <3>1. CASE future[q] = "approved"
      BY <1>a, <3>1
    <3>2. CASE future[q] # "approved"
      <4>1. /\ Authentic(e)
            /\ q = Registered(e.of)
            /\ Registered(e.of) # NoRequest
            /\ e.word = "approve"
        BY <1>0, <1>6, <2>2, <3>2 DEF HandleEnvelope, Decide, TypeOK
      <4>2. e.of = q
        BY <4>1, FoundIsQuoted
      <4> QED
        BY <4>1, <4>2 DEF OwnApproval
    <3> QED
      BY <3>1, <3>2
  <2> QED
    BY <1>0, <1>a, <2>1, <2>2, ReplyFrame
<1>7. ASSUME UNCHANGED <<future, outcome, prompt, stamp, replies>> PROVE ReplyInv'
  BY <1>0, <1>a, <1>7, ReplyFrame
<1>8. ASSUME NEW e \in replies, LoseReply(e) PROVE ReplyInv'
  BY <1>7, <1>8 DEF LoseReply, calls
<1>9. CASE Connect \/ Disconnect \/ Start \/ StopBegins \/ ReceiverStopped \/ StopEnds
  BY <1>7, <1>9 DEF Connect, Disconnect, Start, StopBegins, ReceiverStopped,
                    StopEnds, calls, signal
<1>10. CASE UNCHANGED vars
  BY <1>7, <1>10 DEF vars
<1> QED
  BY <1>1, <1>2, <1>3, <1>4, <1>5, <1>6, <1>8, <1>9, <1>10 DEF Next, Call

LEMMA ReplyInit == Init => ReplyInv
BY RegInit DEF Init, ReplyInv, DistinctStamps, RepliesToShown, FuturesJustified, OutcomesJustified

\* While the daemon stamps every prompt differently, an approved call was
\* approved by an authorized reviewer's reply to its own prompt.
THEOREM OwnReplyOnly == ASSUME ~SharedStamps PROVE Spec => []ApprovedByOwnReply
<1>1. ReplyInv => ApprovedByOwnReply
  BY DEF ReplyInv, OutcomesJustified, OwnApproval, ApprovedByOwnReply
<1>2. ReplyInv /\ [Next]_vars => ReplyInv'
  BY ReplyStep
<1> QED
  BY <1>1, <1>2, ReplyInit, PTL DEF Spec

-----------------------------------------------------------------------------
(* Nobody waits unregistered *)

WaitInv == ReplyInv /\ WaitingIsRegistered

\* A step of r that lets no call start to wait, reopens no future and, of the
\* table, changes at most the entry of r, which waits no longer.
Calm(r) ==
  /\ UNCHANGED stamp
  /\ \/ UNCHANGED pending
     \/ prompt[r] = "shown" /\ pc'[r] # "waiting" /\ Unregister(r)
  /\ \A q \in Requests : pc'[q] = "waiting" => pc[q] = "waiting"
  /\ \A q \in Requests : future'[q] = "pending" => future[q] = "pending"

\* A calm step leaves the calls that wait registered.
LEMMA CalmStep ==
  ASSUME WaitInv, NEW r \in Requests, Calm(r) PROVE WaitingIsRegistered'
<1> USE DEF Calm
<1> SUFFICES ASSUME NEW q \in Requests, pc'[q] = "waiting", future'[q] = "pending"
             PROVE  Registered(q)' = q
  BY DEF WaitingIsRegistered
<1>1. Registered(q) = q /\ prompt[q] = "shown" /\ stamp[q] \in Stamps
  BY DEF WaitInv, ReplyInv, RegInv, Prompts, WaitingIsRegistered
<1>2. CASE UNCHANGED pending
  BY <1>1, <1>2 DEF Registered
<1>3. CASE prompt[r] = "shown" /\ pc'[r] # "waiting" /\ Unregister(r)
  <2>1. stamp[q] # stamp[r]
    BY <1>1, <1>3 DEF WaitInv, ReplyInv, DistinctStamps
  <2> QED
    BY <1>1, <1>3, <2>1 DEF Registered, Unregister, WaitInv, ReplyInv, RegInv, TypeOK
<1> QED
  BY <1>2, <1>3

\* Every step keeps the calls that wait registered.
LEMMA WaitStep == ~SharedStamps /\ WaitInv /\ [Next]_vars => WaitInv'
<1> SUFFICES ASSUME ~SharedStamps, WaitInv, [Next]_vars PROVE WaitingIsRegistered'
  BY ReplyStep DEF WaitInv
<1>0. TypeOK /\ TypeOK' /\ Prompts /\ Registrations
  BY TypeStep DEF WaitInv, ReplyInv, RegInv
<1>1. ASSUME NEW r \in Requests, Require(r) PROVE WaitingIsRegistered'
  <2>1. Calm(r)
    BY <1>0, <1>1 DEF Require, Calm, TypeOK
  <2> QED
    BY <2>1, CalmStep
<1>2. ASSUME NEW r \in Requests, Progress(r) PROVE WaitingIsRegistered'
  <2> USE <1>0 DEF signal
  <2>1. CASE AutoDeny(r) \/ SendFails(r) \/ CollisionNoticed(r)
    <3>1. Calm(r)
      BY <2>1 DEF Calm, AutoDeny, SendFails, CollisionNoticed, AfterNotice, Return, Raise, TypeOK
    <3> QED
      BY <3>1, CalmStep
  <2>2. CASE Sent(r)
    <3>1. stamp[r] \in Stamps /\ UNCHANGED stamp /\ pc[r] = "sending" /\ prompt[r] = "shown"
      BY <2>2 DEF Sent, Prompts
    <3>2. Registered(r) = NoRequest
      BY <3>1 DEF Registered, Registrations, WaitInv, ReplyInv, DistinctStamps, TypeOK
    <3>3. pending' = [pending EXCEPT ![stamp[r]] = r]
      BY <2>2, <3>2 DEF Sent
    <3>4. ASSUME NEW q \in Requests, pc'[q] = "waiting", future'[q] = "pending"
          PROVE  Registered(q)' = q
      <4>1. CASE q = r
        BY <3>1, <3>3, <4>1 DEF Registered, TypeOK
      <4>2. CASE q # r
        <5>1. pc[q] = "waiting" /\ future[q] = "pending"
          BY <2>2, <3>2, <3>4, <4>2 DEF Sent, TypeOK
        <5>2. Registered(q) = q /\ stamp[q] \in Stamps
          BY <5>1 DEF WaitInv, WaitingIsRegistered, Prompts
        <5>3. stamp[q] # stamp[r]
          BY <3>1, <4>2, <5>1 DEF Prompts, WaitInv, ReplyInv, DistinctStamps
        <5> QED
          BY <3>1, <3>3, <5>2, <5>3 DEF Registered, TypeOK
      <4> QED
        BY <4>1, <4>2
    <3> QED
      BY <3>4 DEF WaitingIsRegistered
  <2>3. CASE Resume(r)
    <3>1. Calm(r)
      BY <2>3 DEF Calm, Resume, Return, Prompts, TypeOK
    <3> QED
      BY <3>1, CalmStep
  <2>4. CASE Timeout(r)
    <3>1. Calm(r)
      BY <2>4 DEF Calm, Timeout, Raise, Prompts, TypeOK
    <3> QED
      BY <3>1, CalmStep
  <2>5. CASE Expire(r)
    <3>1. Calm(r)
      BY <2>5 DEF Calm, Expire, AfterNotice, Return, Raise, Prompts, TypeOK
    <3> QED
      BY <3>1, CalmStep
  <2> QED
    BY <1>2, <2>1, <2>2, <2>3, <2>4, <2>5 DEF Progress
<1>3. ASSUME NEW r \in Requests, Cancel(r) PROVE WaitingIsRegistered'
  <2>1. Calm(r)
    BY <1>0, <1>3 DEF Calm, Cancel, Raise, Prompts, TypeOK, signal
  <2> QED
    BY <2>1, CalmStep
<1>4. ASSUME NEW r \in Requests, DaemonPosts(r) PROVE WaitingIsRegistered'
  <2>1. ASSUME NEW q \in Requests, pc[q] = "waiting" PROVE stamp'[q] = stamp[q]
    BY <1>0, <1>4, <2>1 DEF DaemonPosts, Prompts, TypeOK
  <2> QED
    BY <1>4, <2>1 DEF DaemonPosts, calls, WaitInv, WaitingIsRegistered, Registered
<1>5. ASSUME NEW e \in replies, HandleEnvelope(e) PROVE WaitingIsRegistered'
  <2>1. \A q \in Requests : future'[q] = "pending" => future[q] = "pending"
    BY <1>0, <1>5 DEF HandleEnvelope, Decide, TypeOK
  <2> QED
    BY <1>5, <2>1 DEF HandleEnvelope, WaitInv, WaitingIsRegistered, Registered
<1>6. ASSUME UNCHANGED <<pc, future, pending, stamp>> PROVE WaitingIsRegistered'
  BY <1>6 DEF WaitInv, WaitingIsRegistered, Registered
<1>7. ASSUME NEW e \in Reply, SendReply(e) PROVE WaitingIsRegistered'
  BY <1>6, <1>7 DEF SendReply, calls
<1>8. ASSUME NEW e \in replies, LoseReply(e) PROVE WaitingIsRegistered'
  BY <1>6, <1>8 DEF LoseReply, calls
<1>9. CASE Connect \/ Disconnect \/ Start \/ StopBegins \/ ReceiverStopped \/ StopEnds
  BY <1>6, <1>9 DEF Connect, Disconnect, Start, StopBegins, ReceiverStopped,
                    StopEnds, calls, signal
<1>10. CASE UNCHANGED vars
  BY <1>6, <1>10 DEF vars
<1> QED
  BY <1>1, <1>2, <1>3, <1>4, <1>5, <1>7, <1>8, <1>9, <1>10 DEF Next, Call

\* While the daemon stamps every prompt differently, a call that waits for its
\* verdict can be answered: nobody has removed its registration.
THEOREM NobodyWaitsInVain == ASSUME ~SharedStamps PROVE Spec => []WaitingIsRegistered
<1>1. Init => WaitInv
  BY ReplyInit DEF Init, WaitInv, WaitingIsRegistered
<1>2. WaitInv /\ [Next]_vars => WaitInv'
  BY WaitStep
<1>3. WaitInv => WaitingIsRegistered
  BY DEF WaitInv
<1> QED
  BY <1>1, <1>2, <1>3, PTL DEF Spec

-----------------------------------------------------------------------------
(* Approval under the call's own timestamp, shared or not *)

\* Some reviewer approved a prompt with the timestamp that r's has for good.
StampApproval(r) ==
  /\ prompt[r] = "shown"
  /\ \E e \in replies : Authentic(e) /\ e.word = "approve" /\ stamp[e.of] = stamp[r]

StampInv ==
  /\ RegInv
  /\ RepliesToShown
  /\ \A r \in Requests : future[r] = "approved" => StampApproval(r)
  /\ \A r \in Requests : outcome[r] = "approved" => StampApproval(r)

\* Only _handle_envelope approves a future, and that of the request it finds.
LEMMA FutureApproved ==
  ASSUME TypeOK, [Next]_vars, NEW q \in Requests, future'[q] = "approved"
  PROVE  \/ future[q] = "approved"
         \/ \E e \in replies :
              /\ Authentic(e) /\ e.word = "approve"
              /\ Registered(e.of) # NoRequest /\ q = Registered(e.of)
<1>1. ASSUME NEW r \in Requests, Call(r) PROVE future[q] = "approved"
  <2>1. CASE Sent(r)
    BY <2>1 DEF Sent, TypeOK
  <2>2. CASE Timeout(r)
    BY <2>2 DEF Timeout, TypeOK
  <2>3. CASE Cancel(r)
    BY <2>3 DEF Cancel, TypeOK
  <2>4. CASE UNCHANGED future
    BY <2>4
  <2> QED
    BY <1>1, <2>1, <2>2, <2>3, <2>4
       DEF Call, Progress, Require, AutoDeny, SendFails, CollisionNoticed, Resume, Expire
<1>2. ASSUME NEW e \in replies, HandleEnvelope(e), future[q] # "approved"
      PROVE  /\ Authentic(e) /\ e.word = "approve"
             /\ Registered(e.of) # NoRequest /\ q = Registered(e.of)
  BY <1>2 DEF HandleEnvelope, Decide, TypeOK
<1>3. ASSUME \/ \E r \in Requests : DaemonPosts(r)
             \/ \E e \in Reply : SendReply(e)
             \/ \E e \in replies : LoseReply(e)
             \/ Connect \/ Disconnect \/ Start \/ StopBegins \/ ReceiverStopped \/ StopEnds
             \/ UNCHANGED vars
      PROVE  UNCHANGED future
  BY <1>3 DEF DaemonPosts, SendReply, LoseReply, Connect, Disconnect, Start, StopBegins,
              ReceiverStopped, StopEnds, calls, vars
<1> QED
  BY <1>1, <1>2, <1>3 DEF Next

\* require() returns an approval only from its future.
LEMMA OutcomeApproved ==
  ASSUME TypeOK, [Next]_vars, NEW q \in Requests, outcome'[q] = "approved"
  PROVE  outcome[q] = "approved" \/ future[q] = "approved"
<1>1. ASSUME NEW r \in Requests, Call(r) PROVE outcome[q] = "approved" \/ future[q] = "approved"
  <2>1. CASE Resume(r)
    BY <2>1 DEF Resume, Return, TypeOK
  <2>2. CASE AutoDeny(r) \/ CollisionNoticed(r) \/ Expire(r)
    BY <2>2 DEF AutoDeny, CollisionNoticed, Expire, AfterNotice, Return, Raise, TypeOK
  <2>3. CASE UNCHANGED outcome
    BY <2>3
  <2> QED
    BY <1>1, <2>1, <2>2, <2>3
       DEF Call, Progress, Require, Sent, SendFails, Timeout, Cancel, Raise
<1>2. ASSUME \/ \E r \in Requests : DaemonPosts(r)
             \/ \E e \in Reply : SendReply(e)
             \/ \E e \in replies : LoseReply(e) \/ HandleEnvelope(e)
             \/ Connect \/ Disconnect \/ Start \/ StopBegins \/ ReceiverStopped \/ StopEnds
             \/ UNCHANGED vars
      PROVE  UNCHANGED outcome
  BY <1>2 DEF DaemonPosts, SendReply, LoseReply, HandleEnvelope, Connect, Disconnect, Start,
              StopBegins, ReceiverStopped, StopEnds, calls, vars
<1> QED
  BY <1>1, <1>2 DEF Next

\* What is in the chat stays there: a shown prompt and its timestamp, a reply,
\* and each new reply quotes a shown prompt.
LEMMA ChatGrows ==
  ASSUME TypeOK, Prompts, [Next]_vars
  PROVE  /\ \A r \in Requests : prompt[r] = "shown" => prompt'[r] = "shown" /\ stamp'[r] = stamp[r]
         /\ replies \subseteq replies'
         /\ \A e \in replies' : e \in replies \/ prompt[e.of] = "shown"
<1>1. ASSUME NEW r \in Requests, Require(r)
      PROVE  /\ \A q \in Requests : prompt[q] = "shown" => prompt'[q] = "shown"
             /\ UNCHANGED <<stamp, replies>>
  <2>1. prompt[r] = "no" /\ (UNCHANGED prompt \/ prompt' = [prompt EXCEPT ![r] = "out"])
    BY <1>1 DEF Require, Prompts
  <2>2. UNCHANGED <<stamp, replies>>
    BY <1>1 DEF Require
  <2> QED
    BY <2>1, <2>2 DEF TypeOK
<1>2. ASSUME NEW r \in Requests, Progress(r) \/ Cancel(r) PROVE UNCHANGED <<prompt, stamp, replies>>
  BY <1>2 DEF Progress, Cancel, AutoDeny, Sent, SendFails, CollisionNoticed, Resume,
              Timeout, Expire, signal
<1>3. ASSUME NEW r \in Requests, DaemonPosts(r)
      PROVE  /\ \A q \in Requests : prompt[q] = "shown" => prompt'[q] = "shown" /\ stamp'[q] = stamp[q]
             /\ UNCHANGED replies
  BY <1>3 DEF DaemonPosts, TypeOK
<1>4. ASSUME NEW e \in Reply, SendReply(e)
      PROVE  UNCHANGED <<prompt, stamp>> /\ replies' = replies \cup {e} /\ prompt[e.of] = "shown"
  BY <1>4 DEF SendReply
<1>5. ASSUME \/ \E e \in replies : LoseReply(e) \/ HandleEnvelope(e)
             \/ Connect \/ Disconnect \/ Start \/ StopBegins \/ ReceiverStopped \/ StopEnds
             \/ UNCHANGED vars
      PROVE  UNCHANGED <<prompt, stamp, replies>>
  BY <1>5 DEF LoseReply, HandleEnvelope, Connect, Disconnect, Start, StopBegins,
              ReceiverStopped, StopEnds, signal, vars
<1> QED
  BY <1>1, <1>2, <1>3, <1>4, <1>5 DEF Next, Call

\* Every step preserves the approvals with their timestamps.
LEMMA StampStep == StampInv /\ [Next]_vars => StampInv'
<1> SUFFICES ASSUME StampInv, [Next]_vars PROVE StampInv'
  OBVIOUS
<1>0. RegInv /\ RegInv' /\ TypeOK /\ TypeOK' /\ Prompts
  BY RegStep DEF StampInv, RegInv
<1>1. RepliesToShown'
  BY <1>0, ChatGrows DEF StampInv, RepliesToShown, TypeOK, Reply
<1>2. ASSUME NEW r \in Requests, StampApproval(r) PROVE StampApproval(r)'
  <2>1. PICK e \in replies : Authentic(e) /\ e.word = "approve" /\ stamp[e.of] = stamp[r]
    BY <1>2 DEF StampApproval
  <2>2. e.of \in Requests /\ prompt[e.of] = "shown"
    BY <1>0 DEF StampInv, RepliesToShown, TypeOK, Reply
  <2> QED
    BY <1>0, <1>2, <2>1, <2>2, ChatGrows DEF StampApproval, Authentic
<1>3. ASSUME NEW r \in Requests, future'[r] = "approved" PROVE StampApproval(r)
  <2>1. CASE future[r] = "approved"
    BY <2>1 DEF StampInv
  <2>2. ASSUME NEW e \in replies, Authentic(e), e.word = "approve",
               Registered(e.of) # NoRequest, r = Registered(e.of)
        PROVE  StampApproval(r)
    <3>1. stamp[e.of] \in Stamps /\ r = pending[stamp[e.of]] /\ r # NoRequest
      BY <2>2 DEF Registered
    <3>2. stamp[r] = stamp[e.of] /\ prompt[r] = "shown"
      BY <1>0, <3>1 DEF RegInv, Registrations
    <3> QED
      BY <2>2, <3>2 DEF StampApproval
  <2> QED
    BY <1>0, <1>3, <2>1, <2>2, FutureApproved
<1>4. ASSUME NEW r \in Requests, outcome'[r] = "approved" PROVE StampApproval(r)
  BY <1>0, <1>4, OutcomeApproved DEF StampInv
<1> QED
  BY <1>0, <1>1, <1>2, <1>3, <1>4 DEF StampInv

\* Even when prompts share a timestamp, an approved call was approved by an
\* authorized reviewer's reply to a prompt with the timestamp of its own.
THEOREM OwnStampOnly == Spec => []ApprovedUnderItsStamp
<1>1. Init => StampInv
  BY RegInit DEF Init, StampInv, RepliesToShown
<1>2. StampInv => ApprovedUnderItsStamp
  BY DEF StampInv, StampApproval, ApprovedUnderItsStamp
<1> QED
  BY <1>1, <1>2, StampStep, PTL DEF Spec

-----------------------------------------------------------------------------
(* The first verdict is final *)

\* A call that has not come to wait has no future yet.
NoFutureYet ==
  \A r \in Requests : pc[r] \in {"idle", "autodeny", "sending"} => future[r] = "none"

VerdictInv == TypeOK /\ NoFutureYet

LEMMA VerdictStep == VerdictInv /\ [Next]_vars => VerdictInv'
<1> SUFFICES ASSUME VerdictInv, [Next]_vars PROVE NoFutureYet'
  BY TypeStep DEF VerdictInv
<1> USE DEF VerdictInv, NoFutureYet
<1>1. ASSUME NEW r \in Requests, Require(r) PROVE NoFutureYet'
  BY <1>1 DEF Require, TypeOK
<1>2. ASSUME NEW r \in Requests, Progress(r) \/ Cancel(r) PROVE NoFutureYet'
  <2>1. CASE AutoDeny(r) \/ SendFails(r) \/ CollisionNoticed(r) \/ Resume(r) \/ Expire(r)
    BY <2>1 DEF AutoDeny, SendFails, CollisionNoticed, Resume, Expire, AfterNotice, Return, Raise, TypeOK
  <2>2. CASE Sent(r)
    BY <2>2 DEF Sent, TypeOK
  <2>3. CASE Timeout(r)
    BY <2>3 DEF Timeout, Raise, TypeOK
  <2>4. CASE Cancel(r)
    BY <2>4 DEF Cancel, Raise, TypeOK
  <2> QED
    BY <1>2, <2>1, <2>2, <2>3, <2>4 DEF Progress
<1>3. ASSUME NEW e \in replies, HandleEnvelope(e) PROVE NoFutureYet'
  BY <1>3 DEF HandleEnvelope, Decide, TypeOK
<1>4. ASSUME UNCHANGED <<pc, future>> PROVE NoFutureYet'
  BY <1>4
<1>5. ASSUME NEW r \in Requests, DaemonPosts(r) PROVE NoFutureYet'
  BY <1>4, <1>5 DEF DaemonPosts, calls
<1>6. ASSUME NEW e \in Reply, SendReply(e) \/ LoseReply(e) PROVE NoFutureYet'
  BY <1>4, <1>6 DEF SendReply, LoseReply, calls
<1>7. CASE Connect \/ Disconnect \/ Start \/ StopBegins \/ ReceiverStopped \/ StopEnds
  BY <1>4, <1>7 DEF Connect, Disconnect, Start, StopBegins, ReceiverStopped, StopEnds, calls
<1>8. CASE UNCHANGED vars
  BY <1>4, <1>8 DEF vars
<1> QED
  BY <1>1, <1>2, <1>3, <1>5, <1>6, <1>7, <1>8 DEF Next, Call, TypeOK

\* What a step may never do to a verdict that is set.
Sticks ==
  \A r \in Requests :
    future[r] \in {"approved", "denied"} => future'[r] = future[r]

LEMMA StickingStep == VerdictInv /\ [Next]_vars => Sticks
<1> SUFFICES ASSUME VerdictInv, [Next]_vars PROVE Sticks
  OBVIOUS
<1> USE DEF VerdictInv, Sticks
<1>1. ASSUME NEW r \in Requests, Call(r) PROVE Sticks
  <2>1. CASE Sent(r)
    BY <2>1 DEF Sent, NoFutureYet, TypeOK
  <2>2. CASE Timeout(r)
    BY <2>2 DEF Timeout, TypeOK
  <2>3. CASE Cancel(r)
    BY <2>3 DEF Cancel, TypeOK
  <2>4. CASE UNCHANGED future
    BY <2>4
  <2> QED
    BY <1>1, <2>1, <2>2, <2>3, <2>4
       DEF Call, Progress, Require, AutoDeny, SendFails, CollisionNoticed, Resume, Expire
<1>2. ASSUME NEW e \in replies, HandleEnvelope(e) PROVE Sticks
  BY <1>2 DEF HandleEnvelope, Decide, TypeOK
<1>3. ASSUME UNCHANGED future PROVE Sticks
  BY <1>3
<1>4. ASSUME NEW r \in Requests, DaemonPosts(r) PROVE Sticks
  BY <1>3, <1>4 DEF DaemonPosts, calls
<1>5. ASSUME NEW e \in Reply, SendReply(e) \/ LoseReply(e) PROVE Sticks
  BY <1>3, <1>5 DEF SendReply, LoseReply, calls
<1>6. CASE Connect \/ Disconnect \/ Start \/ StopBegins \/ ReceiverStopped \/ StopEnds
  BY <1>3, <1>6 DEF Connect, Disconnect, Start, StopBegins, ReceiverStopped, StopEnds, calls
<1>7. CASE UNCHANGED vars
  BY <1>3, <1>7 DEF vars
<1> QED
  BY <1>1, <1>2, <1>4, <1>5, <1>6, <1>7 DEF Next, TypeOK

\* No later reply and no collision replaces a verdict that is set, whether or
\* not prompts share timestamps.
THEOREM FirstVerdictFinal == Spec => VerdictSticks
<1>1. Init => VerdictInv
  BY TypeInit DEF Init, VerdictInv, NoFutureYet
<1>2. VerdictInv /\ [Next]_vars => [Sticks]_vars
  BY StickingStep
<1> QED
  BY <1>1, <1>2, VerdictStep, PTL DEF Spec, VerdictSticks, Sticks

-----------------------------------------------------------------------------
(* The manager implements the approval desk *)

\* A step that ends at most the call r, with an answer it may give, settles.
LEMMA Settling ==
  ASSUME TypeOK, NEW r \in Requests, pc[r] \in Suspended, UNCHANGED replies,
         NEW a \in Desk!Final, a = "approved" => OwnApproval(r),
         \/ Return(r, a)
         \/ Raise(r)
  PROVE  Desk!Next
<1>1. UNCHANGED DeskVotes
  BY DEF DeskVotes, Authentic
<1>2. DeskAnswer[r] = "open"
  BY DEF DeskAnswer, Suspended
<1>3. CASE Return(r, a)
  <2>1. DeskAnswer' = [DeskAnswer EXCEPT ![r] = a]
    BY <1>3 DEF Return, DeskAnswer, TypeOK
  <2>2. a = "approved" => <<r, "approve">> \in DeskVotes
    BY DEF OwnApproval, DeskVotes
  <2>3. Desk!Settle(r, a)
    BY <1>1, <1>2, <2>1, <2>2 DEF Desk!Settle
  <2> QED
    BY <2>3 DEF Desk!Next
<1>4. CASE Raise(r)
  <2>1. DeskAnswer' = [DeskAnswer EXCEPT ![r] = "failed"]
    BY <1>4 DEF Raise, DeskAnswer, TypeOK
  <2>2. Desk!Settle(r, "failed")
    BY <1>1, <1>2, <2>1 DEF Desk!Settle
  <2> QED
    BY <2>2 DEF Desk!Next, Desk!Final
<1> QED
  BY <1>3, <1>4

\* A step that moves no call across the edges the desk sees is a stutter.
LEMMA Stuttering ==
  ASSUME TypeOK, UNCHANGED <<outcome, replies>>,
         \A q \in Requests :
           pc'[q] = pc[q] \/ (pc[q] \in Suspended /\ pc'[q] \in Suspended)
  PROVE  UNCHANGED Desk!vars
<1>1. DeskVotes' = DeskVotes
  BY DEF DeskVotes, Authentic
<1>2. DeskAnswer' = DeskAnswer
  BY DEF DeskAnswer, Suspended
<1> QED
  BY <1>1, <1>2 DEF Desk!vars

LEMMA DeskStep ==
  ASSUME ReplyInv, [Next]_vars PROVE [Desk!Next]_(Desk!vars)
<1> USE DEF ReplyInv, RegInv
<1>0. TypeOK
  OBVIOUS
<1>1. ASSUME NEW r \in Requests, Require(r) PROVE Desk!Next
  <2>1. UNCHANGED DeskVotes
    BY <1>1 DEF Require, DeskVotes, Authentic
  <2>2. DeskAnswer[r] = "idle"
    BY <1>1 DEF Require, DeskAnswer
  <2>3. PICK p \in {"autodeny", "sending"} : pc' = [pc EXCEPT ![r] = p]
    BY <1>1 DEF Require
  <2>4. DeskAnswer' = [DeskAnswer EXCEPT ![r] = "open"]
    BY <1>0, <1>1, <2>3 DEF Require, DeskAnswer, TypeOK
  <2> QED
    BY <2>1, <2>2, <2>4 DEF Desk!Next, Desk!Ask
<1>2. ASSUME NEW r \in Requests, Progress(r) PROVE [Desk!Next]_(Desk!vars)
  <2> USE DEF Suspended, Desk!Final, signal, manager
  <2>1. CASE AutoDeny(r) \/ CollisionNoticed(r)
    BY <1>0, <2>1, Settling DEF AutoDeny, CollisionNoticed, AfterNotice
  <2>2. CASE Expire(r)
    BY <1>0, <2>2, Settling DEF Expire, AfterNotice
  <2>3. CASE SendFails(r)
    BY <1>0, <2>3, Settling DEF SendFails
  <2>4. CASE Resume(r)
    BY <1>0, <2>4, Settling DEF Resume, FuturesJustified
  <2>5. CASE Sent(r)
    <3>1. CASE pc'[r] = "raised"
      <4>1. Raise(r) /\ pc[r] = "sending" /\ UNCHANGED replies
        BY <1>0, <2>5, <3>1 DEF Sent, Raise, TypeOK
      <4> QED
        BY <1>0, <4>1, Settling
    <3>2. CASE pc'[r] # "raised"
      <4>1. UNCHANGED <<outcome, replies>>
        BY <2>5, <3>2 DEF Sent
      <4>2. ASSUME NEW q \in Requests
            PROVE  pc'[q] = pc[q] \/ (pc[q] \in Suspended /\ pc'[q] \in Suspended)
        BY <1>0, <2>5, <3>2 DEF Sent, TypeOK
      <4> QED
        BY <1>0, <4>1, <4>2, Stuttering
    <3> QED
      BY <3>1, <3>2
  <2>6. CASE Timeout(r)
    <3>1. CASE client
      <4>1. UNCHANGED <<outcome, replies>>
        BY <2>6, <3>1 DEF Timeout
      <4>2. ASSUME NEW q \in Requests
            PROVE  pc'[q] = pc[q] \/ (pc[q] \in Suspended /\ pc'[q] \in Suspended)
        BY <1>0, <2>6, <3>1 DEF Timeout, TypeOK
      <4> QED
        BY <1>0, <4>1, <4>2, Stuttering
    <3>2. CASE ~client
      <4>1. Raise(r) /\ pc[r] = "waiting" /\ UNCHANGED replies
        BY <2>6, <3>2 DEF Timeout
      <4> QED
        BY <1>0, <4>1, Settling
    <3> QED
      BY <3>1, <3>2
  <2> QED
    BY <1>2, <2>1, <2>2, <2>3, <2>4, <2>5, <2>6 DEF Progress
<1>3. ASSUME NEW r \in Requests, Cancel(r) PROVE Desk!Next
  BY <1>0, <1>3, Settling DEF Cancel, Desk!Final, signal
<1>4. ASSUME UNCHANGED <<pc, outcome, replies>> PROVE UNCHANGED Desk!vars
  <2>1. UNCHANGED <<outcome, replies>>
    BY <1>4
  <2>2. ASSUME NEW q \in Requests PROVE pc'[q] = pc[q]
    BY <1>4
  <2> QED
    BY <1>0, <2>1, <2>2, Stuttering
<1>5. ASSUME NEW e \in Reply, SendReply(e) PROVE [Desk!Next]_(Desk!vars)
  <2>1. UNCHANGED DeskAnswer
    BY <1>5 DEF SendReply, DeskAnswer, calls
  <2>2. e.of \in Requests /\ e.word \in {"approve", "deny", "other"}
    BY DEF Reply
  <2>3. DeskAnswer[e.of] # "idle"
    BY <1>0, <1>5, <2>2 DEF SendReply, Prompts, DeskAnswer, TypeOK, Decisions
  <2>4. CASE Authentic(e) /\ e.word # "other"
    <3>1. DeskVotes' = DeskVotes \cup {<<e.of, e.word>>}
      BY <1>5, <2>4 DEF SendReply, DeskVotes, Authentic
    <3> QED
      BY <2>1, <2>2, <2>3, <2>4, <3>1 DEF Desk!Next, Desk!Vote, Desk!Verdicts
  <2>5. CASE ~(Authentic(e) /\ e.word # "other")
    <3>1. UNCHANGED DeskVotes
      BY <1>5, <2>5 DEF SendReply, DeskVotes, Authentic
    <3> QED
      BY <2>1, <3>1 DEF Desk!vars
  <2> QED
    BY <2>4, <2>5
<1>6. ASSUME NEW r \in Requests, DaemonPosts(r) PROVE UNCHANGED Desk!vars
  BY <1>4, <1>6 DEF DaemonPosts, calls
<1>7. ASSUME NEW e \in replies, LoseReply(e) \/ HandleEnvelope(e) PROVE UNCHANGED Desk!vars
  BY <1>4, <1>7 DEF LoseReply, HandleEnvelope, calls
<1>8. CASE Connect \/ Disconnect \/ Start \/ StopBegins \/ ReceiverStopped \/ StopEnds
  BY <1>4, <1>8 DEF Connect, Disconnect, Start, StopBegins, ReceiverStopped,
                    StopEnds, calls, signal
<1>9. CASE UNCHANGED vars
  BY <1>4, <1>9 DEF vars
<1> QED
  BY <1>1, <1>2, <1>3, <1>5, <1>6, <1>7, <1>8, <1>9 DEF Next, Call

\* While the daemon stamps every prompt differently, the Signal manager keeps
\* every promise of the approval desk.
THEOREM SignalImplementsDesk == ASSUME ~SharedStamps PROVE Spec => DeskSpec
<1>1. Init => Desk!Init
  BY DEF Init, Desk!Init, DeskAnswer, DeskVotes
<1>2. ReplyInv /\ [Next]_vars => ReplyInv'
  BY ReplyStep
<1>3. ReplyInv /\ [Next]_vars => [Desk!Next]_(Desk!vars)
  BY DeskStep
<1> QED
  BY <1>1, <1>2, <1>3, ReplyInit, PTL DEF Spec, DeskSpec, Desk!Spec
=============================================================================
