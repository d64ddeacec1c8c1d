----------------------- MODULE DiscordApproval_proofs -----------------------
(***************************************************************************)
(* Proofs about DiscordApproval for any number of requests, reviewers and  *)
(* reactions: type correctness, registration exactly while a call waits,   *)
(* agreement of the displayed message with the decision, and that the      *)
(* manager implements the approval desk.                                   *)
(***************************************************************************)
EXTENDS DiscordApproval, TLAPS

-----------------------------------------------------------------------------
(* Type correctness *)

\* Every step preserves the type invariant.
LEMMA TypeStep == TypeOK /\ [Next]_vars => TypeOK'
<1> SUFFICES ASSUME TypeOK, [Next]_vars PROVE TypeOK'
  OBVIOUS
<1> USE DEF TypeOK, calls, discord, bot
<1>1. ASSUME NEW r \in Requests, Require(r) PROVE TypeOK'
  BY <1>1 DEF Require, StartUp, Goto, Suspended
<1>2. ASSUME NEW r \in Requests, Post(r) PROVE TypeOK'
  BY <1>2 DEF Post, Goto, Raise, Return, Suspended, Ended, Decisions, Verdicts
<1>3. ASSUME NEW r \in Requests, Progress(r) PROVE TypeOK'
  <2>1. CASE AutoDeny(r)
    BY <2>1 DEF AutoDeny, Goto, Raise, Return, Ended, Decisions, Verdicts
  <2>2. CASE Sent(r)
    BY <2>2 DEF Sent, Goto, Raise, Suspended, Ended
  <2>3. CASE ReactionsAdded(r)
    BY <2>3 DEF ReactionsAdded, Goto, Raise, Suspended, Ended
  <2>4. CASE Refuse(r)
    BY <2>4 DEF Refuse, Finalize, Goto, Raise, Return, Ended, Decisions, Verdicts
  <2>5. CASE Resume(r)
    BY <2>5 DEF Resume, Return, Ended, Decisions, Verdicts
  <2>6. CASE Timeout(r)
    BY <2>6 DEF Timeout, Goto, Suspended
  <2>7. CASE Expire(r)
    BY <2>7 DEF Expire, Finalize, Goto, Raise, Return, Ended, Decisions
  <2> QED
    BY <1>3, <2>1, <2>2, <2>3, <2>4, <2>5, <2>6, <2>7 DEF Progress
<1>4. ASSUME NEW r \in Requests, Cancel(r) PROVE TypeOK'
  BY <1>4 DEF Cancel, Goto, Raise, Ended
<1>5. ASSUME NEW r \in Requests, DiscordPosts(r) PROVE TypeOK'
  BY <1>5 DEF DiscordPosts
<1>6. ASSUME NEW e \in Reaction, React(e) PROVE TypeOK'
  BY <1>6 DEF React
<1>7. ASSUME NEW e \in reactions, LoseReaction(e) PROVE TypeOK'
  BY <1>7 DEF LoseReaction
<1>8. ASSUME NEW e \in reactions, HandleReaction(e) PROVE TypeOK'
  BY <1>8 DEF HandleReaction, Dispatch, Decide, Reaction
<1>9. ASSUME NEW x \in edits, EditLands(x) PROVE TypeOK'
  BY <1>9 DEF EditLands, Decisions
<1>10. CASE Start \/ HandleReady \/ RunnerEnds \/ StopBegins \/ StopEnds
  BY <1>10 DEF Start, StartUp, HandleReady, RunnerEnds, StopBegins, StopEnds
<1>11. CASE UNCHANGED vars
  BY <1>11 DEF vars
<1> QED
  BY <1>1, <1>2, <1>3, <1>4, <1>5, <1>6, <1>7, <1>8, <1>9, <1>10, <1>11 DEF Next

LEMMA TypeInit == Init => TypeOK
BY DEF Init, TypeOK

\* Every reachable state is well typed, whatever the constants.
THEOREM TypeCorrect == Spec => []TypeOK
BY TypeInit, TypeStep, PTL DEF Spec

-----------------------------------------------------------------------------
(* Registered exactly while waiting *)

RegInv == TypeOK /\ RegisteredWhileWaiting

\* Every step keeps the table in line with the calls that wait: each way into
\* and out of the wait changes both.
LEMMA RegStep == RegInv /\ [Next]_vars => RegInv'
<1> SUFFICES ASSUME RegInv, [Next]_vars PROVE RegisteredWhileWaiting'
  BY TypeStep DEF RegInv
<1> USE DEF RegInv, RegisteredWhileWaiting, TypeOK, calls, discord, bot
<1>1. ASSUME NEW r \in Requests, Require(r) \/ Post(r) \/ Cancel(r) \/ Progress(r)
      PROVE  RegisteredWhileWaiting'
  <2>1. CASE Require(r) \/ Post(r)
    BY <2>1 DEF Require, Post, Goto, Raise, Return
  <2>2. CASE AutoDeny(r) \/ Sent(r) \/ Refuse(r)
    BY <2>2 DEF AutoDeny, Sent, Refuse, Finalize, Goto, Raise, Return
  <2>3. CASE ReactionsAdded(r)
    BY <2>3 DEF ReactionsAdded, Goto, Raise
  <2>4. CASE Resume(r) \/ Timeout(r)
    BY <2>4 DEF Resume, Timeout, Goto, Return
  <2>5. CASE Expire(r) \/ Cancel(r)
    BY <2>5 DEF Expire, Cancel, Finalize, Goto, Raise, Return
  <2> QED
    BY <1>1, <2>1, <2>2, <2>3, <2>4, <2>5 DEF Progress
<1>2. ASSUME UNCHANGED <<pc, pending>> PROVE RegisteredWhileWaiting'
  BY <1>2
<1>3. ASSUME NEW r \in Requests, DiscordPosts(r) PROVE RegisteredWhileWaiting'
  BY <1>2, <1>3 DEF DiscordPosts
<1>4. ASSUME NEW e \in Reaction, React(e) \/ LoseReaction(e) \/ HandleReaction(e)
      PROVE  RegisteredWhileWaiting'
  BY <1>2, <1>4 DEF React, LoseReaction, HandleReaction, Dispatch
<1>5. ASSUME NEW x \in edits, EditLands(x) PROVE RegisteredWhileWaiting'
  BY <1>2, <1>5 DEF EditLands
<1>6. CASE Start \/ HandleReady \/ RunnerEnds \/ StopBegins \/ StopEnds
  BY <1>2, <1>6 DEF Start, HandleReady, RunnerEnds, StopBegins, StopEnds
<1>7. CASE UNCHANGED vars
  BY <1>2, <1>7 DEF vars
<1> QED
  BY <1>1, <1>3, <1>4, <1>5, <1>6, <1>7 DEF Next

\* A verdict can reach a call exactly as long as the call can use it, however
\* many calls, reactions, restarts and cancellations interleave.
THEOREM RegisteredIffWaiting == Spec => []RegisteredWhileWaiting
<1>1. Init => RegInv
  BY TypeInit DEF Init, RegInv, RegisteredWhileWaiting
<1>2. RegInv => RegisteredWhileWaiting
  BY DEF RegInv
<1> QED
  BY <1>1, <1>2, RegStep, PTL DEF Spec

-----------------------------------------------------------------------------
(* The message agrees with the decision *)

\* The part of require() in which the prompt is displayed, before the answer.
Displayed == {"reacting", "waiting", "expiring", "refusing"}

\* A call has a future once its prompt is displayed and it has come to wait, not
\* before, and an edit in flight carries the verdict that is set on it.
Futures ==
  /\ \A r \in Requests : future[r] # "none" =>
       pc[r] \in {"waiting", "expiring"} \cup Ended /\ Posted(r)
  /\ \A r \in Requests : pc[r] \in {"waiting", "expiring"} => future[r] # "none"
  /\ \A x \in edits : future[x[1]] = x[2]

\* What a message may display: a verdict only if it is set on the future or,
\* for a denial, if there never was one; and it says expired only of a call
\* that has not returned a verdict.
Display ==
  \A r \in Requests :
    /\ pc[r] \in Displayed => Posted(r)
    /\ message[r] = "approved" => future[r] = "approved"
    /\ message[r] = "denied" =>
         \/ future[r] = "denied"
         \/ future[r] = "none" /\ pc[r] \in Ended
    /\ message[r] = "expired" => pc[r] = "raised" \/ outcome[r] = "expired"

\* Only a call that has returned has an outcome, a verdict comes from its future,
\* except for the denial of a call that never waited, and only one that did expires.
Outcomes ==
  \A r \in Requests :
    /\ pc[r] # "returned" => outcome[r] = "none"
    /\ outcome[r] = "approved" => future[r] = "approved"
    /\ outcome[r] = "denied" => future[r] \in {"none", "denied"}
    /\ outcome[r] = "expired" => future[r] # "none"

DisplayInv == TypeOK /\ Futures /\ Display /\ Outcomes

\* Every step keeps the futures, the edits and what is displayed in line.
LEMMA DisplayStep == DisplayInv /\ [Next]_vars => DisplayInv'
<1> SUFFICES ASSUME DisplayInv, [Next]_vars PROVE Futures' /\ Display' /\ Outcomes'
  BY TypeStep DEF DisplayInv
<1> USE DEF DisplayInv, Futures, Display, Outcomes, Displayed, Posted, Ended, TypeOK
<1>1. ASSUME NEW r \in Requests, Require(r) \/ Post(r)
      PROVE  Futures' /\ Display' /\ Outcomes'
  BY <1>1 DEF Require, Post, Goto, Raise, Return, discord, bot
<1>2. ASSUME NEW r \in Requests, Progress(r) \/ Cancel(r)
      PROVE  Futures' /\ Display' /\ Outcomes'
  <2> USE DEF discord, bot
  <2>1. CASE AutoDeny(r) \/ Sent(r)
    BY <2>1 DEF AutoDeny, Sent, Goto, Raise, Return
  <2>2. CASE ReactionsAdded(r)
    BY <2>2 DEF ReactionsAdded, Goto, Raise, Verdicts
  <2>3. CASE Refuse(r)
    BY <2>3 DEF Refuse, Finalize, Goto, Raise, Return
  <2>4. CASE Resume(r)
    BY <2>4 DEF Resume, Return, Verdicts
  <2>5. CASE Timeout(r) \/ Cancel(r)
    BY <2>5 DEF Timeout, Cancel, Goto, Raise, Suspended, Verdicts
  <2>6. CASE Expire(r)
    BY <2>6 DEF Expire, Finalize, Goto, Raise, Return
  <2> QED
    BY <1>2, <2>1, <2>2, <2>3, <2>4, <2>5, <2>6 DEF Progress
<1>3. ASSUME NEW r \in Requests, DiscordPosts(r) PROVE Futures' /\ Display' /\ Outcomes'
  BY <1>3 DEF DiscordPosts, calls
<1>4. ASSUME NEW e \in reactions, HandleReaction(e) PROVE Futures' /\ Display' /\ Outcomes'
  BY <1>4 DEF HandleReaction, Dispatch, Decide, Reaction, Verdicts
<1>5. ASSUME NEW x \in edits, EditLands(x) PROVE Futures' /\ Display' /\ Outcomes'
  BY <1>5 DEF EditLands, calls, Verdicts
<1>6. ASSUME UNCHANGED <<pc, outcome, future, message, edits>>
      PROVE  Futures' /\ Display' /\ Outcomes'
  BY <1>6
<1>7. ASSUME NEW e \in Reaction, React(e) \/ LoseReaction(e)
      PROVE  Futures' /\ Display' /\ Outcomes'
  BY <1>6, <1>7 DEF React, LoseReaction, calls
<1>8. CASE Start \/ HandleReady \/ RunnerEnds \/ StopBegins \/ StopEnds
  BY <1>6, <1>8 DEF Start, HandleReady, RunnerEnds, StopBegins, StopEnds, calls, discord
<1>9. CASE UNCHANGED vars
  BY <1>6, <1>9 DEF vars
<1> QED
  BY <1>1, <1>2, <1>3, <1>4, <1>5, <1>7, <1>8, <1>9 DEF Next

LEMMA DisplayInit == Init => DisplayInv
BY TypeInit DEF Init, DisplayInv, Futures, Display, Outcomes, Displayed, Ended

\* A decision the channel shows is the one the tool was told, or the verdict that
\* a timeout overrode, in whatever order the edits of the handlers and of
\* require() land.
THEOREM DisplayIsAccountedFor == Spec => []DisplayAgrees
<1>1. DisplayInv => DisplayAgrees
  BY DEF DisplayInv, TypeOK, Futures, Display, Outcomes, Posted, Ended, Decisions,
         Verdicts, DisplayAgrees
<1> QED
  BY <1>1, DisplayInit, DisplayStep, PTL DEF Spec

-----------------------------------------------------------------------------
(* The manager implements the approval desk *)

\* The reaction that justifies an approval.
OwnApproval(r) ==
  \E e \in reactions : e.on = r /\ Authorized(e) /\ e.emoji = "approved"

\* An approval set on a future has its reaction, and nothing is displayed
\* before the call.
Justified ==
  \A r \in Requests :
    /\ future[r] = "approved" => OwnApproval(r)
    /\ pc[r] = "idle" => message[r] = "no"

VoteInv == DisplayInv /\ Justified

\* Reactions are never taken back.
LEMMA ReactionsStay == [Next]_vars => reactions \subseteq reactions'
<1> SUFFICES ASSUME [Next]_vars PROVE reactions \subseteq reactions'
  OBVIOUS
<1> USE DEF discord
<1>1. CASE \E r \in Requests : Require(r) \/ Post(r) \/ Cancel(r) \/ DiscordPosts(r)
  BY <1>1 DEF Require, Post, Cancel, DiscordPosts
<1>2. CASE \E r \in Requests : Progress(r)
  BY <1>2 DEF Progress, AutoDeny, Sent, ReactionsAdded, Refuse, Resume, Timeout, Expire, Finalize
<1>3. CASE \E e \in Reaction : React(e)
  BY <1>3 DEF React
<1>4. CASE \/ \E e \in reactions : LoseReaction(e) \/ HandleReaction(e)
           \/ \E x \in edits : EditLands(x)
  BY <1>4 DEF LoseReaction, HandleReaction, Dispatch, EditLands
<1>5. CASE Start \/ HandleReady \/ RunnerEnds \/ StopBegins \/ StopEnds \/ UNCHANGED vars
  BY <1>5 DEF Start, HandleReady, RunnerEnds, StopBegins, StopEnds, vars
<1> QED
  BY <1>1, <1>2, <1>3, <1>4, <1>5 DEF Next

\* Every step preserves the justification of approvals.
LEMMA VoteStep == VoteInv /\ [Next]_vars => VoteInv'
<1> SUFFICES ASSUME VoteInv, [Next]_vars PROVE Justified'
  BY DisplayStep DEF VoteInv
<1>0. \A r \in Requests : OwnApproval(r) => OwnApproval(r)'
  BY ReactionsStay DEF OwnApproval, Authorized
<1> USE DEF VoteInv, DisplayInv, Justified, TypeOK
<1>1. ASSUME NEW r \in Requests, Require(r) \/ Post(r) PROVE Justified'
  BY <1>0, <1>1 DEF Require, Post, Goto, Raise, Return, discord
<1>2. ASSUME NEW r \in Requests, Progress(r) \/ Cancel(r) PROVE Justified'
  <2> USE <1>0 DEF discord
  <2>1. CASE AutoDeny(r) \/ Sent(r) \/ Resume(r)
    BY <2>1 DEF AutoDeny, Sent, Resume, Goto, Raise, Return
  <2>2. CASE ReactionsAdded(r) \/ Timeout(r) \/ Cancel(r)
    BY <2>2 DEF ReactionsAdded, Timeout, Cancel, Goto, Raise
  <2>3. CASE Refuse(r) \/ Expire(r)
    BY <2>3 DEF Refuse, Expire, Finalize, Goto, Raise, Return
  <2> QED
    BY <1>2, <2>1, <2>2, <2>3 DEF Progress
<1>3. ASSUME NEW r \in Requests, DiscordPosts(r) PROVE Justified'
  BY <1>0, <1>3 DEF DiscordPosts, calls
<1>4. ASSUME NEW e \in reactions, HandleReaction(e) PROVE Justified'
  BY <1>0, <1>4 DEF HandleReaction, Dispatch, Decide, OwnApproval, Authorized
<1>5. ASSUME NEW x \in edits, EditLands(x) PROVE Justified'
  BY <1>0, <1>5 DEF EditLands, calls, Futures, Ended, Verdicts
<1>6. ASSUME UNCHANGED <<pc, future, message>> PROVE Justified'
  BY <1>0, <1>6
<1>7. ASSUME NEW e \in Reaction, React(e) \/ LoseReaction(e) PROVE Justified'
  BY <1>6, <1>7 DEF React, LoseReaction, calls
<1>8. CASE Start \/ HandleReady \/ RunnerEnds \/ StopBegins \/ StopEnds
  BY <1>6, <1>8 DEF Start, HandleReady, RunnerEnds, StopBegins, StopEnds, calls, discord
<1>9. CASE UNCHANGED vars
  BY <1>6, <1>9 DEF vars
<1> QED
  BY <1>1, <1>2, <1>3, <1>4, <1>5, <1>7, <1>8, <1>9 DEF Next

LEMMA VoteInit == Init => VoteInv
BY DisplayInit DEF Init, VoteInv, Justified

\* A step that ends at most the call r, with an answer it may give, settles.
LEMMA Settling ==
  ASSUME TypeOK, NEW r \in Requests, pc[r] \in Suspended \cup {"toolarge"},
         UNCHANGED reactions,
         NEW a \in Desk!Final, a = "approved" => OwnApproval(r),
         \/ Return(r, a)
         \/ Raise(r)
  PROVE  Desk!Next
<1>1. UNCHANGED DeskVotes
  BY DEF DeskVotes, Authorized
<1>2. DeskAnswer[r] = "open"
  BY DEF DeskAnswer, Suspended
<1>3. CASE Return(r, a)
  <2>1. DeskAnswer' = [DeskAnswer EXCEPT ![r] = a]
    BY <1>3 DEF Return, DeskAnswer, TypeOK
  <2>2. a = "approved" => <<r, "approve">> \in DeskVotes
    BY DEF OwnApproval, DeskVotes
  <2>3. Desk!Settle(r, a)
    BY <1>1, <1>2, <2>1, <2>2 DEF Desk!Settle
  <2> QED
    BY <2>3 DEF Desk!Next
<1>4. CASE Raise(r)
  <2>1. DeskAnswer' = [DeskAnswer EXCEPT ![r] = "failed"]
    BY <1>4 DEF Raise, Goto, DeskAnswer, TypeOK
  <2>2. Desk!Settle(r, "failed")
    BY <1>1, <1>2, <2>1 DEF Desk!Settle
  <2> QED
    BY <2>2 DEF Desk!Next, Desk!Final
<1> QED
  BY <1>3, <1>4

\* A step that moves no call across the edges the desk sees is a stutter.
LEMMA Stuttering ==
  ASSUME TypeOK, UNCHANGED <<outcome, reactions>>,
         \A q \in Requests :
           \/ pc'[q] = pc[q]
           \/ {pc[q], pc'[q]} \subseteq Suspended \cup {"toolarge"}
  PROVE  UNCHANGED Desk!vars
<1>1. DeskVotes' = DeskVotes
  BY DEF DeskVotes, Authorized
<1>2. DeskAnswer' = DeskAnswer
  BY DEF DeskAnswer, Suspended
<1> QED
  BY <1>1, <1>2 DEF Desk!vars

\* A call that goes from one suspension to another is a stutter of the desk.
LEMMA MovesOn ==
  ASSUME TypeOK, NEW r \in Requests, NEW where \in Suspended, Goto(r, where),
         pc[r] \in Suspended \cup {"toolarge"}, UNCHANGED reactions
  PROVE  UNCHANGED Desk!vars
<1>1. ASSUME NEW q \in Requests
      PROVE  pc'[q] = pc[q] \/ {pc[q], pc'[q]} \subseteq Suspended \cup {"toolarge"}
  BY DEF Goto, TypeOK
<1>2. UNCHANGED <<outcome, reactions>>
  BY DEF Goto
<1> QED
  BY <1>1, <1>2, Stuttering

\* Every step of the manager is a step of the desk or a stutter.
LEMMA DeskStep ==
  ASSUME VoteInv, [Next]_vars PROVE [Desk!Next]_(Desk!vars)
<1>0. TypeOK
  BY DEF VoteInv, DisplayInv
<1>1. ASSUME NEW r \in Requests, Require(r) PROVE Desk!Next
  <2>1. UNCHANGED DeskVotes
    BY <1>1 DEF Require, DeskVotes, Authorized, discord
  <2>2. DeskAnswer[r] = "idle"
    BY <1>1 DEF Require, DeskAnswer
  <2>3. PICK p \in {"connecting", "toolarge"} : Goto(r, p)
    BY <1>1 DEF Require
  <2>4. DeskAnswer' = [DeskAnswer EXCEPT ![r] = "open"]
    BY <1>0, <2>3 DEF Goto, DeskAnswer, TypeOK
  <2> QED
    BY <2>1, <2>2, <2>4 DEF Desk!Next, Desk!Ask
<1>2. ASSUME NEW r \in Requests, Post(r) \/ Progress(r) \/ Cancel(r)
      PROVE  [Desk!Next]_(Desk!vars)
  <2> USE <1>0 DEF Suspended, Desk!Final, discord
  <2>1. CASE Post(r)
    BY <2>1, Settling, MovesOn DEF Post
  <2>2. CASE AutoDeny(r) \/ Cancel(r)
    BY <2>2, Settling DEF AutoDeny, Cancel
  <2>3. CASE Sent(r)
    BY <2>3, Settling, MovesOn DEF Sent
  <2>4. CASE ReactionsAdded(r)
    BY <2>4, Settling, MovesOn DEF ReactionsAdded
  <2>5. CASE Refuse(r) \/ Expire(r)
    BY <2>5, Settling DEF Refuse, Expire, Finalize
  <2>6. CASE Resume(r)
    BY <2>6, Settling DEF Resume, Verdicts, VoteInv, Justified
  <2>7. CASE Timeout(r)
    BY <2>7, MovesOn DEF Timeout
  <2> QED
    BY <1>2, <2>1, <2>2, <2>3, <2>4, <2>5, <2>6, <2>7 DEF Progress
<1>3. ASSUME UNCHANGED <<pc, outcome, reactions>> PROVE UNCHANGED Desk!vars
  <2>1. UNCHANGED <<outcome, reactions>>
    BY <1>3
  <2>2. ASSUME NEW q \in Requests PROVE pc'[q] = pc[q]
    BY <1>3
  <2> QED
    BY <1>0, <2>1, <2>2, Stuttering
<1>4. ASSUME NEW e \in Reaction, React(e) PROVE [Desk!Next]_(Desk!vars)
  <2>1. UNCHANGED DeskAnswer
    BY <1>4 DEF React, DeskAnswer, calls
  <2>2. e.on \in Requests /\ e.emoji \in {"approved", "denied", "other"}
    BY DEF Reaction, Verdicts
  <2>3. DeskAnswer[e.on] # "idle"
    BY <1>0, <1>4, <2>2 DEF React, Posted, VoteInv, Justified, DeskAnswer, TypeOK, Decisions,
                            Verdicts
  <2> DEFINE v == IF e.emoji = "approved" THEN "approve" ELSE "deny"
  <2>4. CASE Authorized(e) /\ e.emoji # "other"
    <3>1. DeskVotes' = DeskVotes \cup {<<e.on, v>>}
      BY <1>4, <2>4 DEF React, DeskVotes, Authorized
    <3> QED
      BY <2>1, <2>2, <2>3, <3>1 DEF Desk!Next, Desk!Vote, Desk!Verdicts
  <2>5. CASE ~(Authorized(e) /\ e.emoji # "other")
    <3>1. UNCHANGED DeskVotes
      BY <1>4, <2>5 DEF React, DeskVotes, Authorized
    <3> QED
      BY <2>1, <3>1 DEF Desk!vars
  <2> QED
    BY <2>4, <2>5
<1>5. ASSUME NEW r \in Requests, DiscordPosts(r) PROVE UNCHANGED Desk!vars
  BY <1>3, <1>5 DEF DiscordPosts, calls
<1>6. ASSUME NEW e \in reactions, LoseReaction(e) \/ HandleReaction(e) PROVE UNCHANGED Desk!vars
  BY <1>3, <1>6 DEF LoseReaction, HandleReaction, Dispatch, calls
<1>7. ASSUME NEW x \in edits, EditLands(x) PROVE UNCHANGED Desk!vars
  BY <1>3, <1>7 DEF EditLands, calls
<1>8. CASE Start \/ HandleReady \/ RunnerEnds \/ StopBegins \/ StopEnds
  BY <1>3, <1>8 DEF Start, HandleReady, RunnerEnds, StopBegins, StopEnds, calls, discord
<1>9. CASE UNCHANGED vars
  BY <1>3, <1>9 DEF vars
<1> QED
  BY <1>1, <1>2, <1>4, <1>5, <1>6, <1>7, <1>8, <1>9 DEF Next

\* The Discord manager keeps every promise of the approval desk.
THEOREM DiscordImplementsDesk == Spec => DeskSpec
<1>1. Init => Desk!Init
  BY DEF Init, Desk!Init, DeskAnswer, DeskVotes
<1>2. VoteInv /\ [Next]_vars => [Desk!Next]_(Desk!vars)
  BY DeskStep
<1> QED
  BY <1>1, <1>2, VoteInit, VoteStep, PTL DEF Spec, DeskSpec, Desk!Spec
=============================================================================
