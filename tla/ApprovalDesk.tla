---------------------------- MODULE ApprovalDesk ----------------------------
(***************************************************************************)
(* What an approval backend promises the write tools                       *)
(* (ApprovalManager.require in approvals/base.py): a call that asks for    *)
(* approval gets one final answer, and the answer is "approved" only if an *)
(* authorized reviewer approved the prompt of that very call.              *)
(***************************************************************************)
CONSTANT Requests   \* the approval requests, one per write-tool call

VARIABLES
  answer,   \* answer[r]: what require() has told the tool so far
  votes     \* the verdicts authorized reviewers gave, as <<request, verdict>>

vars == <<answer, votes>>

Verdicts == {"approve", "deny"}
Final == {"approved", "denied", "expired", "failed"}

TypeOK ==
  /\ answer \in [Requests -> {"idle", "open"} \cup Final]
  /\ votes \subseteq Requests \X Verdicts

Init ==
  /\ answer = [r \in Requests |-> "idle"]
  /\ votes = {}

\* A tool asks: the request is open until require() returns or raises.
Ask(r) ==
  /\ answer[r] = "idle"
  /\ answer' = [answer EXCEPT ![r] = "open"]
  /\ UNCHANGED votes

\* A reviewer answers a prompt, whether or not anybody still waits for it.
Vote(r, v) ==
  /\ answer[r] # "idle"
  /\ votes' = votes \cup {<<r, v>>}
  /\ UNCHANGED answer

\* require() ends.  Every ending but "approved" is always possible: the
\* manager denies what it cannot display, expires what nobody answers and
\* raises when the messenger fails.
Settle(r, a) ==
  /\ answer[r] = "open"
  /\ a = "approved" => <<r, "approve">> \in votes
  /\ answer' = [answer EXCEPT ![r] = a]
  /\ UNCHANGED votes

Next ==
  \/ \E r \in Requests : Ask(r)
  \/ \E r \in Requests, v \in Verdicts : Vote(r, v)
  \/ \E r \in Requests, a \in Final : Settle(r, a)

Spec == Init /\ [][Next]_vars
=============================================================================
