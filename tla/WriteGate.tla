----------------------------- MODULE WriteGate -----------------------------
(***************************************************************************)
(* What the order tools promise about placements and replacements          *)
(* (tools/orders.py, previews.py): an order reaches Schwab only out of a   *)
(* preview that Schwab accepted, that no other call has used and whose use *)
(* a reviewer approved, and at most once.                                  *)
(***************************************************************************)
CONSTANTS Previews,   \* the calls of the preview tools
          Writes,     \* the calls of the write tools
          NoPreview

VARIABLES
  reviewed,   \* the previews Schwab accepted
  claim,      \* claim[w]: the preview the write call w took, or NoPreview
  approved,   \* the write calls a reviewer approved
  executed    \* the write calls whose order reached Schwab

vars == <<reviewed, claim, approved, executed>>

Init ==
  /\ reviewed = {}
  /\ claim = [w \in Writes |-> NoPreview]
  /\ approved = {}
  /\ executed = {}

Review(p) ==
  /\ reviewed' = reviewed \cup {p}
  /\ UNCHANGED <<claim, approved, executed>>

\* A preview is claimed once, by one call.
Claim(w, p) ==
  /\ p \in reviewed
  /\ claim[w] = NoPreview
  /\ \A v \in Writes : claim[v] # p
  /\ claim' = [claim EXCEPT ![w] = p]
  /\ UNCHANGED <<reviewed, approved, executed>>

Approve(w) ==
  /\ claim[w] # NoPreview
  /\ approved' = approved \cup {w}
  /\ UNCHANGED <<reviewed, claim, executed>>

Execute(w) ==
  /\ w \in approved \ executed
  /\ executed' = executed \cup {w}
  /\ UNCHANGED <<reviewed, claim, approved>>

Next ==
  \/ \E p \in Previews : Review(p)
  \/ \E w \in Writes, p \in Previews : Claim(w, p)
  \/ \E w \in Writes : Approve(w) \/ Execute(w)

Spec == Init /\ [][Next]_vars
=============================================================================
