-------------------------- MODULE MCSignalApproval --------------------------
(* Small instances of SignalApproval. *)
EXTENDS SignalApproval, TLC

Symmetry == Permutations(Requests)

\* Bound of SignalShared: at most one reply is one that must not count, because
\* of one thing only (it is a stranger's, or it quotes somebody else's message),
\* next to those that may; and every reply is a verdict.
FewStrays ==
  LET Strays == {e \in replies : ~Authentic(e)}
  IN  /\ Cardinality(Strays) <= 1
      /\ \A e \in Strays : e.word = "approve" /\ (e.ours \/ e.source \in Approvers)
      /\ \A e \in replies : e.word # "other"
=============================================================================
