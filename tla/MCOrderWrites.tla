--------------------------- MODULE MCOrderWrites ---------------------------
(* Small instances of OrderWrites. *)
EXTENDS OrderWrites, TLC

Symmetry == Permutations(Accounts) \cup Permutations(Specs)
              \cup Permutations(PreviewIds) \cup Permutations(Previews)
              \cup Permutations(Writes)
=============================================================================
