----------------------------- MODULE MCStartup -----------------------------
(* Options: none, whole and half configurations of each backend, both, and   *)
(* blank approvers.                                                          *)
EXTENDS Startup

Plain == [jesus |-> FALSE, token |-> FALSE, channel |-> FALSE, ids |-> "none", envIds |-> "none",
          account |-> FALSE, numbers |-> "none", envNumbers |-> "none"]
Discord == [Plain EXCEPT !.channel = TRUE, !.ids = "some"]
Signal == [Plain EXCEPT !.account = TRUE, !.numbers = "some"]

MCOptions ==
  {Plain, [Plain EXCEPT !.jesus = TRUE, !.ids = "blank"],
   Discord, [Discord EXCEPT !.token = TRUE, !.ids = "none", !.envIds = "some"],
   [Discord EXCEPT !.token = TRUE, !.ids = "blank"], [Plain EXCEPT !.envIds = "blank"],
   Signal, [Signal EXCEPT !.token = TRUE], [Signal EXCEPT !.account = FALSE],
   [Signal EXCEPT !.numbers = "blank", !.envNumbers = "some"],
   [Signal EXCEPT !.numbers = "none", !.envNumbers = "some"]}
=============================================================================
