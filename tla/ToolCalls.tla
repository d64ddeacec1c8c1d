----------------------------- MODULE ToolCalls -----------------------------
(***************************************************************************)
(* One call of a tool through the wrappers that register_tool puts round   *)
(* it (tools/_registration.py): path parameters, result transform,         *)
(* approval with its progress reports, context.  Calls share nothing here: *)
(* what require() does is the subject of the approval modules.             *)
(*                                                                         *)
(* A request is cancelled by its scope (anyio, outside src/): from then on *)
(* every await of its task raises, also after one that swallowed it.       *)
(*                                                                         *)
(* Its specification has a name of its own, so that the tools' proofs can  *)
(* extend this module beside OrderTools.                                   *)
(***************************************************************************)
EXTENDS Naturals, Sequences

VARIABLES
  tool,       \* "reads", "writes" (register_tool wraps it) or "asks" (it calls run_approval itself)
  ids,        \* its path parameters: "safe", "unsafe", or "absent" (None)
  progress,   \* the request has a progress token
  cancelled,  \* the request's scope is cancelled
  pc,         \* where the call is
  layers,     \* the layers it still has to pass
  decision,   \* what require() returned, or "raised"
  keepalive,  \* the keepalive task: "none", "asleep", "sending" or "over"
  asked,      \* a reviewer was asked
  ran         \* the operation of the tool was carried out

wrapperVars == <<tool, ids, progress, cancelled, pc, layers, decision, keepalive, asked, ran>>
request == <<tool, ids, progress>>

Decisions == {"approved", "denied", "expired"}

Layers_ApprovalOutside(t) ==
  CASE t = "reads" -> <<"paths">>
    [] t = "writes" -> <<"approval", "paths">>
    [] t = "asks" -> <<"paths", "identifiers", "approval">>

\* from the outermost wrapper to the operation; cancel_order and its like
\* check their identifiers and ask by themselves
Layers(t) ==
  CASE t = "reads" -> <<"paths">>
    [] t = "writes" -> <<"paths", "approval">>
    [] t = "asks" -> <<"paths", "identifiers", "approval">>

WrapperInit ==
  /\ tool \in {"reads", "writes", "asks"}
  /\ ids \in {"safe", "unsafe", "absent"}
  /\ progress \in BOOLEAN
  /\ cancelled = FALSE
  /\ pc = "layers"
  /\ layers = Layers(tool)
  /\ decision = "none"
  /\ keepalive = "none"
  /\ asked = FALSE
  /\ ran = FALSE

\* the request is cancelled, by the client or with its session
Cancel ==
  /\ pc # "ended"
  /\ ~cancelled
  /\ cancelled' = TRUE
  /\ UNCHANGED <<request, pc, layers, decision, keepalive, asked, ran>>

\* _wrap_with_path_param_validation skips None, _validate_order_identifier
\* does not
CheckIds ==
  /\ pc = "layers"
  /\ layers # <<>>
  /\ Head(layers) \in {"paths", "identifiers"}
  /\ IF ids = "unsafe" \/ (ids = "absent" /\ Head(layers) = "identifiers")
     THEN pc' = "ended" /\ UNCHANGED layers
     ELSE layers' = Tail(layers) /\ UNCHANGED pc
  /\ UNCHANGED <<request, cancelled, decision, keepalive, asked, ran>>

\* run_approval reports that it waits, which may fail or be cancelled, starts
\* the keepalive task and asks
Ask ==
  /\ pc = "layers"
  /\ layers # <<>>
  /\ Head(layers) = "approval"
  /\ layers' = Tail(layers)
  /\ \/ /\ ~(progress /\ cancelled)
        /\ pc' = "requiring"
        /\ keepalive' = IF progress THEN "asleep" ELSE "none"
        /\ asked' = TRUE
     \/ progress /\ pc' = "ended" /\ UNCHANGED <<keepalive, asked>>
  /\ UNCHANGED <<request, cancelled, decision, ran>>

KeepaliveWakes ==
  /\ keepalive = "asleep"
  /\ keepalive' = "sending"
  /\ UNCHANGED <<request, cancelled, pc, layers, decision, asked, ran>>

\* a report that fails ends the task quietly
KeepaliveSends ==
  /\ keepalive = "sending"
  /\ keepalive' \in {"asleep", "over"}
  /\ UNCHANGED <<request, cancelled, pc, layers, decision, asked, ran>>

\* require() returns, raises, or is cancelled; finally cancels the keepalive
Require ==
  /\ pc = "requiring"
  /\ decision' \in IF cancelled THEN {"raised"} ELSE Decisions \cup {"raised"}
  /\ pc' = "reaping"
  /\ UNCHANGED <<request, cancelled, layers, keepalive, asked, ran>>

\* the keepalive task, in its sleep or in a report, meets its cancellation
KeepaliveStops ==
  /\ pc = "reaping"
  /\ keepalive \in {"asleep", "sending"}
  /\ keepalive' = "over"
  /\ UNCHANGED <<request, cancelled, pc, layers, decision, asked, ran>>

Reap_NoWait ==
  /\ pc = "reaping"
  /\ pc' = IF decision \in Decisions THEN "reporting" ELSE "ended"
  /\ UNCHANGED <<request, cancelled, layers, decision, keepalive, asked, ran>>

\* the task has ended and the await of it returns or raises CancelledError,
\* which is suppressed whomever it was meant for
Reap ==
  /\ pc = "reaping"
  /\ keepalive \in {"none", "over"}
  /\ pc' = IF decision \in Decisions THEN "reporting" ELSE "ended"
  /\ UNCHANGED <<request, cancelled, layers, decision, keepalive, asked, ran>>

\* the completion is reported, a failure of which is ignored but not a
\* cancellation; then the call goes on or raises
Report ==
  /\ pc = "reporting"
  /\ pc' = IF decision = "approved" /\ ~(progress /\ cancelled) THEN "layers" ELSE "ended"
  /\ UNCHANGED <<request, cancelled, layers, decision, keepalive, asked, ran>>

\* the tool's own work, whose first await raises in a cancelled request
Run ==
  /\ pc = "layers"
  /\ layers = <<>>
  /\ pc' = "ended"
  /\ ran' = ~cancelled
  /\ UNCHANGED <<request, cancelled, layers, decision, keepalive, asked>>

WrapperNext ==
  \/ Cancel \/ CheckIds \/ Ask \/ Run
  \/ KeepaliveWakes \/ KeepaliveSends \/ KeepaliveStops
  \/ Require \/ Reap \/ Report

WrapperSpec == WrapperInit /\ [][WrapperNext]_wrapperVars

----------------------------------------------------------------------------
(* Properties. *)

\* A reviewer is never asked about a call whose identifiers cannot be sent, and
\* an operation that writes is carried out only for safe ones and only once
\* approved, whichever layer asks and wherever a cancellation is swallowed.
GateInOrder ==
  /\ asked => ids # "unsafe"
  /\ ran /\ tool # "reads" => ids # "unsafe" /\ decision = "approved"

\* No "still waiting" reaches the client after the completion report or after
\* the end of the call: the keepalive task never outlives the wait, whether
\* require() returned, raised or was cancelled in the middle of a report.
KeepaliveWithinWait == keepalive \in {"asleep", "sending"} => pc \in {"requiring", "reaping"}
=============================================================================
