------------------------------ MODULE Startup ------------------------------
(***************************************************************************)
(* The commands of cli.py run as processes that share a token file, a      *)
(* credentials file (tokens.py) and the port of the OAuth callback         *)
(* (auth.py): server, auth, auth --manual and save-credentials, from their *)
(* start to their end or, for the server, until it serves, refreshing its  *)
(* token.  A file is written by truncating it and then filling it in one   *)
(* write; a process may be killed between the two.                         *)
(***************************************************************************)
EXTENDS Integers

CONSTANTS
  Procs,    \* the processes
  Options,  \* the server's options that decide who reviews writes
  MaxAge,   \* TOKEN_MAX_AGE_SECONDS, in ticks of the clock
  MaxNow,   \* bound: where the clock stops
  Nobody,   \* no process holds the callback port
  Orphan    \* the callback server of a killed process holds it

\* Approver flags and their environment variables: none given, only blanks (a
\* Discord ID that is no number), some.
Approvers == {"none", "blank", "some"}

\* flags and environment variables; token: --discord-token, not the stored one
Option == [jesus: BOOLEAN,
           token: BOOLEAN, channel: BOOLEAN, ids: Approvers, envIds: Approvers,
           account: BOOLEAN, numbers: Approvers, envNumbers: Approvers]

ASSUME StartupAssumption ==
  /\ Options \subseteq Option
  /\ MaxAge \in Nat \ {0}
  /\ MaxNow \in Nat
  /\ Nobody \notin Procs /\ Orphan \notin Procs /\ Nobody # Orphan

Absent == -2
Empty == -1  \* truncated; a whole token file is the time of its login

VARIABLES
  now,      \* the clock
  file,     \* the token file
  creds,    \* the credentials file: "absent", "empty", "plain", or "discord" with a Discord token
  pc,       \* pc[p]: where process p is
  cmd,      \* cmd[p]: its command
  stored,   \* stored[p]: it found a Discord token among the credentials
  token,    \* token[p]: the login of its client
  mode,     \* mode[p]: the write mode of a server, with the options it came from
  child,    \* child[p]: its callback server process
  port,     \* who listens on the callback port
  redirect  \* redirect[p]: what its callback server has queued

vars == <<now, file, creds, pc, cmd, stored, token, mode, child, port, redirect>>
files == <<file, creds>>
flow == <<child, port, redirect>>

NoMode == [manager |-> "none", write |-> FALSE]

Init ==
  /\ now = 0
  /\ file \in {Absent, 0}
  /\ creds \in {"absent", "plain"}
  /\ pc = [p \in Procs |-> "idle"]
  /\ cmd = [p \in Procs |-> "server"]
  /\ stored = [p \in Procs |-> FALSE]
  /\ token = [p \in Procs |-> Absent]
  /\ mode = [p \in Procs |-> NoMode]
  /\ child = [p \in Procs |-> "none"]
  /\ port = Nobody
  /\ redirect = [p \in Procs |-> "none"]

\* the callback server of p is killed and reaped
Reaped(p) ==
  /\ child' = [child EXCEPT ![p] = "none"]
  /\ port' = IF port = p THEN Nobody ELSE port
  /\ redirect' = [redirect EXCEPT ![p] = "none"]

Ends_OnlyAfterLogin(p) ==
  /\ pc' = [pc EXCEPT ![p] = "idle"]
  /\ token' = [token EXCEPT ![p] = Absent]
  /\ mode' = [mode EXCEPT ![p] = NoMode]
  /\ UNCHANGED <<now, files, cmd, stored, flow>>

\* the command returns, raises or exits; every way out passes by the finally
\* clause that kills the callback server
Ends(p) ==
  /\ pc' = [pc EXCEPT ![p] = "idle"]
  /\ Reaped(p)
  /\ token' = [token EXCEPT ![p] = Absent]
  /\ mode' = [mode EXCEPT ![p] = NoMode]
  /\ UNCHANGED <<now, files, cmd, stored>>

----------------------------------------------------------------------------
(* The commands. *)

\* load_credentials: a truncated file holds none
StoredToken == creds = "discord"

\* The credentials are loaded.  (Without client ID and secret, given or stored,
\* the command ends here.)
Start(p, c) ==
  /\ pc[p] = "idle"
  /\ pc' = [pc EXCEPT ![p] = IF c = "manual" THEN "pasting" ELSE "opening"]
  /\ cmd' = [cmd EXCEPT ![p] = c]
  /\ stored' = [stored EXCEPT ![p] = StoredToken]
  /\ UNCHANGED <<now, files, token, mode, flow>>

TooOld(login) == now - login >= MaxAge

\* easy_client: a young token is used; without one the login flow starts, which
\* takes a callback URL on 127.0.0.1 only
OpenToken(p) ==
  /\ pc[p] = "opening"
  /\ CASE file = Empty -> Ends(p)  \* what load returns makes schwab-py raise
       [] file # Empty /\ (file = Absent \/ TooOld(file)) ->
            \/ /\ pc' = [pc EXCEPT ![p] = "starting"]
               /\ child' = [child EXCEPT ![p] = "starting"]
               /\ UNCHANGED <<now, files, cmd, stored, token, mode, port, redirect>>
            \/ Ends(p)
       [] OTHER ->
            IF cmd[p] = "auth" THEN Ends(p)
            ELSE /\ pc' = [pc EXCEPT ![p] = "opened"]
                 /\ token' = [token EXCEPT ![p] = file]
                 /\ UNCHANGED <<now, files, cmd, stored, mode, flow>>

\* the callback server binds its port, or exits if somebody else holds it
ChildBinds(p) ==
  /\ child[p] = "starting"
  /\ IF port = Nobody
     THEN port' = p /\ child' = [child EXCEPT ![p] = "up"]
     ELSE child' = [child EXCEPT ![p] = "exited"] /\ UNCHANGED port
  /\ UNCHANGED <<now, files, pc, cmd, stored, token, mode, redirect>>

\* The loop that awaits the callback server: an exited one raises; an answer
\* on the port, whoever listens there, opens the browser; another failure of
\* the request than a refused connection raises.
AwaitServer(p) ==
  /\ pc[p] = "starting"
  /\ \/ child[p] = "exited" /\ Ends(p)
     \/ /\ child[p] # "exited" /\ port # Nobody
        /\ \/ /\ pc' = [pc EXCEPT ![p] = "waiting"]
              /\ UNCHANGED <<now, files, cmd, stored, token, mode, flow>>
           \/ Ends(p)

\* the browser is redirected to the callback port from the page of the flow
\* that listens there, or from the page of another one
Redirect(p, page) ==
  /\ port = p
  /\ redirect[p] = "none"
  /\ page = "own" => pc[p] = "waiting"
  /\ redirect' = [redirect EXCEPT ![p] = page]
  /\ UNCHANGED <<now, files, pc, cmd, stored, token, mode, child, port>>

\* token_writer truncates the file
Truncates(p, login, where) ==
  /\ file' = Empty
  /\ token' = [token EXCEPT ![p] = login]
  /\ pc' = [pc EXCEPT ![p] = where]
  /\ UNCHANGED <<now, creds, cmd, stored, mode, flow>>

\* the redirect is exchanged for a token, unless that fails or, as it must for
\* the page of another flow, the state does not match
Receive(p) ==
  /\ pc[p] = "waiting"
  /\ redirect[p] # "none"
  /\ \/ redirect[p] = "own" /\ Truncates(p, now, "writing")
     \/ Ends(p)

TimeOut_ChildOnly(p) ==
  /\ pc[p] = "waiting"
  /\ child[p] = "exited"
  /\ Ends(p)

TimeOut(p) ==
  /\ pc[p] = "waiting"
  /\ Ends(p)

\* auth --manual: the user pastes the redirect, or gives up
Paste(p) ==
  /\ pc[p] = "pasting"
  /\ Truncates(p, now, "writing") \/ Ends(p)

\* the login is on disk: the flow is over
Written(p) ==
  /\ pc[p] = "writing"
  /\ file' = token[p]
  /\ Reaped(p)
  /\ pc' = [pc EXCEPT ![p] = IF cmd[p] = "server" THEN "opened" ELSE "idle"]
  /\ token' = [token EXCEPT ![p] = IF cmd[p] = "server" THEN @ ELSE Absent]
  /\ UNCHANGED <<now, creds, cmd, stored, mode>>

\* save-credentials
Save(p) ==
  /\ pc[p] = "idle"
  /\ creds' = "empty"
  /\ pc' = [pc EXCEPT ![p] = "saving"]
  /\ UNCHANGED <<now, file, cmd, stored, token, mode, flow>>

Saved(p) ==
  /\ pc[p] = "saving"
  /\ creds' \in {"plain", "discord"}
  /\ pc' = [pc EXCEPT ![p] = "idle"]
  /\ UNCHANGED <<now, file, cmd, stored, token, mode, flow>>

----------------------------------------------------------------------------
(* The server. *)

Refused == [manager |-> "refused", write |-> FALSE]

\* the environment variable counts where there is no flag, without its blanks
Resolved(flags, env) ==
  IF flags # "none" THEN flags ELSE IF env = "blank" THEN "none" ELSE env

\* _select_write_mode; hasToken: a Discord token, given or stored
WriteMode_Lenient(o, hasToken) ==
  LET ids == Resolved(o.ids, o.envIds)
      numbers == Resolved(o.numbers, o.envNumbers)
  IN IF o.jesus THEN [manager |-> "noop", write |-> TRUE]
     ELSE IF o.account /\ numbers = "some" THEN [manager |-> "signal", write |-> TRUE]
     ELSE IF hasToken /\ o.channel /\ ids = "some" THEN [manager |-> "discord", write |-> TRUE]
     ELSE [manager |-> "noop", write |-> FALSE]

WriteMode(o, hasToken) ==
  LET ids == Resolved(o.ids, o.envIds)
      numbers == Resolved(o.numbers, o.envNumbers)
      discordRequested == hasToken \/ o.channel \/ ids # "none"
      signalRequested == o.account \/ numbers # "none"
  IN CASE o.jesus -> [manager |-> "noop", write |-> TRUE]
       [] ~o.jesus /\ discordRequested /\ signalRequested -> Refused
       [] ~o.jesus /\ ~discordRequested /\ signalRequested ->
            IF o.account /\ numbers = "some" THEN [manager |-> "signal", write |-> TRUE]
            ELSE Refused
       [] ~o.jesus /\ discordRequested /\ ~signalRequested ->
            IF hasToken /\ o.channel /\ ids = "some" THEN [manager |-> "discord", write |-> TRUE]
            ELSE Refused
       [] OTHER -> [manager |-> "noop", write |-> FALSE]

Chooses(p) ==
  \E o \in Options :
    LET chosen == WriteMode(o, o.token \/ stored[p])
    IN IF chosen = Refused THEN Ends(p)
       ELSE /\ pc' = [pc EXCEPT ![p] = "serving"]
            /\ mode' = [mode EXCEPT ![p] = [manager |-> chosen.manager, write |-> chosen.write,
                                            options |-> o]]
            /\ UNCHANGED <<now, files, cmd, stored, token, flow>>

Serve_AnyAge(p) == pc[p] = "opened" /\ Chooses(p)

\* the age of the token is checked once more, the write mode is chosen, and the
\* tools are registered: those that write if mode.write
Serve(p) ==
  /\ pc[p] = "opened"
  /\ IF TooOld(token[p]) THEN Ends(p) ELSE Chooses(p)

\* the client refreshes its token, which keeps the time of its login, and has
\* it written over the file
Refresh(p) ==
  /\ pc[p] = "serving"
  /\ Truncates(p, token[p], "refreshing")

Refreshed(p) ==
  /\ pc[p] = "refreshing"
  /\ file' = token[p]
  /\ pc' = [pc EXCEPT ![p] = "serving"]
  /\ UNCHANGED <<now, creds, cmd, stored, token, mode, flow>>

Stop(p) ==
  /\ pc[p] = "serving"
  /\ Ends(p)

----------------------------------------------------------------------------
(* The world. *)

\* killed: no finally clause runs, the callback server lives on and holds, or
\* is about to bind, the port
Crash(p) ==
  /\ pc[p] # "idle"
  /\ pc' = [pc EXCEPT ![p] = "idle"]
  /\ child' = [child EXCEPT ![p] = "none"]
  /\ redirect' = [redirect EXCEPT ![p] = "none"]
  /\ port' = IF port = p \/ (child[p] = "starting" /\ port = Nobody) THEN Orphan ELSE port
  /\ token' = [token EXCEPT ![p] = Absent]
  /\ mode' = [mode EXCEPT ![p] = NoMode]
  /\ UNCHANGED <<now, files, cmd, stored>>

KillOrphan ==
  /\ port = Orphan
  /\ port' = Nobody
  /\ UNCHANGED <<now, files, pc, cmd, stored, token, mode, child, redirect>>

Tick ==
  /\ now < MaxNow
  /\ now' = now + 1
  /\ UNCHANGED <<files, pc, cmd, stored, token, mode, flow>>

Next ==
  \/ \E p \in Procs, c \in {"server", "auth", "manual"} : Start(p, c)
  \/ \E p \in Procs : OpenToken(p)
  \/ \E p \in Procs : ChildBinds(p)
  \/ \E p \in Procs : AwaitServer(p)
  \/ \E p \in Procs, page \in {"own", "foreign"} : Redirect(p, page)
  \/ \E p \in Procs : Receive(p)
  \/ \E p \in Procs : TimeOut(p)
  \/ \E p \in Procs : Paste(p)
  \/ \E p \in Procs : Written(p)
  \/ \E p \in Procs : Save(p)
  \/ \E p \in Procs : Saved(p)
  \/ \E p \in Procs : Serve(p)
  \/ \E p \in Procs : Refresh(p)
  \/ \E p \in Procs : Refreshed(p)
  \/ \E p \in Procs : Stop(p)
  \/ \E p \in Procs : Crash(p)
  \/ KillOrphan
  \/ Tick

Spec == Init /\ [][Next]_vars

\* A process goes on by itself, its callback server comes up or exits, and 300
\* seconds pass.  Nobody has to log in, to paste, to stop or to kill anything.
FairSpec ==
  /\ Spec
  /\ \A p \in Procs :
       /\ WF_vars(OpenToken(p)) /\ WF_vars(ChildBinds(p)) /\ WF_vars(AwaitServer(p))
       /\ WF_vars(TimeOut(p)) /\ WF_vars(Written(p)) /\ WF_vars(Serve(p))

----------------------------------------------------------------------------
(* Properties. *)

Asked(o) ==
  \/ o.token \/ o.channel \/ o.ids # "none" \/ o.envIds = "some"
  \/ o.account \/ o.numbers # "none" \/ o.envNumbers = "some"

\* A server whose tools write runs them past a reviewer, unless it was told
\* otherwise; and one that was asked for review, if only by a Discord token in
\* the credentials file or by half of a backend's options, serves with that
\* review or not at all.
WritesReviewed ==
  \A p \in Procs : pc[p] \in {"serving", "refreshing"} /\ ~mode[p].options.jesus =>
    LET o == mode[p].options
    IN /\ mode[p].write \/ Asked(o) \/ stored[p] => mode[p].manager \in {"discord", "signal"}
       /\ mode[p].manager = "discord" => "some" \in {o.ids, o.envIds}
       /\ mode[p].manager = "signal" => "some" \in {o.numbers, o.envNumbers}

\* Whichever way a login flow ends, by a token, a timeout, somebody else's
\* redirect, a port that is taken or an exception, it leaves no callback server
\* behind that would hold the port against the next one.
ListenerReaped ==
  /\ \A p \in Procs : child[p] # "none" => pc[p] \in {"starting", "waiting", "writing"}
  /\ port \in Procs => child[port] = "up"

\* No server starts with a token that was read from a truncated file, nor with
\* one that has become too old since easy_client took it.
OnlyYoungTokensServe ==
  [][\A p \in Procs : pc[p] = "opened" /\ pc'[p] = "serving" =>
       token[p] \in 0..now /\ now - token[p] < MaxAge]_vars

\* A server or an auth command comes to an end or serves, whatever its
\* callback server, the port and the user do.
CommandEnds ==
  \A p \in Procs : pc[p] \in {"opening", "starting", "waiting", "writing", "opened"}
                     ~> pc[p] \in {"idle", "serving"}
=============================================================================
