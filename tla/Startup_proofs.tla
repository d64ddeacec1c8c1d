--------------------------- MODULE Startup_proofs ---------------------------
(***************************************************************************)
(* Proofs about Startup for any number of processes, any options of the    *)
(* server and any maximal age of a token: no login flow leaves a callback  *)
(* server behind, only young tokens serve, and writes are reviewed.        *)
(***************************************************************************)
EXTENDS Startup, TLAPS

-----------------------------------------------------------------------------
(* Types *)

Served == [manager : {"noop", "discord", "signal"}, write : BOOLEAN, options : Options]

Flow == {"starting", "waiting", "writing"}
Serving == {"serving", "refreshing"}

TypeOK ==
  /\ now \in Nat
  /\ file \in {Absent, Empty} \cup 0..now
  /\ pc \in [Procs -> {"idle", "opening", "pasting", "opened", "saving"} \cup Flow \cup Serving]
  /\ cmd \in [Procs -> {"server", "auth", "manual"}]
  /\ stored \in [Procs -> BOOLEAN]
  /\ token \in [Procs -> {Absent} \cup 0..now]
  /\ mode \in [Procs -> {NoMode} \cup Served]
  /\ child \in [Procs -> {"none", "starting", "up", "exited"}]
  /\ port \in Procs \cup {Nobody, Orphan}
  /\ redirect \in [Procs -> {"none", "own", "foreign"}]

\* A process that is past its login has a token, whole and not from the future.
HasToken ==
  \A p \in Procs : pc[p] \in {"writing", "opened"} \cup Serving => token[p] \in 0..now

\* A server that serves has chosen its write mode.
HasMode == \A p \in Procs : pc[p] \in Serving => mode[p] \in Served

TypeInv == TypeOK /\ HasToken /\ HasMode

\* Every way out of a command forgets its token and its mode and reaps its
\* callback server.
LEMMA EndsType == ASSUME TypeInv, NEW p \in Procs, Ends(p) PROVE TypeInv'
BY DEF TypeInv, TypeOK, HasToken, HasMode, Flow, Serving, Ends, Reaped, files

LEMMA TypeStep == TypeInv /\ [Next]_vars => TypeInv'
<1> SUFFICES ASSUME TypeInv, [Next]_vars PROVE TypeInv'
  OBVIOUS
<1> USE StartupAssumption DEF TypeInv, TypeOK, HasToken, HasMode, Flow, Serving, files, flow, Absent, Empty
<1>1. ASSUME NEW p \in Procs, NEW c \in {"server", "auth", "manual"}, Start(p, c) PROVE TypeInv'
  BY <1>1 DEF Start, StoredToken
<1>2. ASSUME NEW p \in Procs, OpenToken(p) PROVE TypeInv'
  <2>1. CASE Ends(p)
    BY <2>1, EndsType
  <2>2. CASE /\ pc[p] = "opening"
             /\ pc' = [pc EXCEPT ![p] = "starting"]
             /\ child' = [child EXCEPT ![p] = "starting"]
             /\ UNCHANGED <<now, files, cmd, stored, token, mode, port, redirect>>
    BY <2>2
  <2>3. CASE /\ file # Empty /\ file # Absent
             /\ pc[p] = "opening"
             /\ pc' = [pc EXCEPT ![p] = "opened"]
             /\ token' = [token EXCEPT ![p] = file]
             /\ UNCHANGED <<now, files, cmd, stored, mode, flow>>
    BY <2>3
  <2> QED
    BY <1>2, <2>1, <2>2, <2>3 DEF OpenToken
<1>3. ASSUME NEW p \in Procs, ChildBinds(p) PROVE TypeInv'
  BY <1>3 DEF ChildBinds
<1>4. ASSUME NEW p \in Procs, AwaitServer(p) PROVE TypeInv'
  BY <1>4, EndsType DEF AwaitServer
<1>5. ASSUME NEW p \in Procs, NEW page \in {"own", "foreign"}, Redirect(p, page) PROVE TypeInv'
  BY <1>5 DEF Redirect
<1>6. ASSUME NEW p \in Procs, NEW login \in 0..now, NEW where \in {"writing", "refreshing"},
             Truncates(p, login, where),
             where = "refreshing" => mode[p] \in Served
      PROVE  TypeInv'
  BY <1>6 DEF Truncates
<1>7. ASSUME NEW p \in Procs, Receive(p) \/ Paste(p) PROVE TypeInv'
  BY <1>6, <1>7, EndsType DEF Receive, Paste
<1>8. ASSUME NEW p \in Procs, TimeOut(p) \/ Stop(p) PROVE TypeInv'
  BY <1>8, EndsType DEF TimeOut, Stop
<1>9. ASSUME NEW p \in Procs, Written(p) PROVE TypeInv'
  BY <1>9 DEF Written, Reaped
<1>10. ASSUME NEW p \in Procs, Save(p) \/ Saved(p) PROVE TypeInv'
  BY <1>10 DEF Save, Saved
<1>11. ASSUME NEW p \in Procs, Serve(p) PROVE TypeInv'
  <2>1. CASE Ends(p)
    BY <2>1, EndsType
  <2>2. CASE Chooses(p) /\ pc[p] = "opened" /\ ~Ends(p)
    <3>1. PICK o \in Options :
            /\ WriteMode(o, o.token \/ stored[p]) # Refused
            /\ pc' = [pc EXCEPT ![p] = "serving"]
            /\ mode' = [mode EXCEPT ![p] =
                          [manager |-> WriteMode(o, o.token \/ stored[p]).manager,
                           write |-> WriteMode(o, o.token \/ stored[p]).write, options |-> o]]
            /\ UNCHANGED <<now, files, cmd, stored, token, flow>>
      BY <2>2 DEF Chooses
    <3>2. WriteMode(o, o.token \/ stored[p]).manager \in {"noop", "discord", "signal"}
            /\ WriteMode(o, o.token \/ stored[p]).write \in BOOLEAN
      BY <3>1 DEF WriteMode, Refused, Option
    <3>3. mode'[p] \in Served
      BY <3>1, <3>2 DEF Served
    <3> QED
      BY <2>2, <3>1, <3>3
  <2> QED
    BY <1>11, <2>1, <2>2 DEF Serve
<1>12. ASSUME NEW p \in Procs, Refresh(p) PROVE TypeInv'
  BY <1>6, <1>12 DEF Refresh
<1>13. ASSUME NEW p \in Procs, Refreshed(p) PROVE TypeInv'
  BY <1>13 DEF Refreshed
<1>14. ASSUME NEW p \in Procs, Crash(p) PROVE TypeInv'
  BY <1>14 DEF Crash
<1>15. CASE KillOrphan
  BY <1>15 DEF KillOrphan
<1>16. CASE Tick
  BY <1>16 DEF Tick
<1>17. CASE UNCHANGED vars
  BY <1>17 DEF vars
<1> QED
  BY <1>1, <1>2, <1>3, <1>4, <1>5, <1>7, <1>8, <1>9, <1>10, <1>11, <1>12, <1>13, <1>14, <1>15,
     <1>16, <1>17 DEF Next

LEMMA TypeInit == Init => TypeInv
BY StartupAssumption
   DEF Init, TypeInv, TypeOK, HasToken, HasMode, Flow, Serving, Absent

\* Every reachable state is well typed; in particular, a process past its login
\* never holds the token of a truncated file.
THEOREM TypeCorrect == Spec => []TypeInv
BY TypeInit, TypeStep, PTL DEF Spec

-----------------------------------------------------------------------------
(* The callback server *)

\* Whoever ends without being killed reaps its callback server and frees the
\* port.
LEMMA EndsReaps == ASSUME TypeInv, ListenerReaped, NEW p \in Procs, Ends(p) PROVE ListenerReaped'
BY StartupAssumption DEF TypeInv, TypeOK, ListenerReaped, Ends, Reaped

LEMMA ReapedStep == TypeInv /\ ListenerReaped /\ [Next]_vars => ListenerReaped'
<1> SUFFICES ASSUME TypeInv, ListenerReaped, [Next]_vars PROVE ListenerReaped'
  OBVIOUS
<1> USE StartupAssumption DEF TypeInv, TypeOK, ListenerReaped, files, flow
<1>1. ASSUME NEW p \in Procs, ChildBinds(p) PROVE ListenerReaped'
  BY <1>1 DEF ChildBinds
<1>2. ASSUME NEW p \in Procs, NEW to, pc' = [pc EXCEPT ![p] = to], UNCHANGED <<child, port>>,
             child[p] = "none" \/ to \in Flow
      PROVE  ListenerReaped'
  BY <1>2 DEF Flow
<1>3. ASSUME NEW p \in Procs, NEW c \in {"server", "auth", "manual"}, Start(p, c)
      PROVE  ListenerReaped'
  BY <1>2, <1>3 DEF Start
<1>4. ASSUME NEW p \in Procs, OpenToken(p) PROVE ListenerReaped'
  <2>1. CASE Ends(p)
    BY <2>1, EndsReaps
  <2>2. CASE /\ pc[p] = "opening" /\ pc' = [pc EXCEPT ![p] = "starting"]
             /\ child' = [child EXCEPT ![p] = "starting"] /\ UNCHANGED port
    BY <2>2
  <2>3. CASE pc[p] = "opening" /\ pc' = [pc EXCEPT ![p] = "opened"] /\ UNCHANGED <<child, port>>
    BY <1>2, <2>3
  <2> QED
    BY <1>4, <2>1, <2>2, <2>3 DEF OpenToken
<1>5. ASSUME NEW p \in Procs, AwaitServer(p) PROVE ListenerReaped'
  BY <1>2, <1>5, EndsReaps DEF AwaitServer, Flow
<1>6. ASSUME NEW p \in Procs, Receive(p) \/ Paste(p) PROVE ListenerReaped'
  BY <1>2, <1>6, EndsReaps DEF Receive, Paste, Truncates, Flow
<1>7. ASSUME NEW p \in Procs, TimeOut(p) \/ Stop(p) PROVE ListenerReaped'
  BY <1>7, EndsReaps DEF TimeOut, Stop
<1>8. ASSUME NEW p \in Procs, Written(p) PROVE ListenerReaped'
  BY <1>8 DEF Written, Reaped
<1>9. ASSUME NEW p \in Procs, Serve(p) PROVE ListenerReaped'
  BY <1>2, <1>9, EndsReaps DEF Serve, Chooses
<1>10. ASSUME NEW p \in Procs, Save(p) \/ Saved(p) \/ Refresh(p) \/ Refreshed(p) PROVE ListenerReaped'
  BY <1>2, <1>10 DEF Save, Saved, Refresh, Refreshed, Truncates
<1>11. ASSUME NEW p \in Procs, Crash(p) PROVE ListenerReaped'
  BY <1>11 DEF Crash
<1>12. CASE KillOrphan
  BY <1>12 DEF KillOrphan
<1>13. ASSUME UNCHANGED <<pc, child, port>> PROVE ListenerReaped'
  BY <1>13
<1>14. ASSUME NEW p \in Procs, NEW page, Redirect(p, page) PROVE ListenerReaped'
  BY <1>13, <1>14 DEF Redirect
<1>15. CASE Tick \/ UNCHANGED vars
  BY <1>13, <1>15 DEF Tick, vars
<1> QED
  BY <1>1, <1>3, <1>4, <1>5, <1>6, <1>7, <1>8, <1>9, <1>10, <1>11, <1>12, <1>14, <1>15 DEF Next

\* No login flow leaves a callback server behind, however it ends, and whoever
\* holds the port without having been killed is still in its flow.
THEOREM ListenersAreReaped == Spec => []ListenerReaped
<1>1. Init => ListenerReaped
  BY StartupAssumption DEF Init, ListenerReaped
<1> QED
  BY <1>1, ReapedStep, TypeInit, TypeStep, PTL DEF Spec

-----------------------------------------------------------------------------
(* The age of the token *)

\* What a step may do that makes a server serve.
ServesYoung ==
  \A p \in Procs : pc[p] = "opened" /\ pc'[p] = "serving" =>
    token[p] \in 0..now /\ now - token[p] < MaxAge

LEMMA ServingStep == TypeInv /\ [Next]_vars => ServesYoung
<1> SUFFICES ASSUME TypeInv, [Next]_vars, NEW p \in Procs, pc[p] = "opened", pc'[p] = "serving"
             PROVE  token[p] \in 0..now /\ now - token[p] < MaxAge
  BY DEF ServesYoung
<1>1. token[p] \in 0..now /\ now \in Nat /\ MaxAge \in Nat
  BY StartupAssumption DEF TypeInv, TypeOK, HasToken
<1>2. Serve(p)
  <2> USE DEF TypeInv, TypeOK, flow
  <2>1. ASSUME NEW q \in Procs, NEW c, Start(q, c) PROVE FALSE
    BY <2>1 DEF Start
  <2>2. ASSUME NEW q \in Procs, Ends(q) PROVE FALSE
    BY <2>2 DEF Ends
  <2>3. ASSUME NEW q \in Procs, OpenToken(q) \/ AwaitServer(q) \/ TimeOut(q) \/ Stop(q) PROVE FALSE
    BY <2>2, <2>3 DEF OpenToken, AwaitServer, TimeOut, Stop
  <2>4. ASSUME NEW q \in Procs, Receive(q) \/ Paste(q) \/ Refresh(q) PROVE FALSE
    BY <2>2, <2>4 DEF Receive, Paste, Refresh, Truncates
  <2>5. ASSUME NEW q \in Procs, NEW page, ChildBinds(q) \/ Redirect(q, page) PROVE FALSE
    BY <2>5 DEF ChildBinds, Redirect
  <2>6. ASSUME NEW q \in Procs, Written(q) \/ Save(q) \/ Saved(q) \/ Refreshed(q) \/ Crash(q)
        PROVE FALSE
    BY <2>6 DEF Written, Save, Saved, Refreshed, Crash
  <2>7. ASSUME NEW q \in Procs, Serve(q) PROVE q = p
    BY <2>2, <2>7 DEF Serve, Chooses
  <2>8. ~KillOrphan /\ ~Tick /\ ~UNCHANGED vars
    BY DEF KillOrphan, Tick, vars
  <2> QED
    BY <2>1, <2>3, <2>4, <2>5, <2>6, <2>7, <2>8 DEF Next
<1>3. ~Ends(p)
  BY DEF Ends, TypeInv, TypeOK
<1>4. ~TooOld(token[p])
  BY <1>2, <1>3 DEF Serve
<1> QED
  BY <1>1, <1>4 DEF TooOld

\* No server begins to serve with a token out of a truncated file or with one
\* that has become too old, whatever other processes write meanwhile.
THEOREM YoungTokensServe == Spec => OnlyYoungTokensServe
<1>1. TypeInv /\ [Next]_vars => [ServesYoung]_vars
  BY ServingStep
<1> QED
  BY <1>1, TypeInit, TypeStep, PTL DEF Spec, OnlyYoungTokensServe, ServesYoung

-----------------------------------------------------------------------------
(* The write mode *)

\* What the choice of a write mode guarantees: review if any was asked for.
LEMMA ModeReviews ==
  ASSUME NEW o \in Option, NEW found \in BOOLEAN,
         WriteMode(o, o.token \/ found) # Refused, ~o.jesus
  PROVE  LET chosen == WriteMode(o, o.token \/ found)
         IN /\ chosen.write \/ Asked(o) \/ found => chosen.manager \in {"discord", "signal"}
            /\ chosen.manager = "discord" => "some" \in {o.ids, o.envIds}
            /\ chosen.manager = "signal" => "some" \in {o.numbers, o.envNumbers}
<1> DEFINE hasToken == o.token \/ found
           ids == Resolved(o.ids, o.envIds)
           numbers == Resolved(o.numbers, o.envNumbers)
           discordRequested == hasToken \/ o.channel \/ ids # "none"
           signalRequested == o.account \/ numbers # "none"
           chosen == WriteMode(o, hasToken)
<1>1. /\ ids = "some" => "some" \in {o.ids, o.envIds}
      /\ numbers = "some" => "some" \in {o.numbers, o.envNumbers}
      /\ Asked(o) => discordRequested \/ signalRequested
  <2>1. \A flags, env \in Approvers :
          /\ Resolved(flags, env) = "some" => "some" \in {flags, env}
          /\ flags # "none" \/ env = "some" => Resolved(flags, env) # "none"
    <3> SUFFICES ASSUME NEW flags \in Approvers, NEW env \in Approvers
                 PROVE  /\ Resolved(flags, env) = "some" => "some" \in {flags, env}
                        /\ flags # "none" \/ env = "some" => Resolved(flags, env) # "none"
      OBVIOUS
    <3>1. CASE flags # "none"
      BY <3>1 DEF Resolved
    <3>2. CASE flags = "none" /\ env = "blank"
      BY <3>2 DEF Resolved
    <3>3. CASE flags = "none" /\ env # "blank"
      BY <3>3 DEF Resolved
    <3> QED
      BY <3>1, <3>2, <3>3
  <2>2. /\ o.ids \in Approvers /\ o.envIds \in Approvers
        /\ o.numbers \in Approvers /\ o.envNumbers \in Approvers
    BY DEF Option
  <2>3. o.ids # "none" \/ o.envIds = "some" => ids # "none"
    BY <2>1, <2>2
  <2>4. o.numbers # "none" \/ o.envNumbers = "some" => numbers # "none"
    BY <2>1, <2>2
  <2>5. Asked(o) => discordRequested \/ signalRequested
    BY <2>3, <2>4 DEF Asked
  <2> QED
    BY <2>1, <2>2, <2>5
<1>2. hasToken \in BOOLEAN /\ o.channel \in BOOLEAN /\ o.account \in BOOLEAN
  BY DEF Option
<1> HIDE DEF ids, numbers, hasToken
<1>3. CASE discordRequested
  <2>1. chosen = IF ~signalRequested /\ hasToken /\ o.channel /\ ids = "some"
                 THEN [manager |-> "discord", write |-> TRUE] ELSE Refused
    BY <1>2, <1>3 DEF WriteMode, ids, numbers
  <2> QED
    BY <1>1, <2>1 DEF hasToken
<1>4. CASE ~discordRequested /\ signalRequested
  <2>1. chosen = IF o.account /\ numbers = "some"
                 THEN [manager |-> "signal", write |-> TRUE] ELSE Refused
    BY <1>2, <1>4 DEF WriteMode, ids, numbers
  <2> QED
    BY <1>1, <2>1 DEF hasToken
<1>5. CASE ~discordRequested /\ ~signalRequested
  <2>1. chosen = [manager |-> "noop", write |-> FALSE]
    BY <1>2, <1>5 DEF WriteMode, ids, numbers
  <2>2. ~Asked(o) /\ ~found
    BY <1>1, <1>5 DEF hasToken
  <2> QED
    BY <2>1, <2>2 DEF hasToken
<1> QED
  BY <1>3, <1>4, <1>5

LEMMA ReviewStep == TypeInv /\ WritesReviewed /\ [Next]_vars => WritesReviewed'
<1> SUFFICES ASSUME TypeInv, WritesReviewed, [Next]_vars PROVE WritesReviewed'
  OBVIOUS
<1> USE DEF TypeInv, TypeOK, flow
<1>1. ASSUME \A p \in Procs : pc'[p] \in Serving =>
               /\ pc[p] \in Serving
               /\ mode'[p] = mode[p] /\ stored'[p] = stored[p]
      PROVE  WritesReviewed'
  BY <1>1 DEF WritesReviewed, Serving, Asked
<1>2. ASSUME NEW p \in Procs, Ends(p) PROVE WritesReviewed'
  BY <1>1, <1>2 DEF Ends, Serving
<1>3. ASSUME NEW p \in Procs, NEW c, Start(p, c) PROVE WritesReviewed'
  BY <1>1, <1>3 DEF Start, Serving
<1>4. ASSUME NEW p \in Procs, OpenToken(p) \/ AwaitServer(p) \/ TimeOut(p) \/ Stop(p)
      PROVE  WritesReviewed'
  BY <1>1, <1>2, <1>4 DEF OpenToken, AwaitServer, TimeOut, Stop, Serving
<1>5. ASSUME NEW p \in Procs, Receive(p) \/ Paste(p) \/ Refresh(p) PROVE WritesReviewed'
  BY <1>1, <1>2, <1>5 DEF Receive, Paste, Refresh, Truncates, Serving
<1>6. ASSUME NEW p \in Procs, NEW page, ChildBinds(p) \/ Redirect(p, page) PROVE WritesReviewed'
  BY <1>1, <1>6 DEF ChildBinds, Redirect
<1>7. ASSUME NEW p \in Procs, Written(p) \/ Save(p) \/ Saved(p) \/ Refreshed(p) \/ Crash(p)
      PROVE  WritesReviewed'
  BY <1>1, <1>7 DEF Written, Save, Saved, Refreshed, Crash, Serving
<1>8. ASSUME NEW p \in Procs, Serve(p), ~Ends(p) PROVE WritesReviewed'
  <2>1. PICK o \in Options :
          /\ WriteMode(o, o.token \/ stored[p]) # Refused
          /\ pc' = [pc EXCEPT ![p] = "serving"]
          /\ mode' = [mode EXCEPT ![p] =
                        [manager |-> WriteMode(o, o.token \/ stored[p]).manager,
                         write |-> WriteMode(o, o.token \/ stored[p]).write, options |-> o]]
          /\ stored' = stored
    BY <1>8 DEF Serve, Chooses
  <2>2. o \in Option /\ stored[p] \in BOOLEAN
    BY StartupAssumption
  <2>3. /\ mode'[p] = [manager |-> WriteMode(o, o.token \/ stored[p]).manager,
                       write |-> WriteMode(o, o.token \/ stored[p]).write, options |-> o]
        /\ \A q \in Procs \ {p} : mode'[q] = mode[q] /\ pc'[q] = pc[q]
    BY <2>1
  <2>4. ~o.jesus =>
          /\ mode'[p].write \/ Asked(o) \/ stored[p] => mode'[p].manager \in {"discord", "signal"}
          /\ mode'[p].manager = "discord" => "some" \in {o.ids, o.envIds}
          /\ mode'[p].manager = "signal" => "some" \in {o.numbers, o.envNumbers}
    BY <2>1, <2>2, <2>3, ModeReviews
  <2> QED
    BY <2>1, <2>3, <2>4 DEF WritesReviewed, Asked
<1>9. CASE KillOrphan \/ Tick \/ UNCHANGED vars
  BY <1>1, <1>9 DEF KillOrphan, Tick, vars
<1> QED
  BY <1>2, <1>3, <1>4, <1>5, <1>6, <1>7, <1>8, <1>9 DEF Next

\* A server that writes does so past a reviewer unless told otherwise, and one
\* that was asked for review serves with it or not at all, for every
\* combination of flags, environment variables and stored credentials.
THEOREM WritesAreReviewed == Spec => []WritesReviewed
<1>1. Init => WritesReviewed
  BY DEF Init, WritesReviewed
<1> QED
  BY <1>1, ReviewStep, TypeInit, TypeStep, PTL DEF Spec
=============================================================================
