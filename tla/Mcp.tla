-------------------------------- MODULE Mcp --------------------------------
(***************************************************************************)
(* An MCP session (internal/mcpserver: server.go, conn.go; internal/agent: *)
(* registry.go, tier.go): one server, one connection to the target engine, *)
(* and the client's tool calls, each served by a goroutine of its own.     *)
(*                                                                         *)
(* conn guards the backend with a mutex that get holds while it dials;     *)
(* everything a call does with the backend it got is outside the mutex, so *)
(* another call may drop that backend meanwhile.  A step here is what one  *)
(* goroutine does between two points where another one can be noticed.     *)
(*                                                                         *)
(* What the engine does with a call is its own choice, also when the       *)
(* connection was closed under the call: an answer may have been read      *)
(* already.  "lost" stands for a handler's error that agent.Classify calls *)
(* connection, "failed" for any other and for a dial's, "partial" for a    *)
(* result that says some of its targets failed.  Arguments are left out,   *)
(* but for their being acceptable or not.                                  *)
(***************************************************************************)
EXTENDS Integers, FiniteSets

CONSTANTS
  Calls,      \* names of the calls a client makes (used again once answered)
  Conns,      \* connections (docker.Backend values) a session may make
  None,       \* the nil backend, and no call
  Ceilings    \* tiers the policy of a session may admit

TierRead == 0
TierSafe == 1
TierDestructive == 2
Tiers == TierRead..TierDestructive

ASSUME McpAssumption ==
  /\ None \notin Conns /\ None \notin Calls
  /\ Ceilings \subseteq Tiers /\ Ceilings # {}

VARIABLES
  ceiling,    \* s.ceiling
  live,       \* s.conn.b
  mu,         \* the call that holds s.conn.mu over a dial, or None
  conn,       \* every connection the session made: open or closed
  call,       \* the goroutine of each call
  ran,        \* how many times each call's handler has run
  entry,      \* the result handed to the audit log for each call, or "none"
  reply,      \* what each call was answered, or "none"
  ended       \* Server.Close has run

vars == <<ceiling, live, mu, conn, call, ran, entry, reply, ended>>

Succeeded == {"ok", "partial"}
Outcomes == Succeeded \cup {"failed", "lost"}

\* pc of a call.  "drop": its backend failed with a connection error; "wait":
\* the delay before a read's second attempt; "record": run has returned.
Call == [pc : {"idle", "get", "dial", "invoke", "drop", "wait", "record", "done"},
         tier : Tiers, dry : BOOLEAN,
         b : Conns \cup {None}, fresh : BOOLEAN, retried : BOOLEAN,
         cancelled : BOOLEAN, outcome : Outcomes]

TypeOK ==
  /\ ceiling \in Tiers
  /\ live \in Conns \cup {None}
  /\ mu \in Calls \cup {None}
  /\ conn \in [Conns -> {"unmade", "open", "closed"}]
  /\ call \in [Calls -> Call]
  /\ ran \in [Calls -> Nat]
  /\ entry \in [Calls -> {"none", "ok", "partial", "planned", "error"}]
  /\ reply \in [Calls -> {"none", "usage"} \cup Outcomes]
  /\ ended \in BOOLEAN

Idle == [pc |-> "idle", tier |-> TierRead, dry |-> FALSE, b |-> None, fresh |-> FALSE,
         retried |-> FALSE, cancelled |-> FALSE, outcome |-> "failed"]

Init ==
  /\ ceiling \in Ceilings
  /\ live = None /\ mu = None
  /\ conn = [k \in Conns |-> "unmade"]
  /\ call = [c \in Calls |-> Idle]
  /\ ran = [c \in Calls |-> 0]
  /\ entry = [c \in Calls |-> "none"]
  /\ reply = [c \in Calls |-> "none"]
  /\ ended = FALSE

At(c, pc) == call[c].pc = pc
Goto(c, pc) == call' = [call EXCEPT ![c].pc = pc]
Writes(c) == call[c].tier > TierRead
Returns(c, out) == call' = [call EXCEPT ![c].pc = "record", ![c].outcome = out]

----------------------------------------------------------------------------
\* tools/call of an offered tool: AddTool was called for those under the ceiling
\* only, so the checks that run and Invoke repeat never refuse one.  dry_run is
\* an argument of write tools.
Allows(t) == t <= ceiling

Answered(c) == call[c].pc \in {"idle", "done"}
NewCall(c, answer) ==
  /\ Answered(c) /\ ~ended
  /\ ran' = [ran EXCEPT ![c] = 0]
  /\ entry' = [entry EXCEPT ![c] = "none"]
  /\ reply' = [reply EXCEPT ![c] = answer]
  /\ UNCHANGED <<ceiling, live, mu, conn, ended>>

Submit(c, t, dry) ==
  /\ NewCall(c, "none")
  /\ Allows(t) /\ (dry => t > TierRead)
  /\ call' = [call EXCEPT ![c] = [Idle EXCEPT !.pc = "get", !.tier = t, !.dry = dry]]

\* Arguments that are no object, an unknown action or a bad option: nothing of
\* such a call is run or logged.
SubmitBad(c, t) ==
  /\ NewCall(c, "usage")
  /\ Allows(t)
  /\ call' = [call EXCEPT ![c] = [Idle EXCEPT !.pc = "done", !.tier = t]]

\* A read of the local configuration needs no connection.
SubmitLocal(c) ==
  /\ NewCall(c, "none")
  /\ \E out \in {"ok", "failed"} :
       call' = [call EXCEPT ![c] = [Idle EXCEPT !.pc = "record", !.outcome = out]]

\* The handler starts, or the planner, which changes nothing.
Starts(c) == IF call[c].dry THEN ran[c] ELSE ran[c] + 1
Invoke(c, b, fresh) ==
  /\ call' = [call EXCEPT ![c].pc = "invoke", ![c].b = b, ![c].fresh = fresh]
  /\ ran' = [ran EXCEPT ![c] = Starts(c)]

\* conn.get with a backend at hand.
GetLive(c) ==
  /\ At(c, "get") /\ mu = None /\ live # None
  /\ Invoke(c, live, FALSE)
  /\ UNCHANGED <<ceiling, live, mu, conn, entry, reply, ended>>

\* conn.get without one: the dial starts, and the mutex stays held.
GetDial(c) ==
  /\ At(c, "get") /\ mu = None /\ live = None
  /\ mu' = c
  /\ Goto(c, "dial")
  /\ UNCHANGED <<ceiling, live, conn, ran, entry, reply, ended>>

\* Connections are interchangeable before they are made.
Unmade == {k \in Conns : conn[k] = "unmade"}
NewConn == CHOOSE k \in Unmade : TRUE

MutantUnlock == mu
Unlock == None

DialOk(c) ==
  /\ At(c, "dial")
  /\ Unmade # {}
  /\ conn' = [conn EXCEPT ![NewConn] = "open"]
  /\ live' = NewConn
  /\ Invoke(c, NewConn, TRUE)
  /\ mu' = Unlock
  /\ UNCHANGED <<ceiling, entry, reply, ended>>

DialFail(c) ==
  /\ At(c, "dial")
  /\ mu' = Unlock
  /\ Returns(c, "failed")
  /\ UNCHANGED <<ceiling, live, conn, ran, entry, reply, ended>>

\* Registry.Invoke returns.
Return(c, out) ==
  /\ At(c, "invoke")
  /\ out = "partial" => Writes(c) /\ ~call[c].dry
  /\ IF out = "lost" THEN Goto(c, "drop") ELSE Returns(c, out)
  /\ UNCHANGED <<ceiling, live, mu, conn, ran, entry, reply, ended>>

\* notifications/cancelled, or the client is gone.  A call cancelled before it has
\* its backend finds out in the same places.
Cancel(c) ==
  /\ call[c].pc \in {"invoke", "wait"} /\ ~call[c].cancelled
  /\ call' = [call EXCEPT ![c].cancelled = TRUE]
  /\ UNCHANGED <<ceiling, live, mu, conn, ran, entry, reply, ended>>

\* conn.drop closes the call's backend unless it has been replaced already.
MutantStillLive(c) == TRUE
StillLive(c) == call[c].b = live

\* The switch after a drop: who gets a second attempt.
MutantMayRetry(c) == ~call[c].cancelled /\ ~call[c].retried /\ ~call[c].fresh
MutantRetriesAgain(c) == ~call[c].cancelled /\ ~call[c].fresh /\ (Writes(c) => call[c].dry)
MayRetry(c) ==
  /\ ~call[c].cancelled /\ ~call[c].retried /\ ~call[c].fresh
  /\ (Writes(c) => call[c].dry)

Drop(c) ==
  /\ At(c, "drop") /\ mu = None
  /\ IF StillLive(c)
       THEN live' = None /\ conn' = [conn EXCEPT ![call[c].b] = "closed"]
       ELSE UNCHANGED <<live, conn>>
  /\ IF MayRetry(c) THEN Goto(c, "wait") ELSE Returns(c, "lost")
  /\ UNCHANGED <<ceiling, mu, ran, entry, reply, ended>>

\* reconnectDelay is over, or the call is cancelled first.
Wait(c) ==
  /\ At(c, "wait")
  /\ \/ call' = [call EXCEPT ![c].pc = "get", ![c].retried = TRUE]
     \/ call[c].cancelled /\ Returns(c, "failed")
  /\ UNCHANGED <<ceiling, live, mu, conn, ran, entry, reply, ended>>

\* The audit line of a write.
MutantRawResult(c) == call[c].outcome
MutantResult(c) ==
  IF call[c].outcome \notin Succeeded THEN "none" ELSE IF call[c].dry THEN "planned" ELSE call[c].outcome
Result(c) ==
  IF call[c].outcome \notin Succeeded THEN "error" ELSE IF call[c].dry THEN "planned" ELSE call[c].outcome

\* callTool after run: the audit line of a write, then the result through fields
\* and limit, which it may not fit (an unknown field, a limit on what is no list).
Answer(c) ==
  /\ At(c, "record")
  /\ entry' = IF Writes(c) THEN [entry EXCEPT ![c] = Result(c)] ELSE entry
  /\ \E out \in {call[c].outcome} \cup (IF call[c].outcome \in Succeeded THEN {"usage"} ELSE {}) :
       reply' = [reply EXCEPT ![c] = out]
  /\ call' = [call EXCEPT ![c] = [Idle EXCEPT !.pc = "done", !.tier = call[c].tier, !.outcome = call[c].outcome]]
  /\ UNCHANGED <<ceiling, live, mu, conn, ran, ended>>

\* The session is over once every call is (the SDK waits for its handlers).
AtEnd == None
Close ==
  /\ ~ended
  /\ \A c \in Calls : Answered(c)
  /\ ended' = TRUE
  /\ live' = AtEnd
  /\ conn' = [k \in Conns |-> IF k = live THEN "closed" ELSE conn[k]]
  /\ UNCHANGED <<ceiling, mu, call, ran, entry, reply>>

----------------------------------------------------------------------------
Step(c) ==
  \/ GetLive(c) \/ GetDial(c) \/ DialOk(c) \/ DialFail(c)
  \/ \E out \in Outcomes : Return(c, out)
  \/ Drop(c) \/ Wait(c) \/ Answer(c)

Next ==
  \/ \E c \in Calls, t \in Tiers, dry \in BOOLEAN : Submit(c, t, dry)
  \/ \E c \in Calls, t \in Tiers : SubmitBad(c, t)
  \/ \E c \in Calls : SubmitLocal(c)
  \/ \E c \in Calls : Step(c)
  \/ \E c \in Calls : Cancel(c)
  \/ Close

\* Goroutines run, a Go mutex starves nobody, dials time out, and handlers end
\* (those that wait for the engine have deadlines).  Nobody has to cancel.
Fairness == \A c \in Calls : SF_vars(Step(c))

Spec == Init /\ [][Next]_vars /\ Fairness

----------------------------------------------------------------------------
(* Properties. *)

\* One connection at a time, and none left behind: whatever calls lose, drop and
\* redial it at once, the open connection is the one the next call will get, no
\* connection is open after the session, and no dial is made beside another one.
OneConnection ==
  /\ \A k \in Conns : conn[k] = "open" <=> live = k
  /\ \A c, d \in Calls : At(c, "dial") /\ At(d, "dial") => c = d

\* A write's handler runs at most once, and not at all for a dry run: what may
\* have taken effect is never tried again.
WriteOnce == \A c \in Calls : Writes(c) => ran[c] <= IF call[c].dry THEN 0 ELSE 1

\* A read that reports a lost connection had two attempts, or lost the connection
\* it had dialed itself; and no call has a third attempt.
ReadsRetriedOnce == \A c \in Calls :
  /\ ran[c] <= 2
  /\ At(c, "record") /\ call[c].outcome = "lost" /\ ~Writes(c) /\ ~call[c].cancelled
       => ran[c] = 2 \/ call[c].fresh

\* How often a call is tried: writes once, reads once more when that helps
\* (the retry in the server's handler).
TriedRight == WriteOnce /\ ReadsRetriedOnce

\* A write leaves its line in the audit log before it is answered, with what came
\* of it: "ok" or "partial" for one that ran, "planned" for a dry run.  A write without a
\* line was turned away for its arguments and never ran; reads are not logged.
WritesLeaveTrail == \A c \in Calls :
  /\ entry[c] # "none" => Writes(c) /\ At(c, "done")
  /\ At(c, "done") /\ Writes(c) =>
       CASE entry[c] \in Succeeded -> call[c].outcome = entry[c] /\ ran[c] = 1
         [] entry[c] = "planned" -> call[c].outcome = "ok" /\ ran[c] = 0
         [] entry[c] = "error"   -> call[c].outcome \notin Succeeded
         [] entry[c] = "none"    -> reply[c] = "usage" /\ ran[c] = 0

\* Every call is answered: no lost connection, slow dial or held mutex leaves a
\* client waiting, as long as dials and handlers end.
EveryCallAnswered == \A c \in Calls : ~Answered(c) ~> Answered(c)
=============================================================================
