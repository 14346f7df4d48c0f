---------------------------- MODULE ServicesProofs ----------------------------
(***************************************************************************)
(* Theorems about what works beside the interface's event loop.            *)
(*                                                                         *)
(* Of module Mcp, for any number of calls and connections and any ceiling: *)
(* the session holds one connection at a time and leaves none behind, no   *)
(* write is tried twice, no call has a third attempt, and every write that *)
(* may have run is in the audit log before it is answered.                 *)
(*                                                                         *)
(* Of module Store, for any number of processes, of hosts and of changes:  *)
(* a name stands for one host in every copy of the list, the file of a     *)
(* process that is alone is what its user sees, and neither a read-only    *)
(* mark nor the hosts of an old version's file get lost on the way.        *)
(*                                                                         *)
(* Of module Relay, for any number of commands, of lines and any capacity  *)
(* of the channels: nothing is sent to a channel that was closed, the      *)
(* output of an operation that nobody stopped is shown whole, and no       *)
(* operation leaves a command behind.                                      *)
(***************************************************************************)
EXTENDS Mcp, Store, Relay, Facts, TLAPS

-----------------------------------------------------------------------------
(* The MCP session. *)

\* The mutex is held exactly by the call that dials, and only without a backend.
MutexInv ==
  /\ \A c \in Calls : At(c, "dial") <=> mu = c
  /\ mu # None => live = None

\* What is open is what get returns.
LiveInv == \A k \in Conns : conn[k] = "open" <=> live = k

\* How often a handler has run, from where its call is.
Attempts(c) == IF call[c].dry THEN 0 ELSE IF call[c].retried THEN 2 ELSE 1
RanInv(c) ==
  /\ call[c].dry => Writes(c)
  /\ At(c, "idle") => ran[c] = 0
  /\ call[c].pc \in {"get", "dial"} => ran[c] = IF call[c].dry \/ ~call[c].retried THEN 0 ELSE 1
  /\ call[c].pc \in {"invoke", "drop", "wait"} => ran[c] = Attempts(c)
  /\ At(c, "wait") => ~call[c].retried
  /\ (call[c].pc \in {"get", "dial", "invoke", "drop"} /\ call[c].retried) \/ At(c, "wait")
       => (Writes(c) => call[c].dry)
  /\ At(c, "done") => ~call[c].dry /\ ran[c] <= IF Writes(c) THEN 1 ELSE 2

\* What run returned fits what was run.
RecordInv(c) == At(c, "record") =>
  /\ ran[c] <= IF call[c].dry THEN 0 ELSE IF Writes(c) THEN 1 ELSE 2
  /\ call[c].outcome = "partial" => Writes(c) /\ ~call[c].dry
  /\ Writes(c) /\ call[c].outcome \in Succeeded => ran[c] = IF call[c].dry THEN 0 ELSE 1
  /\ call[c].outcome = "lost" /\ ~Writes(c) /\ ~call[c].cancelled => ran[c] = 2 \/ call[c].fresh

TrailInv(c) ==
  /\ entry[c] # "none" => Writes(c) /\ At(c, "done")
  /\ At(c, "done") /\ Writes(c) =>
       /\ entry[c] \in Succeeded => call[c].outcome = entry[c] /\ ran[c] = 1
       /\ entry[c] = "planned" => call[c].outcome = "ok" /\ ran[c] = 0
       /\ entry[c] = "error" => call[c].outcome \notin Succeeded
       /\ entry[c] = "none" => reply[c] = "usage" /\ ran[c] = 0

CallInv(c) == RanInv(c) /\ RecordInv(c) /\ TrailInv(c)
IInv == TypeOK /\ MutexInv /\ LiveInv /\ \A c \in Calls : CallInv(c)

\* A call that has not begun has the type of a call.
LEMMA IdleType == Idle \in Call /\ TierRead \in Tiers
BY DEF Idle, Call, Tiers, TierRead, TierSafe, TierDestructive, Outcomes, Succeeded

\* What the steps write into a call's goroutine keeps its type.
LEMMA CallUpdate ==
  ASSUME NEW r \in Call
  PROVE /\ [r EXCEPT !.cancelled = TRUE] \in Call
        /\ [r EXCEPT !.pc = "wait"] \in Call
        /\ \A outcome \in Outcomes : [r EXCEPT !.pc = "record", !.outcome = outcome] \in Call
        /\ \A b \in Conns, fresh \in BOOLEAN :
             [r EXCEPT !.pc = "invoke", !.b = b, !.fresh = fresh] \in Call
<1>1. [r EXCEPT !.cancelled = TRUE] \in Call
  BY DEF Call
<1>0. [r EXCEPT !.pc = "wait"] \in Call
  BY DEF Call
<1>2. \A outcome \in Outcomes : [r EXCEPT !.pc = "record", !.outcome = outcome] \in Call
  BY DEF Call
<1>3. ASSUME NEW b \in Conns, NEW fresh \in BOOLEAN
      PROVE [r EXCEPT !.pc = "invoke", !.b = b, !.fresh = fresh] \in Call
  BY DEF Call
<1> QED
  BY <1>0, <1>1, <1>2, <1>3

\* The session starts with nothing dialed, run or logged (New).
LEMMA InitIInv == Init => IInv
<1> SUFFICES ASSUME Init PROVE IInv
  OBVIOUS
<1> USE McpAssumption
<1>1. TypeOK
  BY IdleType DEF Init, TypeOK
<1>2. MutexInv /\ LiveInv
  BY DEF Init, MutexInv, LiveInv, Idle, At
<1>3. \A c \in Calls : CallInv(c)
  BY DEF Init, CallInv, RanInv, RecordInv, TrailInv, Attempts, Idle, At, Writes
<1> QED
  BY <1>1, <1>2, <1>3 DEF IInv

\* Every step of the server or its client keeps the types.
LEMMA StepTypeOK == TypeOK /\ MutexInv /\ [Next]_vars => TypeOK'
<1> SUFFICES ASSUME TypeOK, [Next]_vars PROVE TypeOK'
  OBVIOUS
<1> USE McpAssumption DEF TypeOK, Call, Outcomes, Succeeded, Idle, At, Goto, Returns, TierRead
<1>1. ASSUME NEW c \in Calls, NEW t \in Tiers, NEW dry \in BOOLEAN, Submit(c, t, dry) PROVE TypeOK'
  BY <1>1 DEF Submit, NewCall
<1>2. ASSUME NEW c \in Calls, NEW t \in Tiers, SubmitBad(c, t) PROVE TypeOK'
  BY <1>2 DEF SubmitBad, NewCall
<1>3. ASSUME NEW c \in Calls, SubmitLocal(c) PROVE TypeOK'
  <2>1. PICK outcome \in {"ok", "failed"} :
          call' = [call EXCEPT ![c] = [Idle EXCEPT !.pc = "record", !.outcome = outcome]]
    BY <1>3 DEF SubmitLocal
  <2>2. [Idle EXCEPT !.pc = "record", !.outcome = outcome] \in Call
    BY IdleType
  <2> QED
    BY <1>3, <2>1, <2>2 DEF SubmitLocal, NewCall
<1>0. ASSUME NEW c \in Calls, NEW b \in Conns, NEW fresh \in BOOLEAN, Invoke(c, b, fresh)
      PROVE call' \in [Calls -> Call] /\ ran' \in [Calls -> Nat]
  <2>1. Starts(c) \in Nat
    BY DEF Starts
  <2>2. [call[c] EXCEPT !.pc = "invoke", !.b = b, !.fresh = fresh] \in Call
    <3>1. call[c] \in Call
      OBVIOUS
    <3> HIDE DEF Call
    <3> QED
      BY <3>1, CallUpdate
  <2> QED
    BY <1>0, <2>1, <2>2 DEF Invoke
<1>4. ASSUME NEW c \in Calls, GetLive(c) PROVE TypeOK'
  <2>1. call' \in [Calls -> Call] /\ ran' \in [Calls -> Nat]
    BY <1>0, <1>4 DEF GetLive
  <2> QED
    BY <1>4, <2>1 DEF GetLive
<1>5. ASSUME NEW c \in Calls, GetDial(c) PROVE TypeOK'
  BY <1>5 DEF GetDial
<1>6. ASSUME NEW c \in Calls, DialOk(c) PROVE TypeOK'
  <2>1. NewConn \in Conns
    BY <1>6 DEF DialOk, NewConn, Unmade
  <2> QED
    <3>1. call' \in [Calls -> Call] /\ ran' \in [Calls -> Nat]
      BY <1>0, <1>6, <2>1 DEF DialOk
    <3> QED
      BY <1>6, <2>1, <3>1 DEF DialOk, Unlock
<1>7. ASSUME NEW c \in Calls, DialFail(c) PROVE TypeOK'
  <2>0. [call[c] EXCEPT !.pc = "record", !.outcome = "failed"] \in Call
    <3>1. call[c] \in Call
      OBVIOUS
    <3> HIDE DEF Call
    <3> QED
      BY <3>1, CallUpdate
  <2>1. call' \in [Calls -> Call]
    BY <1>7, <2>0 DEF DialFail
  <2> QED
    BY <1>7, <2>1 DEF DialFail, Unlock
<1>8. ASSUME NEW c \in Calls, NEW outcome \in Outcomes, Return(c, outcome) PROVE TypeOK'
  BY <1>8 DEF Return
<1>9. ASSUME NEW c \in Calls, Drop(c) PROVE TypeOK'
  <2>1. [call[c] EXCEPT !.pc = "wait"] \in Call
        /\ [call[c] EXCEPT !.pc = "record", !.outcome = "lost"] \in Call
    <3>1. call[c] \in Call /\ "lost" \in Outcomes
      OBVIOUS
    <3> HIDE DEF Call, Outcomes
    <3> QED
      BY <3>1, CallUpdate
  <2>2. call' \in [Calls -> Call]
    <3>1. \/ call' = [call EXCEPT ![c] = [call[c] EXCEPT !.pc = "wait"]]
          \/ call' = [call EXCEPT ![c] = [call[c] EXCEPT !.pc = "record", !.outcome = "lost"]]
      BY <1>9 DEF Drop
    <3>2. call \in [Calls -> Call]
      OBVIOUS
    <3> HIDE DEF Call
    <3> QED
      BY <2>1, <3>1, <3>2
  <2>3. live' \in Conns \cup {None} /\ conn' \in [Conns -> {"unmade", "open", "closed"}]
    BY <1>9 DEF Drop
  <2> QED
    BY <1>9, <2>2, <2>3 DEF Drop
<1>10. ASSUME NEW c \in Calls, Wait(c) PROVE TypeOK'
  BY <1>10 DEF Wait
<1>11. ASSUME NEW c \in Calls, Answer(c) PROVE TypeOK'
  <2>1. Result(c) \in {"ok", "partial", "planned", "error"}
    BY DEF Result
  <2>2. call[c].outcome \in Outcomes /\ call[c].tier \in Tiers
    OBVIOUS
  <2>3. call' \in [Calls -> Call] /\ entry' \in [Calls -> {"none", "ok", "partial", "planned", "error"}]
    BY <1>11, <2>1, <2>2 DEF Answer
  <2>4. reply' \in [Calls -> {"none", "usage"} \cup Outcomes]
    BY <1>11, <2>2 DEF Answer
  <2> QED
    BY <1>11, <2>3, <2>4 DEF Answer
<1>12. ASSUME NEW c \in Calls, Cancel(c) PROVE TypeOK'
  <2>0. [call[c] EXCEPT !.cancelled = TRUE] \in Call
    <3>1. call[c] \in Call
      OBVIOUS
    <3> HIDE DEF Call
    <3> QED
      BY <3>1, CallUpdate
  <2>1. call' \in [Calls -> Call]
    BY <1>12, <2>0 DEF Cancel
  <2> QED
    BY <1>12, <2>1 DEF Cancel
<1>13. CASE Close
  BY <1>13 DEF Close, AtEnd
<1>14. CASE UNCHANGED vars
  BY <1>14 DEF vars
<1> QED
  BY <1>1, <1>2, <1>3, <1>4, <1>5, <1>6, <1>7, <1>8, <1>9, <1>10, <1>11, <1>12, <1>13, <1>14
  DEF Next, Step

\* Get, drop and close keep the mutex with its dialer and one connection open.
LEMMA StepConn == TypeOK /\ MutexInv /\ LiveInv /\ [Next]_vars => MutexInv' /\ LiveInv'
<1> SUFFICES ASSUME TypeOK, MutexInv, LiveInv, [Next]_vars PROVE MutexInv' /\ LiveInv'
  OBVIOUS
<1> USE McpAssumption DEF TypeOK, Call, MutexInv, LiveInv, At
<1>1. ASSUME NEW c \in Calls, NEW t \in Tiers, NEW dry \in BOOLEAN, Submit(c, t, dry)
      PROVE MutexInv' /\ LiveInv'
  BY <1>1 DEF Submit, NewCall, Idle, Answered
<1>2. ASSUME NEW c \in Calls, NEW t \in Tiers, SubmitBad(c, t) PROVE MutexInv' /\ LiveInv'
  BY <1>2 DEF SubmitBad, NewCall, Idle, Answered
<1>3. ASSUME NEW c \in Calls, SubmitLocal(c) PROVE MutexInv' /\ LiveInv'
  BY <1>3 DEF SubmitLocal, NewCall, Idle, Answered
<1>4. ASSUME NEW c \in Calls, GetLive(c) PROVE MutexInv' /\ LiveInv'
  BY <1>4 DEF GetLive, Invoke
<1>5. ASSUME NEW c \in Calls, GetDial(c) PROVE MutexInv' /\ LiveInv'
  BY <1>5 DEF GetDial, Goto
<1>6. ASSUME NEW c \in Calls, DialOk(c) PROVE MutexInv' /\ LiveInv'
  <2>1. NewConn \in Conns /\ mu = c /\ live = None
    BY <1>6 DEF DialOk, NewConn, Unmade
  <2> QED
    BY <1>6, <2>1 DEF DialOk, Invoke, Unlock
<1>7. ASSUME NEW c \in Calls, DialFail(c) PROVE MutexInv' /\ LiveInv'
  BY <1>7 DEF DialFail, Returns, Unlock
<1>8. ASSUME NEW c \in Calls, NEW outcome \in Outcomes, Return(c, outcome)
      PROVE MutexInv' /\ LiveInv'
  BY <1>8 DEF Return, Returns, Goto
<1>9. ASSUME NEW c \in Calls, Drop(c) PROVE MutexInv' /\ LiveInv'
  <2>1. \A d \in Calls : call'[d].pc = "dial" <=> call[d].pc = "dial"
    BY <1>9 DEF Drop, Returns, Goto
  <2>2. mu' = mu /\ mu = None
    BY <1>9 DEF Drop
  <2>3. MutexInv'
    BY <2>1, <2>2
  <2>4. CASE StillLive(c)
    BY <1>9, <2>3, <2>4 DEF Drop, StillLive
  <2>5. CASE ~StillLive(c)
    BY <1>9, <2>3, <2>5 DEF Drop
  <2> QED
    BY <2>4, <2>5
<1>10. ASSUME NEW c \in Calls, Wait(c) PROVE MutexInv' /\ LiveInv'
  BY <1>10 DEF Wait, Returns
<1>11. ASSUME NEW c \in Calls, Answer(c) PROVE MutexInv' /\ LiveInv'
  BY <1>11 DEF Answer, Idle
<1>12. ASSUME NEW c \in Calls, Cancel(c) PROVE MutexInv' /\ LiveInv'
  BY <1>12 DEF Cancel
<1>13. CASE Close
  BY <1>13 DEF Close, AtEnd, Answered
<1>14. CASE UNCHANGED vars
  BY <1>14 DEF vars
<1> QED
  BY <1>1, <1>2, <1>3, <1>4, <1>5, <1>6, <1>7, <1>8, <1>9, <1>10, <1>11, <1>12, <1>13, <1>14
  DEF Next, Step

\* Every step keeps what is known of each call; only the call itself moves.
LEMMA StepCalls ==
  ASSUME TypeOK, \A d \in Calls : CallInv(d), [Next]_vars, NEW c \in Calls PROVE CallInv(c)'
<1> USE McpAssumption DEF TypeOK, Call, At, Writes, TierRead
<1> DEFINE Quiet == /\ call'[c] = call[c] /\ ran'[c] = ran[c]
                    /\ entry'[c] = entry[c] /\ reply'[c] = reply[c]
<1>1. CallInv(c)
  OBVIOUS
<1>2. CASE Quiet
  BY <1>1, <1>2 DEF CallInv, RanInv, RecordInv, TrailInv, Attempts
<1>3. ASSUME NEW d \in Calls, NEW t \in Tiers, NEW dry \in BOOLEAN, Submit(d, t, dry)
      PROVE CallInv(c)'
  <2>1. CASE d # c
    BY <1>2, <1>3, <2>1 DEF Submit, NewCall
  <2>2. CASE d = c
    BY <1>3, <2>2 DEF Submit, NewCall, Idle, CallInv, RanInv, RecordInv, TrailInv, Attempts
  <2> QED
    BY <2>1, <2>2
<1>4. ASSUME NEW d \in Calls, NEW t \in Tiers, SubmitBad(d, t) PROVE CallInv(c)'
  <2>1. CASE d # c
    BY <1>2, <1>4, <2>1 DEF SubmitBad, NewCall
  <2>2. CASE d = c
    BY <1>4, <2>2 DEF SubmitBad, NewCall, Idle, CallInv, RanInv, RecordInv, TrailInv, Attempts, Succeeded
  <2> QED
    BY <2>1, <2>2
<1>5. ASSUME NEW d \in Calls, SubmitLocal(d) PROVE CallInv(c)'
  <2>1. CASE d # c
    BY <1>2, <1>5, <2>1 DEF SubmitLocal, NewCall
  <2>2. CASE d = c
    BY <1>5, <2>2 DEF SubmitLocal, NewCall, Idle, CallInv, RanInv, RecordInv, TrailInv, Attempts
  <2> QED
    BY <2>1, <2>2
<1>6. ASSUME NEW d \in Calls, NEW b, NEW fresh \in BOOLEAN, Invoke(d, b, fresh),
             call[d].pc \in {"get", "dial"}, UNCHANGED <<entry, reply>>
      PROVE CallInv(c)'
  <2>1. CASE d # c
    BY <1>2, <1>6, <2>1 DEF Invoke
  <2>2. CASE d = c
    BY <1>1, <1>6, <2>2 DEF Invoke, Starts, CallInv, RanInv, RecordInv, TrailInv, Attempts
  <2> QED
    BY <2>1, <2>2
<1>7. ASSUME NEW d \in Calls, GetLive(d) PROVE CallInv(c)'
  BY <1>6, <1>7 DEF GetLive
<1>8. ASSUME NEW d \in Calls, GetDial(d) PROVE CallInv(c)'
  <2>1. CASE d # c
    BY <1>2, <1>8, <2>1 DEF GetDial, Goto
  <2>2. CASE d = c
    BY <1>1, <1>8, <2>2 DEF GetDial, Goto, CallInv, RanInv, RecordInv, TrailInv, Attempts
  <2> QED
    BY <2>1, <2>2
<1>9. ASSUME NEW d \in Calls, DialOk(d) PROVE CallInv(c)'
  BY <1>6, <1>9 DEF DialOk
<1>10. ASSUME NEW d \in Calls, DialFail(d) PROVE CallInv(c)'
  <2>1. CASE d # c
    BY <1>2, <1>10, <2>1 DEF DialFail, Returns
  <2>2. CASE d = c
    BY <1>1, <1>10, <2>2 DEF DialFail, Returns, CallInv, RanInv, RecordInv, TrailInv, Attempts, Succeeded
  <2> QED
    BY <2>1, <2>2
<1>11. ASSUME NEW d \in Calls, NEW outcome \in Outcomes, Return(d, outcome)
       PROVE CallInv(c)'
  <2>1. CASE d # c
    BY <1>2, <1>11, <2>1 DEF Return, Returns, Goto
  <2>2. CASE d = c
    BY <1>1, <1>11, <2>2 DEF Return, Returns, Goto, CallInv, RanInv, RecordInv, TrailInv, Attempts
  <2> QED
    BY <2>1, <2>2
<1>12. ASSUME NEW d \in Calls, Drop(d) PROVE CallInv(c)'
  <2>1. CASE d # c
    BY <1>2, <1>12, <2>1 DEF Drop, Returns, Goto
  <2>2. CASE d = c
    BY <1>1, <1>12, <2>2
    DEF Drop, MayRetry, Returns, Goto, CallInv, RanInv, RecordInv, TrailInv, Attempts
  <2> QED
    BY <2>1, <2>2
<1>13. ASSUME NEW d \in Calls, Wait(d) PROVE CallInv(c)'
  <2>1. CASE d # c
    BY <1>2, <1>13, <2>1 DEF Wait, Returns
  <2>2. CASE d = c
    BY <1>1, <1>13, <2>2 DEF Wait, Returns, CallInv, RanInv, RecordInv, TrailInv, Attempts
  <2> QED
    BY <2>1, <2>2
<1>14. ASSUME NEW d \in Calls, Answer(d) PROVE CallInv(c)'
  <2>1. CASE d # c
    BY <1>2, <1>14, <2>1 DEF Answer
  <2>2. CASE d = c
    BY <1>1, <1>14, <2>2
    DEF Answer, Result, Idle, CallInv, RanInv, RecordInv, TrailInv, Attempts, Outcomes, Succeeded
  <2> QED
    BY <2>1, <2>2
<1>15. ASSUME NEW d \in Calls, Cancel(d) PROVE CallInv(c)'
  <2>1. CASE d # c
    BY <1>2, <1>15, <2>1 DEF Cancel
  <2>2. CASE d = c
    BY <1>1, <1>15, <2>2 DEF Cancel, CallInv, RanInv, RecordInv, TrailInv, Attempts
  <2> QED
    BY <2>1, <2>2
<1>16. CASE Close
  BY <1>2, <1>16 DEF Close
<1>17. CASE UNCHANGED vars
  BY <1>2, <1>17 DEF vars
<1> QED
  BY <1>3, <1>4, <1>5, <1>7, <1>8, <1>9, <1>10, <1>11, <1>12, <1>13, <1>14, <1>15, <1>16, <1>17
  DEF Next, Step

\* The invariant the theorems below rest on holds in every reachable state.
THEOREM SessionInvariant == Spec => []IInv
<1>1. IInv /\ [Next]_vars => IInv'
  BY StepTypeOK, StepConn, StepCalls DEF IInv
<1> QED
  BY <1>1, InitIInv, PTL DEF Spec

\* Every variable of the session has its type (conn.go, server.go run).
THEOREM TypeCorrect == Spec => []TypeOK
<1>1. IInv => TypeOK
  BY DEF IInv
<1> QED
  BY <1>1, SessionInvariant, PTL

\* get, drop and close: the open connection is the one the next call gets, however
\* many calls lose it at once, and two calls never dial at the same time.
THEOREM ConnectionCorrect == Spec => []OneConnection
<1>1. IInv => OneConnection
  BY DEF IInv, LiveInv, MutexInv, OneConnection
<1> QED
  BY <1>1, SessionInvariant, PTL

\* run's switch: no write is tried again, and a dry run changes nothing.
THEOREM WritesNotRepeated == Spec => []WriteOnce
<1>1. IInv => WriteOnce
  <2> SUFFICES ASSUME IInv, NEW c \in Calls, Writes(c)
               PROVE ran[c] <= IF call[c].dry THEN 0 ELSE 1
    BY DEF WriteOnce
  <2>1. call[c] \in Call /\ ran[c] \in Nat /\ RanInv(c) /\ RecordInv(c)
    BY DEF IInv, CallInv, TypeOK
  <2> QED
    BY <2>1 DEF RanInv, RecordInv, Attempts, Call, At, Writes
<1> QED
  BY <1>1, SessionInvariant, PTL

\* run's loop: a read has its second attempt, and nobody a third.
THEOREM ReadsRetried == Spec => []ReadsRetriedOnce
<1>1. IInv => ReadsRetriedOnce
  BY DEF IInv, CallInv, RanInv, RecordInv, Attempts, ReadsRetriedOnce, TypeOK, Call, At
<1> QED
  BY <1>1, SessionInvariant, PTL

\* callTool: a write is answered after its line is in the audit log, and the line
\* says what came of it.
THEOREM TrailCorrect == Spec => []WritesLeaveTrail
<1>1. IInv => WritesLeaveTrail
  BY DEF IInv, CallInv, TrailInv, WritesLeaveTrail, TypeOK, Succeeded
<1> QED
  BY <1>1, SessionInvariant, PTL

\* How often calls are tried, as the run checks it: writes once, reads twice.
THEOREM TriesCorrect == Spec => []TriedRight
<1>1. WriteOnce /\ ReadsRetriedOnce => TriedRight
  BY DEF TriedRight
<1> QED
  BY <1>1, WritesNotRepeated, ReadsRetried, PTL

-----------------------------------------------------------------------------
(* The host store. *)

GoodList(list) ==
  /\ list \in Seq(Host)
  /\ \A i, j \in DOMAIN list : list[i].name = list[j].name => i = j
  /\ \A i \in DOMAIN list : list[i] = Normalized(list[i])
GoodFile(f) == f \in File /\ GoodList(f.hosts)

\* What is in memory, in a write, and on disk.
ListsGood ==
  /\ hosts \in [Procs -> Seq(Host)] /\ file \in [Procs -> File]
  /\ \A p \in Procs : GoodList(hosts[p]) /\ GoodFile(file[p])
  /\ \A w \in writes : GoodFile(w.file)
  /\ disk = Torn \/ GoodFile(disk)

\* Who writes, and what the processes have seen.
WritersInv ==
  /\ \A w \in writes : pc[w.p] \in {"migrated", "up"}
  /\ \A w \in writes : pc[w.p] = "migrated" => w.by = "loop"
  /\ \A p \in Procs : pc[p] = "up" => file[p].hosts = hosts[p]
  /\ \A p \in Procs : pc[p] = "migrated" => file[p].hosts = Old
  /\ \A p \in Procs : pc[p] \in {"load", "migrated"} => p \notin unsaved

\* As long as no two processes and no two writes have met.
AloneInv ==
  ~shared =>
    /\ \A p, q \in Procs : p = q \/ pc[p] = "down" \/ pc[q] = "down"
    /\ \A v, w \in writes : v = w
    /\ \A w \in writes : w.file = file[w.p] /\ disk = Empty
    /\ \A p \in Procs : pc[p] = "load" => disk = file[p]
    /\ \A p \in Procs : (pc[p] \in {"migrated", "up"} /\ writes = {} /\ p \notin unsaved)
                          => disk = file[p]

StoreInv == StoreTypeOK /\ ListsGood /\ WritersInv /\ AloneInv

-----------------------------------------------------------------------------
(* Lists of hosts. *)

LEMMA NormalizedHost ==
  ASSUME NEW h \in Host
  PROVE  /\ Normalized(h) \in Host
         /\ Normalized(h).name = h.name /\ Normalized(h).url = h.url
         /\ Normalized(h).readOnly = h.readOnly
         /\ Normalized(Normalized(h)) = Normalized(h)
<1> DEFINE a == IF h.url = "ssh" THEN h.auth ELSE "none"
           b == h.tls /\ h.url = "tcp"
           g == Normalized(h)
           c == IF g.url = "ssh" THEN g.auth ELSE "none"
           d == g.tls /\ g.url = "tcp"
<1>1. a \in {"none", "key"} /\ b \in BOOLEAN
  BY DEF Host
<1>2. g = [h EXCEPT !.auth = a, !.tls = b]
  BY DEF Normalized
<1>3. Normalized(g) = [g EXCEPT !.auth = c, !.tls = d]
  BY DEF Normalized
<1> HIDE DEF g
<1>4. /\ g \in Host /\ g.auth = a /\ g.tls = b
      /\ g.name = h.name /\ g.url = h.url /\ g.readOnly = h.readOnly
  <2> HIDE DEF a, b
  <2> QED BY <1>1, <1>2 DEF Host
<1>5. c = g.auth /\ c \in {"none", "key"}
  BY <1>1, <1>4
<1>6. d = g.tls /\ d \in BOOLEAN
  BY <1>1, <1>4
<1>7. Normalized(g) = g
  <2> HIDE DEF c, d
  <2> DEFINE k == Normalized(g)
  <2>1. g \in Host /\ c = g.auth /\ c \in {"none", "key"} /\ d = g.tls /\ d \in BOOLEAN
        /\ k = [g EXCEPT !.auth = c, !.tls = d]
    BY <1>3, <1>4, <1>5, <1>6
  <2> HIDE DEF k
  <2> HIDE DEF c, d
  <2> QED BY <2>1 DEF k, Host
<1> QED BY <1>4, <1>7 DEF g

LEMMA OneCalled ==
  ASSUME NEW list, GoodList(list), NEW name, Called(list, name) # {}
  PROVE  /\ Min(Called(list, name)) \in DOMAIN list
         /\ list[Min(Called(list, name))].name = name
         /\ Called(list, name) = {Min(Called(list, name))}
<1>1. PICK i \in DOMAIN list : list[i].name = name
  BY DEF Called
<1>2. Called(list, name) = {i}
  BY <1>1 DEF Called, GoodList
<1>3. i \in Nat
  BY DEF GoodList
<1>4. Min({i}) = i
  BY <1>3 DEF Min
<1> QED BY <1>1, <1>2, <1>4

LEMMA EmptyGood == GoodList(<<>>)
  BY DEF GoodList

LEMMA AppendGood ==
  ASSUME NEW list, GoodList(list), NEW h \in Host, h = Normalized(h), Called(list, h.name) = {}
  PROVE  GoodList(Append(list, h))
<1> DEFINE n == Len(list)
           new == Append(list, h)
<1>1. list \in Seq(Host) /\ n \in Nat /\ DOMAIN list = 1..n
  BY DEF GoodList
<1>2. new \in Seq(Host) /\ DOMAIN new = 1..(n + 1) /\ new[n + 1] = h
      /\ \A i \in 1..n : new[i] = list[i]
  BY <1>1, AppendProperties
<1> HIDE DEF new, n
<1>3. \A i \in 1..n : list[i].name # h.name
  BY <1>1 DEF Called
<1>4. ASSUME NEW i \in 1..(n + 1), NEW j \in 1..(n + 1), new[i].name = new[j].name PROVE i = j
  <2>1. CASE i \in 1..n /\ j \in 1..n
    BY <1>1, <1>2, <1>4, <2>1 DEF GoodList
  <2>2. CASE i \in 1..n /\ j = n + 1
    BY <1>2, <1>3, <1>4, <2>2
  <2>3. CASE i = n + 1 /\ j \in 1..n
    BY <1>2, <1>3, <1>4, <2>3
  <2>4. (i \in 1..n \/ i = n + 1) /\ (j \in 1..n \/ j = n + 1)
    BY <1>1
  <2> QED BY <2>1, <2>2, <2>3, <2>4
<1>5. ASSUME NEW i \in 1..(n + 1) PROVE new[i] = Normalized(new[i])
  <2>1. i \in 1..n \/ i = n + 1
    BY <1>1
  <2> QED BY <1>1, <1>2, <2>1 DEF GoodList
<1>6. GoodList(new)
  BY <1>2, <1>4, <1>5 DEF GoodList
<1> QED BY <1>6 DEF new

\* A number is free, for there is one more than there are hosts.
LEMMA NameFree ==
  ASSUME NEW list \in Seq(Host), NEW base
  PROVE  \E i \in 1..(Len(list) + 1) : Called(list, Name(base, i)) = {}
<1> DEFINE n == Len(list)
           R == 1..(n + 1)
           f == [i \in R |-> CHOOSE j \in 1..n : list[j].name = Name(base, i)]
<1>1. n \in Nat /\ DOMAIN list = 1..n
  OBVIOUS
<1>2. SUFFICES ASSUME \A i \in R : \E j \in 1..n : list[j].name = Name(base, i) PROVE FALSE
  BY <1>1 DEF Called
<1>3. f \in [R -> 1..n] /\ \A i \in R : list[f[i]].name = Name(base, i)
  BY <1>2
<1> HIDE DEF f, n
<1>4. \A i, j \in R : Name(base, i) = Name(base, j) => i = j
  BY DEF Name
<1>5. f \in Injection(R, 1..n)
  <2>1. \A i, j \in R : f[i] = f[j] => i = j
    BY <1>3, <1>4
  <2> HIDE DEF R
  <2> QED BY <1>3, <2>1, Fun_IsInj
<1>6. IsFiniteSet(1..n) /\ Cardinality(1..n) = n /\ IsFiniteSet(R) /\ Cardinality(R) = n + 1
  <2>1. 1 \in Int /\ n \in Int /\ n + 1 \in Int
    BY <1>1
  <2> QED BY <1>1, <2>1, FS_Interval
<1>7. Cardinality(R) <= Cardinality(1..n)
  BY <1>5, <1>6, FS_Injection
<1> QED BY <1>1, <1>6, <1>7

LEMMA UniqueNameFree ==
  ASSUME NEW list \in Seq(Host), NEW base
  PROVE  \E i \in 1..(Len(list) + 1) :
           UniqueName(list, base) = Name(base, i) /\ Called(list, Name(base, i)) = {}
<1> DEFINE free == {i \in 1..(Len(list) + 1) : Called(list, Name(base, i)) = {}}
<1>1. free # {} /\ free \in SUBSET Nat
  <2>1. Len(list) \in Nat
    OBVIOUS
  <2>2. free \in SUBSET Nat
    BY <2>1
  <2> QED BY <2>2, NameFree, Zenon
<1>2. PICK k \in free : \A j \in free : k <= j
  BY <1>1, LeastNumber
<1> DEFINE i == CHOOSE i \in free : \A j \in free : i <= j
<1>3. i \in free
  BY <1>2
<1> HIDE DEF i
<1> QED BY <1>3 DEF UniqueName, i

\* A host by another name.
LEMMA RenamedHost ==
  ASSUME NEW h \in Host, h = Normalized(h), NEW name \in Names
  PROVE  LET g == [h EXCEPT !.name = name] IN
         g \in Host /\ g = Normalized(g) /\ g.name = name /\ g.url = h.url
<1> DEFINE g == [h EXCEPT !.name = name]
           a == IF h.url = "ssh" THEN h.auth ELSE "none"
           b == h.tls /\ h.url = "tcp"
<1>1. g \in Host /\ g.name = name /\ g.url = h.url /\ g.auth = h.auth /\ g.tls = h.tls
  BY DEF Host
<1>2. h = [h EXCEPT !.auth = a, !.tls = b]
  BY DEF Normalized
<1>3. a \in {"none", "key"} /\ b \in BOOLEAN
  BY DEF Host
<1>4. a = h.auth /\ b = h.tls
  <2> HIDE DEF a, b
  <2> QED BY <1>2, <1>3 DEF Host
<1> DEFINE c == IF g.url = "ssh" THEN g.auth ELSE "none"
           d == g.tls /\ g.url = "tcp"
           k == Normalized(g)
<1>5. c = g.auth /\ c \in {"none", "key"}
  BY <1>1, <1>3, <1>4
<1>6. d = g.tls /\ d \in BOOLEAN
  BY <1>1, <1>3, <1>4
<1>7. k = [g EXCEPT !.auth = c, !.tls = d]
  BY DEF Normalized
<1> HIDE DEF g, c, d, k
<1>8. k = g
  BY <1>1, <1>5, <1>6, <1>7 DEF Host
<1> QED BY <1>1, <1>8 DEF g, k

LEMMA FirstName ==
  ASSUME NEW base \in Bases
  PROVE  Name(base, 1) \in Names
BY StoreAssumption DEF Names

\* What the form makes, and what a context makes.
LEMMA HostMade ==
  ASSUME NEW base \in Bases, NEW url \in Urls, NEW auth \in {"none", "key"}, NEW tls \in BOOLEAN
  PROVE  LET f == FormHost(base, url, auth)
             c == ContextHost(base, url, tls)
         IN  /\ f \in Host /\ f = Normalized(f) /\ f.name = Name(base, 1) /\ f.url = url
             /\ c \in Host /\ c = Normalized(c) /\ c.name = Name(base, 1) /\ c.url = url
<1> DEFINE g == [name |-> Name(base, 1), url |-> url, auth |-> auth, tls |-> FALSE,
                 readOnly |-> FALSE]
           h == [name |-> Name(base, 1), url |-> url, auth |-> "none", tls |-> tls,
                 readOnly |-> FALSE]
<1>1. g \in Host /\ h \in Host /\ g.name = Name(base, 1) /\ h.name = Name(base, 1)
      /\ g.url = url /\ h.url = url
  BY FirstName DEF Host
<1> HIDE DEF g, h
<1>2. /\ Normalized(g) \in Host /\ Normalized(g) = Normalized(Normalized(g))
      /\ Normalized(g).name = Name(base, 1) /\ Normalized(g).url = url
      /\ Normalized(h) \in Host /\ Normalized(h) = Normalized(Normalized(h))
      /\ Normalized(h).name = Name(base, 1) /\ Normalized(h).url = url
  BY <1>1, NormalizedHost
<1>3. FormHost(base, url, auth) = Normalized(g) /\ ContextHost(base, url, tls) = Normalized(h)
  BY DEF FormHost, ContextHost, g, h
<1> QED BY <1>2, <1>3

\* What an edit leaves of the host: everything the form shows, and the mark.
LEMMA CarriedHost ==
  ASSUME NEW old \in Host, NEW h \in Host
  PROVE  LET c == Carried(old, h) IN
         c \in Host /\ c = Normalized(c) /\ c.name = h.name /\ c.readOnly = old.readOnly
<1> DEFINE y == h.tls \/ old.tls
           g == [h EXCEPT !.readOnly = old.readOnly, !.tls = y]
<1>1. y \in BOOLEAN /\ old.readOnly \in BOOLEAN
  BY DEF Host
<1>2. g \in Host /\ g.name = h.name /\ g.readOnly = old.readOnly
  <2> HIDE DEF y
  <2> QED BY <1>1 DEF Host
<1>3. Carried(old, h) = Normalized(g)
  BY DEF Carried
<1> HIDE DEF g
<1> QED BY <1>2, <1>3, NormalizedHost

LEMMA EditGood ==
  ASSUME NEW list, GoodList(list), NEW name, NEW h \in Host, MayEdit(list, name, h)
  PROVE  /\ GoodList(EditHost(list, name, h))
         /\ DOMAIN EditHost(list, name, h) = DOMAIN list
         /\ \A i \in DOMAIN list : EditHost(list, name, h)[i].readOnly = list[i].readOnly
<1> DEFINE m == Min(Called(list, name))
           new == EditHost(list, name, h)
<1>1. m \in DOMAIN list /\ list[m].name = name /\ Called(list, name) = {m}
  BY OneCalled DEF MayEdit
<1>2. new = [i \in DOMAIN list |-> IF i = m THEN Carried(list[i], h) ELSE list[i]]
  BY DEF EditHost
<1>3. list \in Seq(Host) /\ Len(list) \in Nat /\ DOMAIN list = 1..Len(list)
  BY DEF GoodList
<1>4. \A i \in DOMAIN list : list[i] \in Host
  BY <1>3
<1>5. /\ Carried(list[m], h) \in Host /\ Carried(list[m], h) = Normalized(Carried(list[m], h))
      /\ Carried(list[m], h).name = h.name /\ Carried(list[m], h).readOnly = list[m].readOnly
  BY <1>1, <1>4, CarriedHost
<1> HIDE DEF m, new
<1>6. DOMAIN new = DOMAIN list /\ new[m] = Carried(list[m], h)
      /\ \A i \in DOMAIN list : i # m => new[i] = list[i]
  BY <1>1, <1>2
<1>7. new \in Seq(Host)
  <2>1. \A i \in DOMAIN list : new[i] \in Host
    BY <1>4, <1>5, <1>6
  <2>2. new = [i \in 1..Len(list) |-> new[i]]
    BY <1>2, <1>3
  <2>3. new \in [1..Len(list) -> Host]
    BY <1>3, <2>1, <2>2
  <2> QED BY <1>3, <2>3
<1>8. \A i \in DOMAIN list : i # m => list[i].name # h.name
  <2> SUFFICES ASSUME NEW i \in DOMAIN list, i # m, list[i].name = h.name PROVE FALSE
    OBVIOUS
  <2>1. i \in Called(list, h.name)
    BY DEF Called
  <2>2. h.name = name
    BY <2>1 DEF MayEdit
  <2> QED BY <1>1, <2>1, <2>2
<1>9. ASSUME NEW i \in DOMAIN list, NEW j \in DOMAIN list, new[i].name = new[j].name PROVE i = j
  <2>1. CASE i = m /\ j # m
    BY <1>5, <1>6, <1>8, <1>9, <2>1
  <2>2. CASE i # m /\ j = m
    BY <1>5, <1>6, <1>8, <1>9, <2>2
  <2>3. CASE i # m /\ j # m
    BY <1>6, <1>9, <2>3 DEF GoodList
  <2> QED BY <2>1, <2>2, <2>3
<1>10. \A i \in DOMAIN list : new[i] = Normalized(new[i])
  BY <1>5, <1>6 DEF GoodList
<1>11. \A i \in DOMAIN list : new[i].readOnly = list[i].readOnly
  BY <1>5, <1>6
<1>12. GoodList(new)
  BY <1>6, <1>7, <1>9, <1>10 DEF GoodList
<1> QED BY <1>6, <1>11, <1>12 DEF new

\* A numbered name is in the list of names as long as the list has room.
LEMMA NumberedName ==
  ASSUME NEW list \in Seq(Host), Len(list) < MaxHosts, NEW base \in Bases
  PROVE  UniqueName(list, base) \in Names /\ Called(list, UniqueName(list, base)) = {}
<1>1. PICK i \in 1..(Len(list) + 1) :
        UniqueName(list, base) = Name(base, i) /\ Called(list, Name(base, i)) = {}
  BY UniqueNameFree
<1>2. Len(list) \in Nat
  OBVIOUS
<1>3. i \in 1..(MaxHosts + 1)
  BY <1>2, StoreAssumption
<1> QED BY <1>1, <1>3 DEF Names

LEMMA ImportedGood ==
  ASSUME NEW list, GoodList(list), NEW h \in Host, h = Normalized(h), h.name[1] \in Bases,
         Len(Imported(list, h)) <= MaxHosts
  PROVE  GoodList(Imported(list, h))
<1>1. CASE OfUrl(list, h.url) # {}
  BY <1>1 DEF Imported
<1>2. CASE OfUrl(list, h.url) = {}
  <2> DEFINE u == UniqueName(list, h.name[1])
             g == [h EXCEPT !.name = u]
  <2>1. Imported(list, h) = Append(list, g)
    BY <1>2 DEF Imported
  <2>2. list \in Seq(Host) /\ Len(list) \in Nat /\ Len(Append(list, g)) = Len(list) + 1
    BY DEF GoodList
  <2>3. Len(list) < MaxHosts
    BY <2>1, <2>2, StoreAssumption
  <2>4. u \in Names /\ Called(list, u) = {}
    BY <2>2, <2>3, NumberedName
  <2> HIDE DEF u
  <2>5. g \in Host /\ g = Normalized(g) /\ g.name = u
    BY <2>4, RenamedHost
  <2> HIDE DEF g
  <2> QED BY <2>1, <2>4, <2>5, AppendGood
<1> QED BY <1>1, <1>2

\* Importing keeps the hosts there are, and only adds.
LEMMA ImportedKeeps ==
  ASSUME NEW S, NEW list \in Seq(S), NEW h
  PROVE  /\ Len(list) \in Nat /\ Len(Imported(list, h)) \in Nat
         /\ Len(list) <= Len(Imported(list, h))
         /\ \A i \in DOMAIN list : i \in DOMAIN Imported(list, h) /\ Imported(list, h)[i] = list[i]
<1> DEFINE g == [h EXCEPT !.name = UniqueName(list, h.name[1])]
<1>1. Len(list) \in Nat /\ DOMAIN list = 1..Len(list)
  OBVIOUS
<1> HIDE DEF g
<1>2. /\ Len(Append(list, g)) = Len(list) + 1
      /\ \A i \in 1..Len(list) : i \in DOMAIN Append(list, g) /\ Append(list, g)[i] = list[i]
  BY <1>1
<1>3. Imported(list, h) = list \/ Imported(list, h) = Append(list, g)
  BY DEF Imported, g
<1> QED BY <1>1, <1>2, <1>3

\* Taking a host out.
LEMMA RemoveGood ==
  ASSUME NEW list, GoodList(list), NEW m \in DOMAIN list
  PROVE  GoodList(RemoveAt(list, m))
<1> DEFINE n == Len(list)
           a == SubSeq(list, 1, m - 1)
           b == SubSeq(list, m + 1, n)
           new == RemoveAt(list, m)
           spot(i) == IF i < m THEN i ELSE i + 1
<1>1. list \in Seq(Host) /\ n \in Nat /\ DOMAIN list = 1..n /\ m \in 1..n
  BY DEF GoodList
<1>2. \A i \in 1..n : list[i] \in Host
  BY <1>1
<1> HIDE DEF n
<1>3. a \in Seq(Host) /\ Len(a) = m - 1 /\ \A i \in 1..(m - 1) : a[i] = list[i]
  <2>1. 1 \in Int /\ m - 1 \in Int /\ \A i \in 1..(m - 1) : list[i] \in Host
    BY <1>1, <1>2
  <2>2. /\ a \in Seq(Host) /\ Len(a) = IF 1 <= m - 1 THEN (m - 1) - 1 + 1 ELSE 0
        /\ \A i \in 1..((m - 1) - 1 + 1) : a[i] = list[1 + i - 1]
    BY <2>1, SubSeqProperties
  <2> HIDE DEF a
  <2>3. Len(a) = m - 1
    BY <1>1, <2>2
  <2>4. ASSUME NEW i \in 1..(m - 1) PROVE a[i] = list[i]
    <3>1. i \in 1..((m - 1) - 1 + 1) /\ 1 + i - 1 = i
      BY <1>1
    <3> QED BY <2>2, <3>1
  <2> QED BY <2>2, <2>3, <2>4
<1>4. b \in Seq(Host) /\ Len(b) = n - m /\ \A i \in 1..(n - m) : b[i] = list[i + m]
  <2>1. m + 1 \in Int /\ n \in Int /\ \A i \in (m + 1)..n : list[i] \in Host
    BY <1>1, <1>2
  <2>2. /\ b \in Seq(Host) /\ Len(b) = IF m + 1 <= n THEN n - (m + 1) + 1 ELSE 0
        /\ \A i \in 1..(n - (m + 1) + 1) : b[i] = list[(m + 1) + i - 1]
    BY <2>1, SubSeqProperties
  <2> HIDE DEF b
  <2>3. Len(b) = n - m
    BY <1>1, <2>2
  <2>4. ASSUME NEW i \in 1..(n - m) PROVE b[i] = list[i + m]
    <3>1. i \in 1..(n - (m + 1) + 1) /\ (m + 1) + i - 1 = i + m
      BY <1>1
    <3> QED BY <2>2, <3>1
  <2> QED BY <2>2, <2>3, <2>4
<1>5. new = a \o b
  BY DEF RemoveAt, n
<1> HIDE DEF a, b
<1>6. /\ new \in Seq(Host) /\ Len(new) = n - 1 /\ DOMAIN new = 1..(n - 1)
      /\ \A i \in 1..(n - 1) : spot(i) \in 1..n /\ new[i] = list[spot(i)]
  <2>1. /\ a \o b \in Seq(Host) /\ Len(a \o b) = (m - 1) + (n - m)
        /\ \A i \in 1..((m - 1) + (n - m)) : (a \o b)[i] = IF i <= m - 1 THEN a[i] ELSE b[i - (m - 1)]
    <3>1. a \in Seq(Host) /\ b \in Seq(Host) /\ Len(a) = m - 1 /\ Len(b) = n - m
      BY <1>3, <1>4
    <3>2. /\ a \o b \in Seq(Host) /\ Len(a \o b) = Len(a) + Len(b)
          /\ \A i \in 1..(Len(a) + Len(b)) : (a \o b)[i] = IF i <= Len(a) THEN a[i] ELSE b[i - Len(a)]
      BY <3>1, ConcatProperties
    <3> QED BY <3>1, <3>2
  <2> HIDE DEF new
  <2>2. new \in Seq(Host) /\ Len(new) = n - 1
    BY <1>1, <1>5, <2>1
  <2>3. ASSUME NEW i \in 1..(n - 1) PROVE spot(i) \in 1..n /\ new[i] = list[spot(i)]
    <3>1. new[i] = IF i <= m - 1 THEN a[i] ELSE b[i - (m - 1)]
      <4>1. i \in 1..((m - 1) + (n - m))
        BY <1>1
      <4> QED BY <1>5, <2>1, <4>1
    <3>2. CASE i < m
      <4>1. i \in 1..(m - 1) /\ i <= m - 1 /\ i \in 1..n
        BY <1>1, <3>2
      <4> QED BY <1>3, <3>1, <3>2, <4>1
    <3>3. CASE ~(i < m)
      <4>1. i - (m - 1) \in 1..(n - m) /\ ~(i <= m - 1) /\ (i - (m - 1)) + m = i + 1 /\ i + 1 \in 1..n
        BY <1>1, <3>3
      <4>2. b[i - (m - 1)] = list[i + 1]
        BY <1>4, <4>1
      <4> QED BY <3>1, <3>3, <4>1, <4>2
    <3> QED BY <3>2, <3>3
  <2> QED BY <2>2, <2>3
<1> HIDE DEF new
<1>7. ASSUME NEW i \in 1..(n - 1), NEW j \in 1..(n - 1), new[i].name = new[j].name PROVE i = j
  <2>1. spot(i) = spot(j)
    <3>1. \A x, y \in 1..n : list[x].name = list[y].name => x = y
      BY <1>1 DEF GoodList
    <3>2. /\ spot(i) \in 1..n /\ new[i] = list[spot(i)]
          /\ spot(j) \in 1..n /\ new[j] = list[spot(j)]
      BY <1>6
    <3> HIDE DEF spot
    <3> QED BY <1>7, <3>1, <3>2
  <2> QED BY <1>1, <2>1
<1>8. \A i \in 1..(n - 1) : new[i] = Normalized(new[i])
  <2>1. \A x \in 1..n : list[x] = Normalized(list[x])
    BY <1>1 DEF GoodList
  <2> HIDE DEF spot
  <2> QED BY <1>6, <2>1
<1>9. GoodList(new)
  BY <1>6, <1>7, <1>8 DEF GoodList
<1> QED BY <1>9 DEF new

-----------------------------------------------------------------------------
(* The steps. *)

WriteSet == [p : Procs, by : {"loop", "command"}, file : File]

LEMMA OldGood == GoodList(Old)
<1> DEFINE h == [name |-> Name(CHOOSE b \in Bases : TRUE, 1), url |-> "tcp", auth |-> "none",
                 tls |-> FALSE, readOnly |-> TRUE]
<1>1. (CHOOSE b \in Bases : TRUE) \in Bases
  BY StoreAssumption
<1>2. h \in Host
  BY <1>1, FirstName DEF Host, Urls
<1>3. Normalized(h) = h
  <2> DEFINE a == IF h.url = "ssh" THEN h.auth ELSE "none"
             b == h.tls /\ h.url = "tcp"
  <2>1. a = h.auth /\ b = h.tls
    OBVIOUS
  <2>2. Normalized(h) = [h EXCEPT !.auth = a, !.tls = b]
    BY DEF Normalized
  <2> HIDE DEF a, b, h
  <2> QED BY <1>2, <2>1, <2>2 DEF Host
<1>4. Old = <<h>>
  BY DEF Old
<1> HIDE DEF h
<1> QED BY <1>2, <1>3, <1>4 DEF GoodList

LEMMA EmptyFits == GoodFile(Empty)
  BY EmptyGood DEF GoodFile, Empty, File, GoodList

LEMMA TypesKnown ==
  ASSUME StoreInv
  PROVE  /\ hosts \in [Procs -> Seq(Host)] /\ file \in [Procs -> File]
         /\ pc \in [Procs -> {"down", "load", "migrated", "up"}]
         /\ writes \in SUBSET WriteSet /\ unsaved \in SUBSET Procs /\ shared \in BOOLEAN
         /\ \A p \in Procs : GoodList(hosts[p]) /\ GoodFile(file[p])
         /\ \A w \in writes : GoodFile(w.file) /\ w.p \in Procs /\ w.file \in File
         /\ disk = Torn \/ GoodFile(disk)
BY DEF StoreInv, StoreTypeOK, ListsGood, WriteSet

\* A file with its hosts set, and its theme.
LEMMA FileFits ==
  ASSUME NEW f, GoodFile(f), NEW list, GoodList(list)
  PROVE  LET g == [f EXCEPT !.hosts = list] IN
         GoodFile(g) /\ g.hosts = list /\ g.theme = f.theme
BY DEF GoodFile, File, GoodList

LEMMA ThemeFits ==
  ASSUME NEW f, GoodFile(f), NEW theme \in Themes
  PROVE  LET g == [f EXCEPT !.theme = theme] IN
         GoodFile(g) /\ g.hosts = f.hosts
<1> DEFINE g == [f EXCEPT !.theme = theme]
<1>1. f \in File /\ GoodList(f.hosts)
  BY DEF GoodFile
<1>2. g \in File /\ g.hosts = f.hosts
  BY <1>1 DEF File
<1> QED BY <1>1, <1>2 DEF GoodFile

\* What opening the file for a save leaves.
LEMMA SaveFits ==
  ASSUME StoreInv, NEW p \in Procs, NEW by \in {"loop", "command"}, NEW f, GoodFile(f),
         Save(p, by, f)
  PROVE  /\ writes' \in SUBSET WriteSet /\ unsaved' \in SUBSET Procs /\ shared' \in BOOLEAN
         /\ \A w \in writes' : GoodFile(w.file)
         /\ disk' = Torn \/ GoodFile(disk')
         /\ shared' = (shared \/ writes # {})
         /\ \/ /\ disk' = Empty /\ unsaved' = unsaved
               /\ writes' = writes \union {[p |-> p, by |-> by, file |-> f]}
            \/ disk' = disk /\ writes' = writes /\ unsaved' = unsaved \union {p}
<1>1. [p |-> p, by |-> by, file |-> f] \in WriteSet
  BY DEF WriteSet, GoodFile
<1> QED BY <1>1, TypesKnown, EmptyFits DEF Save

\* A change of a process that is up, saved or not.
LEMMA ChangeStep ==
  ASSUME StoreInv, NEW p \in Procs, NEW by \in {"loop", "command"}, NEW f, GoodFile(f),
         pc[p] = "up", Save(p, by, f), file' = [file EXCEPT ![p] = f],
         hosts' = [hosts EXCEPT ![p] = f.hosts], ops' \in 0..MaxOps, UNCHANGED <<legacy, pc>>
  PROVE  StoreInv'
<1> DEFINE w == [p |-> p, by |-> by, file |-> f]
<1>1. /\ writes' \in SUBSET WriteSet /\ unsaved' \in SUBSET Procs /\ shared' \in BOOLEAN
      /\ \A v \in writes' : GoodFile(v.file)
      /\ disk' = Torn \/ GoodFile(disk')
      /\ shared' = (shared \/ writes # {})
      /\ \/ /\ disk' = Empty /\ unsaved' = unsaved
            /\ writes' = writes \union {w}
         \/ disk' = disk /\ writes' = writes /\ unsaved' = unsaved \union {p}
  BY SaveFits
<1>2. /\ hosts' \in [Procs -> Seq(Host)] /\ file' \in [Procs -> File]
      /\ \A q \in Procs : file'[q] = IF q = p THEN f ELSE file[q]
      /\ \A q \in Procs : hosts'[q] = IF q = p THEN f.hosts ELSE hosts[q]
  BY TypesKnown DEF GoodFile, GoodList
<1>3. ListsGood'
  <2>1. \A q \in Procs : GoodList(hosts'[q]) /\ GoodFile(file'[q])
    BY <1>2, TypesKnown DEF GoodFile
  <2> QED BY <1>1, <1>2, <2>1 DEF ListsGood, GoodFile, GoodList
<1>4. StoreTypeOK'
  <2>1. disk' \in File \union {Torn}
    BY <1>1 DEF GoodFile
  <2> QED BY <1>1, <1>2, <2>1 DEF StoreInv, StoreTypeOK, WriteSet
<1>5. w.p = p /\ w.by = by /\ w.file = f
  OBVIOUS
<1> HIDE DEF w
<1>6. WritersInv'
  <2>1. \A v \in writes' : v \in writes \/ v = w
    BY <1>1
  <2>2. \A v \in writes' : pc'[v.p] \in {"migrated", "up"} /\ (pc'[v.p] = "migrated" => v.by = "loop")
    BY <1>5, <2>1 DEF StoreInv, WritersInv
  <2>3. \A q \in Procs : /\ pc'[q] = "up" => file'[q].hosts = hosts'[q]
                         /\ pc'[q] = "migrated" => file'[q].hosts = Old
    BY <1>2 DEF StoreInv, WritersInv
  <2>4. \A q \in Procs : pc'[q] \in {"load", "migrated"} => q \notin unsaved'
    BY <1>1 DEF StoreInv, WritersInv
  <2> QED BY <2>2, <2>3, <2>4 DEF WritersInv
<1>7. AloneInv'
  <2> SUFFICES ASSUME ~shared', ~shared, writes = {} PROVE AloneInv'
    BY <1>1 DEF AloneInv
  <2>0. StoreInv
    OBVIOUS
  <2>1. \A q \in Procs : q = p \/ pc[q] = "down"
    BY DEF StoreInv, AloneInv
  <2>2. \A q, r \in Procs : q = r \/ pc'[q] = "down" \/ pc'[r] = "down"
    BY <2>1
  <2>3. CASE disk' = Empty /\ writes' = {w}
    <3>1. \A v \in writes' : v.file = file'[v.p] /\ disk' = Empty
      BY <1>2, <1>5, <2>3
    <3>2. \A v1, v2 \in writes' : v1 = v2
      BY <2>3
    <3>3. \A q \in Procs : pc'[q] # "load" /\ writes' # {}
      BY <2>1, <2>3
    <3> QED BY <2>2, <3>1, <3>2, <3>3 DEF AloneInv
  <2>4. CASE disk' = disk /\ writes' = {} /\ p \in unsaved'
    <3>1. \A q \in Procs : pc'[q] # "down" => q \in unsaved' /\ pc'[q] = "up"
      BY <2>1, <2>4
    <3> QED BY <2>2, <2>4, <3>1 DEF AloneInv
  <2> QED BY <1>1, <2>3, <2>4
<1> QED BY <1>3, <1>4, <1>6, <1>7 DEF StoreInv

LEMMA FinishWriteStep ==
  ASSUME StoreInv, NEW w \in writes, FinishWrite(w)
  PROVE  StoreInv'
<1>1. w.p \in Procs /\ w.file \in File /\ GoodFile(w.file)
  BY TypesKnown
<1>2. /\ writes' = writes \ {w} /\ unsaved' = unsaved \ {w.p}
      /\ UNCHANGED <<legacy, pc, hosts, file, shared, ops>>
      /\ disk' \in {w.file, Torn} /\ (disk = Empty => disk' = w.file)
  BY DEF FinishWrite, Written
<1>3. StoreTypeOK' /\ ListsGood'
  BY <1>1, <1>2 DEF StoreInv, StoreTypeOK, ListsGood
<1>4. WritersInv'
  BY <1>2 DEF StoreInv, WritersInv
<1>5. AloneInv'
  <2> SUFFICES ASSUME ~shared PROVE AloneInv'
    BY <1>2 DEF AloneInv
  <2>1. /\ \A p, q \in Procs : p = q \/ pc[p] = "down" \/ pc[q] = "down"
        /\ \A v \in writes : v = w
        /\ w.file = file[w.p] /\ disk = Empty
    BY DEF StoreInv, AloneInv
  <2>2. pc[w.p] \in {"migrated", "up"}
    BY DEF StoreInv, WritersInv
  <2>3. \A p \in Procs : pc[p] # "down" => p = w.p
    BY <1>1, <2>1, <2>2
  <2>4. writes' = {} /\ disk' = file'[w.p]
    BY <1>2, <2>1
  <2> QED BY <1>2, <2>1, <2>2, <2>3, <2>4 DEF AloneInv
<1> QED BY <1>3, <1>4, <1>5 DEF StoreInv

LEMMA CrashStep ==
  ASSUME StoreInv, NEW p \in Procs, Crash(p)
  PROVE  StoreInv'
<1>1. /\ pc' = [pc EXCEPT ![p] = "down"] /\ writes' = {w \in writes : w.p # p}
      /\ unsaved' = unsaved \ {p}
      /\ hosts' = [hosts EXCEPT ![p] = <<>>] /\ file' = [file EXCEPT ![p] = Empty]
      /\ UNCHANGED <<disk, legacy, shared, ops>>
  BY DEF Crash
<1>2. /\ hosts' \in [Procs -> Seq(Host)] /\ file' \in [Procs -> File]
      /\ pc' \in [Procs -> {"down", "load", "migrated", "up"}]
      /\ \A q \in Procs : /\ pc'[q] = IF q = p THEN "down" ELSE pc[q]
                          /\ file'[q] = IF q = p THEN Empty ELSE file[q]
                          /\ hosts'[q] = IF q = p THEN <<>> ELSE hosts[q]
  <2>1. Empty \in File /\ <<>> \in Seq(Host)
    BY EmptyFits DEF GoodFile
  <2> QED BY <1>1, <2>1, TypesKnown
<1>3. ListsGood'
  BY <1>1, <1>2, EmptyFits, EmptyGood DEF StoreInv, ListsGood
<1>4. StoreTypeOK'
  BY <1>1, <1>2 DEF StoreInv, StoreTypeOK
<1>5. WritersInv'
  <2>1. \A w \in writes' : w.p \in Procs /\ w \in writes /\ w.p # p
    BY <1>1, TypesKnown
  <2> QED BY <1>1, <1>2, <2>1 DEF StoreInv, WritersInv
<1>6. AloneInv'
  <2> SUFFICES ASSUME ~shared PROVE AloneInv'
    BY <1>1 DEF AloneInv
  <2>0. pc[p] # "down"
    BY DEF Crash
  <2>1. \A q \in Procs : q = p \/ pc[q] = "down"
    BY <2>0 DEF StoreInv, AloneInv
  <2>2. \A q \in Procs : pc'[q] = "down"
    BY <1>2, <2>1
  <2>3. writes' = {}
    BY <1>1, <2>1, TypesKnown DEF StoreInv, WritersInv
  <2> QED BY <2>2, <2>3 DEF AloneInv
<1> QED BY <1>3, <1>4, <1>5, <1>6 DEF StoreInv

LEMMA LoadStep ==
  ASSUME StoreInv, NEW p \in Procs, Load(p)
  PROVE  StoreInv'
<1>1. /\ pc[p] = "down" /\ disk # Torn
      /\ file' = [file EXCEPT ![p] = disk] /\ pc' = [pc EXCEPT ![p] = "load"]
      /\ shared' = (shared \/ writes # {} \/ \E q \in Procs \ {p} : pc[q] # "down")
      /\ unsaved' = unsaved \ {p}
      /\ UNCHANGED <<disk, legacy, hosts, writes, ops>>
  BY DEF Load
<1>2. disk \in File /\ GoodFile(disk)
  BY <1>1, TypesKnown DEF GoodFile
<1>3. /\ file' \in [Procs -> File] /\ pc' \in [Procs -> {"down", "load", "migrated", "up"}]
      /\ \A q \in Procs : /\ pc'[q] = IF q = p THEN "load" ELSE pc[q]
                          /\ file'[q] = IF q = p THEN disk ELSE file[q]
  BY <1>1, <1>2, TypesKnown
<1>4. ListsGood'
  BY <1>1, <1>2, <1>3 DEF StoreInv, ListsGood
<1>5. StoreTypeOK'
  BY <1>1, <1>3 DEF StoreInv, StoreTypeOK
<1>6. WritersInv'
  <2>1. \A w \in writes : w.p \in Procs /\ w.p # p
    BY <1>1, TypesKnown DEF StoreInv, WritersInv
  <2> QED BY <1>1, <1>3, <2>1 DEF StoreInv, WritersInv
<1>7. AloneInv'
  <2> SUFFICES ASSUME ~shared', ~shared, writes = {}, \A q \in Procs \ {p} : pc[q] = "down"
               PROVE  AloneInv'
    BY <1>1 DEF AloneInv
  <2>1. \A q \in Procs : q = p \/ pc'[q] = "down"
    BY <1>3
  <2>2. pc'[p] = "load" /\ file'[p] = disk' /\ writes' = {}
    BY <1>1, <1>3
  <2> QED BY <2>1, <2>2 DEF AloneInv
<1> QED BY <1>4, <1>5, <1>6, <1>7 DEF StoreInv

LEMMA MigrateStep ==
  ASSUME StoreInv, NEW p \in Procs, Migrate(p)
  PROVE  StoreInv'
<1> DEFINE f == [file[p] EXCEPT !.hosts = Old]
           w == [p |-> p, by |-> "loop", file |-> f]
<1>1. /\ pc[p] = "load" /\ file' = [file EXCEPT ![p].hosts = Old] /\ Save(p, "loop", file'[p])
      /\ pc' = [pc EXCEPT ![p] = AfterMigrate(writes' # writes)]
      /\ UNCHANGED <<legacy, hosts, ops>>
  BY DEF Migrate
<1>2. GoodFile(f) /\ f.hosts = Old /\ f \in File
  <2>1. GoodFile(file[p])
    BY TypesKnown
  <2> HIDE DEF f
  <2>2. GoodFile(f) /\ f.hosts = Old
    BY <2>1, OldGood, FileFits DEF f
  <2> QED BY <2>2 DEF GoodFile
<1> HIDE DEF f
<1>3. file' = [file EXCEPT ![p] = f]
  BY <1>1 DEF f
<1>4. file'[p] = f
  BY <1>3, TypesKnown
<1>5. /\ writes' \in SUBSET WriteSet /\ unsaved' \in SUBSET Procs /\ shared' \in BOOLEAN
      /\ \A v \in writes' : GoodFile(v.file)
      /\ disk' = Torn \/ GoodFile(disk')
      /\ shared' = (shared \/ writes # {})
      /\ \/ /\ disk' = Empty /\ unsaved' = unsaved
            /\ writes' = writes \union {w}
         \/ disk' = disk /\ writes' = writes /\ unsaved' = unsaved \union {p}
  BY <1>1, <1>2, <1>4, SaveFits
<1>6. w.p = p /\ w.by = "loop" /\ w.file = f
  OBVIOUS
<1> HIDE DEF w
<1>7. \A v \in writes : v.p \in Procs /\ v.p # p
  BY <1>1, TypesKnown DEF StoreInv, WritersInv
<1>8. \/ /\ disk' = Empty /\ unsaved' = unsaved /\ writes' = writes \union {w}
         /\ pc' = [pc EXCEPT ![p] = "migrated"]
      \/ /\ disk' = disk /\ writes' = writes /\ unsaved' = unsaved \union {p}
         /\ pc' = [pc EXCEPT ![p] = "down"]
  <2>1. w \notin writes
    BY <1>6, <1>7
  <2> QED BY <1>1, <1>5, <2>1 DEF AfterMigrate
<1>9. /\ pc' \in [Procs -> {"down", "load", "migrated", "up"}] /\ file' \in [Procs -> File]
      /\ pc'[p] \in {"migrated", "down"}
      /\ \A q \in Procs : q # p => pc'[q] = pc[q]
      /\ \A q \in Procs : file'[q] = IF q = p THEN f ELSE file[q]
  BY <1>2, <1>3, <1>8, TypesKnown
<1>10. ListsGood'
  BY <1>1, <1>2, <1>5, <1>9 DEF StoreInv, ListsGood
<1>11. StoreTypeOK'
  BY <1>1, <1>5, <1>9 DEF StoreInv, StoreTypeOK, WriteSet, GoodFile
<1>12. WritersInv'
  <2>1. p \notin unsaved
    BY <1>1 DEF StoreInv, WritersInv
  <2>2. \A q \in Procs : /\ pc'[q] = "up" => file'[q].hosts = hosts'[q]
                         /\ pc'[q] = "migrated" => file'[q].hosts = Old
    BY <1>1, <1>2, <1>9 DEF StoreInv, WritersInv
  <2>3. CASE /\ disk' = Empty /\ unsaved' = unsaved /\ writes' = writes \union {w}
             /\ pc' = [pc EXCEPT ![p] = "migrated"]
    <3>1. \A v \in writes' : v = w \/ (v \in writes /\ v.p \in Procs /\ v.p # p)
      BY <1>7, <2>3
    <3>2. pc'[p] = "migrated"
      BY <2>3, TypesKnown
    <3>3. \A v \in writes' : pc'[v.p] \in {"migrated", "up"} /\ (pc'[v.p] = "migrated" => v.by = "loop")
      BY <1>6, <1>9, <3>1, <3>2 DEF StoreInv, WritersInv
    <3>4. \A q \in Procs : pc'[q] \in {"load", "migrated"} => q \notin unsaved'
      BY <1>9, <2>1, <2>3 DEF StoreInv, WritersInv
    <3> QED BY <2>2, <3>3, <3>4 DEF WritersInv
  <2>4. CASE /\ disk' = disk /\ writes' = writes /\ unsaved' = unsaved \union {p}
             /\ pc' = [pc EXCEPT ![p] = "down"]
    <3>1. \A v \in writes' : v \in writes /\ v.p \in Procs /\ v.p # p
      BY <1>7, <2>4
    <3>2. pc'[p] = "down"
      BY <2>4, TypesKnown
    <3>3. \A v \in writes' : pc'[v.p] \in {"migrated", "up"} /\ (pc'[v.p] = "migrated" => v.by = "loop")
      BY <1>9, <3>1 DEF StoreInv, WritersInv
    <3>4. \A q \in Procs : pc'[q] \in {"load", "migrated"} => q \notin unsaved'
      BY <1>9, <2>4, <3>2 DEF StoreInv, WritersInv
    <3> QED BY <2>2, <3>3, <3>4 DEF WritersInv
  <2> QED BY <1>8, <2>3, <2>4
<1>13. AloneInv'
  <2> SUFFICES ASSUME ~shared', ~shared, writes = {} PROVE AloneInv'
    BY <1>5 DEF AloneInv
  <2>1. \A q \in Procs : q = p \/ pc[q] = "down"
    BY <1>1 DEF StoreInv, AloneInv
  <2>2. \A q \in Procs : q = p \/ pc'[q] = "down"
    BY <1>9, <2>1
  <2>3. CASE disk' = Empty /\ writes' = {w}
    <3>1. \A v \in writes' : v = w /\ v.file = file'[v.p] /\ disk' = Empty
      BY <1>6, <1>9, <2>3
    <3>2. \A q \in Procs : pc'[q] # "load" /\ writes' # {}
      BY <1>9, <2>2, <2>3
    <3> QED BY <2>2, <3>1, <3>2 DEF AloneInv
  <2>4. CASE writes' = {} /\ pc' = [pc EXCEPT ![p] = "down"]
    <3>1. \A q \in Procs : pc'[q] = "down"
      BY <2>2, <2>4, TypesKnown
    <3> QED BY <2>4, <3>1 DEF AloneInv
  <2> QED BY <1>8, <2>3, <2>4
<1> QED BY <1>10, <1>11, <1>12, <1>13 DEF StoreInv

\* The last step of the start: the store is read from the file in memory.
LEMMA StartStep ==
  ASSUME StoreInv, NEW p \in Procs, pc[p] \in {"load", "migrated"},
         pc[p] = "migrated" => ~Busy(p, "loop"),
         legacy' \in {"none", "old", "gone"}, pc' = [pc EXCEPT ![p] = "up"],
         hosts' = [hosts EXCEPT ![p] = file[p].hosts],
         UNCHANGED <<disk, file, writes, unsaved, shared, ops>>
  PROVE  StoreInv'
<1>1. file[p].hosts \in Seq(Host) /\ GoodList(file[p].hosts)
  BY TypesKnown DEF GoodFile, GoodList
<1>2. /\ hosts' \in [Procs -> Seq(Host)]
      /\ pc' \in [Procs -> {"down", "load", "migrated", "up"}]
      /\ \A q \in Procs : /\ pc'[q] = IF q = p THEN "up" ELSE pc[q]
                          /\ hosts'[q] = IF q = p THEN file[p].hosts ELSE hosts[q]
  BY <1>1, TypesKnown
<1>3. ListsGood'
  BY <1>1, <1>2 DEF StoreInv, ListsGood
<1>4. StoreTypeOK'
  BY <1>2 DEF StoreInv, StoreTypeOK
<1>5. WritersInv'
  <2>1. \A w \in writes : w.p \in Procs
    BY TypesKnown
  <2> QED BY <1>2, <2>1 DEF StoreInv, WritersInv
<1>6. AloneInv'
  <2> SUFFICES ASSUME ~shared PROVE AloneInv'
    BY DEF AloneInv
  <2>1. \A q \in Procs : q = p \/ pc[q] = "down"
    BY DEF StoreInv, AloneInv
  <2>2. \A q \in Procs : q = p \/ pc'[q] = "down"
    BY <1>2, <2>1
  <2>3. \A w \in writes : w.p = p
    BY <2>1, TypesKnown DEF StoreInv, WritersInv
  <2>4. writes = {}
    BY <2>3 DEF StoreInv, WritersInv, Busy
  <2>5. disk = file[p]
    BY <2>4 DEF StoreInv, WritersInv, AloneInv
  <2> QED BY <1>2, <2>2, <2>4, <2>5 DEF AloneInv
<1> QED BY <1>3, <1>4, <1>5, <1>6 DEF StoreInv

LEMMA ListStep ==
  ASSUME StoreInv, NEW p \in Procs, NEW by \in {"loop", "command"}, NEW list, GoodList(list),
         Change(p, by, list)
  PROVE  StoreInv'
<1> DEFINE f == [file[p] EXCEPT !.hosts = list]
<1>1. /\ pc[p] = "up" /\ ops < MaxOps /\ ops' = ops + 1 /\ hosts' = [hosts EXCEPT ![p] = list]
      /\ file' = [file EXCEPT ![p].hosts = list] /\ Save(p, by, file'[p])
      /\ UNCHANGED <<legacy, pc>>
  BY DEF Change
<1>2. GoodFile(file[p])
  BY TypesKnown
<1> HIDE DEF f
<1>3. GoodFile(f) /\ f.hosts = list
  BY <1>2, FileFits DEF f
<1>4. file' = [file EXCEPT ![p] = f]
  BY <1>1 DEF f
<1>5. file'[p] = f
  BY <1>4, TypesKnown
<1>6. ops' \in 0..MaxOps
  BY <1>1, StoreAssumption DEF StoreInv, StoreTypeOK
<1> QED BY <1>1, <1>3, <1>4, <1>5, <1>6, ChangeStep

\* Every change of the hosts leaves a good list, with the marks that were in it.
LEMMA HostChanged ==
  ASSUME StoreInv, NEW p \in Procs, HostChange(p)
  PROVE  \E list : /\ GoodList(list) /\ Change(p, "loop", list)
                   /\ \A i \in DOMAIN hosts[p] :
                        i \in DOMAIN list /\ list[i].readOnly = hosts[p][i].readOnly
<1>1. GoodList(hosts[p]) /\ hosts[p] \in Seq(Host)
  BY TypesKnown DEF GoodList
<1>a. ASSUME NEW h \in Host, h = Normalized(h), Called(hosts[p], h.name) = {}
      PROVE  /\ GoodList(Append(hosts[p], h))
             /\ \A i \in DOMAIN hosts[p] :
                  i \in DOMAIN Append(hosts[p], h) /\ Append(hosts[p], h)[i] = hosts[p][i]
  <2>1. GoodList(Append(hosts[p], h))
    BY <1>1, <1>a, AppendGood
  <2>2. Len(hosts[p]) \in Nat /\ DOMAIN hosts[p] = 1..Len(hosts[p])
    BY <1>1
  <2> QED BY <1>1, <2>1, <2>2, AppendProperties
<1>2. ASSUME NEW b \in Bases, NEW url \in Urls, AddHost(p, FormHost(b, url, "key"))
      PROVE  \E list : /\ GoodList(list) /\ Change(p, "loop", list)
                       /\ \A i \in DOMAIN hosts[p] :
                            i \in DOMAIN list /\ list[i].readOnly = hosts[p][i].readOnly
  <2> DEFINE h == FormHost(b, url, "key")
  <2>1. h \in Host /\ h = Normalized(h)
    BY HostMade
  <2>2. Called(hosts[p], h.name) = {} /\ Change(p, "loop", Append(hosts[p], h))
    BY <1>2 DEF AddHost
  <2> HIDE DEF h
  <2> QED BY <1>a, <2>1, <2>2
<1>3. ASSUME NEW b \in Bases, NEW url \in Urls, NEW name \in Names,
             Edit(p, name, FormHost(b, url, "key"))
      PROVE  \E list : /\ GoodList(list) /\ Change(p, "loop", list)
                       /\ \A i \in DOMAIN hosts[p] :
                            i \in DOMAIN list /\ list[i].readOnly = hosts[p][i].readOnly
  <2> DEFINE h == FormHost(b, url, "key")
  <2>1. h \in Host
    BY HostMade
  <2>2. MayEdit(hosts[p], name, h) /\ Change(p, "loop", EditHost(hosts[p], name, h))
    BY <1>3 DEF Edit
  <2> HIDE DEF h
  <2> QED BY <1>1, <2>1, <2>2, EditGood
<1>4. ASSUME NEW url \in Urls, Remember(p, url)
      PROVE  \E list : /\ GoodList(list) /\ Change(p, "loop", list)
                       /\ \A i \in DOMAIN hosts[p] :
                            i \in DOMAIN list /\ list[i].readOnly = hosts[p][i].readOnly
  <2>1. PICK b \in Bases :
          Change(p, "loop", Append(hosts[p], [FormHost(b, url, "none") EXCEPT !.name = UniqueName(hosts[p], b)]))
    BY <1>4 DEF Remember
  <2> DEFINE u == UniqueName(hosts[p], b)
             f == FormHost(b, url, "none")
             h == [f EXCEPT !.name = u]
  <2>2. u \in Names /\ Called(hosts[p], u) = {}
    BY <1>1, <1>4, NumberedName DEF Remember
  <2>3. f \in Host /\ f = Normalized(f)
    BY HostMade
  <2> HIDE DEF u, f
  <2>4. h \in Host /\ h = Normalized(h) /\ h.name = u
    BY <2>2, <2>3, RenamedHost
  <2>5. Change(p, "loop", Append(hosts[p], h))
    BY <2>1 DEF u, f
  <2> HIDE DEF h
  <2> QED BY <1>a, <2>2, <2>4, <2>5
<1>5. ASSUME NEW b \in Bases, NEW c \in Bases, NEW tls \in BOOLEAN,
             ImportContexts(p, ContextHost(b, "tcp", tls), ContextHost(c, "ssh", FALSE))
      PROVE  \E list : /\ GoodList(list) /\ Change(p, "loop", list)
                       /\ \A i \in DOMAIN hosts[p] :
                            i \in DOMAIN list /\ list[i].readOnly = hosts[p][i].readOnly
  <2> DEFINE h == ContextHost(b, "tcp", tls)
             g == ContextHost(c, "ssh", FALSE)
             one == Imported(hosts[p], h)
             two == Imported(one, g)
  <2>1. /\ h \in Host /\ h = Normalized(h) /\ h.name[1] \in Bases
        /\ g \in Host /\ g = Normalized(g) /\ g.name[1] \in Bases
    <3>1. "tcp" \in Urls /\ "ssh" \in Urls /\ FALSE \in BOOLEAN
      BY DEF Urls
    <3>2. h \in Host /\ h = Normalized(h) /\ h.name = Name(b, 1)
      BY <3>1, HostMade
    <3>3. g \in Host /\ g = Normalized(g) /\ g.name = Name(c, 1)
      BY <3>1, HostMade
    <3> HIDE DEF h, g
    <3> QED BY <3>2, <3>3 DEF Name
  <2>2. Len(two) <= MaxHosts /\ Change(p, "loop", two)
    BY <1>5 DEF ImportContexts
  <2> HIDE DEF h, g
  <2>3. /\ Len(one) \in Nat
        /\ \A i \in DOMAIN hosts[p] : i \in DOMAIN one /\ one[i] = hosts[p][i]
    BY <1>1, ImportedKeeps
  <2> DEFINE k == [h EXCEPT !.name = UniqueName(hosts[p], h.name[1])]
             S == Host \union {k}
  <2>4. one = hosts[p] \/ one = Append(hosts[p], k)
    BY DEF Imported
  <2>5. one \in Seq(S)
    <3> HIDE DEF one, k
    <3>1. hosts[p] \in Seq(Host)
      BY <1>1
    <3>2. hosts[p] \in Seq(S)
      <4>1. \A i \in DOMAIN hosts[p] : hosts[p][i] \in S
        BY <3>1
      <4> HIDE DEF S
      <4> QED BY <3>1, <4>1
    <3>3. Append(hosts[p], k) \in Seq(S)
      BY <3>2
    <3> QED BY <2>4, <3>2, <3>3
  <2> HIDE DEF one, k, S
  <2>9. Len(two) \in Nat /\ Len(one) <= Len(two) /\ \A i \in DOMAIN one : i \in DOMAIN two /\ two[i] = one[i]
    BY <2>5, ImportedKeeps
  <2>6. Len(one) <= MaxHosts
    BY <2>2, <2>3, <2>9, StoreAssumption
  <2>7. GoodList(one)
    BY <1>1, <2>1, <2>6, ImportedGood DEF one
  <2>8. GoodList(two)
    BY <2>1, <2>2, <2>7, ImportedGood
  <2> HIDE DEF two
  <2> QED BY <2>2, <2>3, <2>8, <2>9
<1> QED BY <1>2, <1>3, <1>4, <1>5 DEF HostChange

LEMMA StoreStep == StoreInv /\ [StoreNext]_storeVars => StoreInv'
<1> SUFFICES ASSUME StoreInv, [StoreNext]_storeVars PROVE StoreInv'
  OBVIOUS
<1>1. ASSUME NEW p \in Procs, Load(p) PROVE StoreInv'
  BY <1>1, LoadStep
<1>2. ASSUME NEW p \in Procs, Migrate(p) PROVE StoreInv'
  BY <1>2, MigrateStep
<1>3. ASSUME NEW p \in Procs, Rename(p) PROVE StoreInv'
  <2>1. legacy' \in {"none", "old", "gone"}
    BY <1>3 DEF Rename, StoreInv, StoreTypeOK
  <2> QED BY <1>3, <2>1, StartStep DEF Rename
<1>4. ASSUME NEW p \in Procs, Started(p) PROVE StoreInv'
  <2>1. legacy' \in {"none", "old", "gone"}
    BY <1>4 DEF Started, StoreInv, StoreTypeOK
  <2> QED BY <1>4, <2>1, StartStep DEF Started
<1>5. ASSUME NEW p \in Procs, Crash(p) PROVE StoreInv'
  BY <1>5, CrashStep
<1>6. ASSUME NEW p \in Procs, HostChange(p) PROVE StoreInv'
  <2>1. PICK list : GoodList(list) /\ Change(p, "loop", list)
    BY <1>6, HostChanged
  <2> QED BY <2>1, ListStep
<1>7. ASSUME NEW p \in Procs, Removal(p) PROVE StoreInv'
  <2>1. PICK name \in Names, by \in {"loop", "command"} : RemoveHost(p, by, name)
    BY <1>7 DEF Removal
  <2> DEFINE m == Min(Called(hosts[p], name))
  <2>2. Called(hosts[p], name) # {} /\ Change(p, by, RemoveAt(hosts[p], m))
    BY <2>1 DEF RemoveHost
  <2>3. GoodList(hosts[p])
    BY TypesKnown
  <2>4. m \in DOMAIN hosts[p]
    BY <2>2, <2>3, OneCalled
  <2> HIDE DEF m
  <2>5. GoodList(RemoveAt(hosts[p], m))
    BY <2>3, <2>4, RemoveGood
  <2> QED BY <2>2, <2>5, ListStep
<1>8. ASSUME NEW p \in Procs, NEW theme \in Themes, SetTheme(p, theme) PROVE StoreInv'
  <2> DEFINE f == [file[p] EXCEPT !.theme = theme]
  <2>1. /\ pc[p] = "up" /\ ops < MaxOps /\ ops' = ops + 1
        /\ file' = [file EXCEPT ![p].theme = theme] /\ Save(p, "loop", file'[p])
        /\ UNCHANGED <<legacy, pc, hosts>>
    BY <1>8 DEF SetTheme
  <2>2. GoodFile(file[p])
    BY TypesKnown
  <2> HIDE DEF f
  <2>3. GoodFile(f) /\ f.hosts = file[p].hosts
    BY <2>2, ThemeFits DEF f
  <2>4. file' = [file EXCEPT ![p] = f]
    BY <2>1 DEF f
  <2>5. file'[p] = f
    BY <2>4, TypesKnown
  <2>6. ops' \in 0..MaxOps
    BY <2>1, StoreAssumption DEF StoreInv, StoreTypeOK
  <2>7. hosts' = [hosts EXCEPT ![p] = f.hosts]
    <3>1. f.hosts = hosts[p]
      BY <2>1, <2>3 DEF StoreInv, WritersInv
    <3> QED BY <2>1, <3>1, TypesKnown
  <2> QED BY <2>1, <2>3, <2>4, <2>5, <2>6, <2>7, ChangeStep
<1>9. ASSUME NEW w \in writes, FinishWrite(w) PROVE StoreInv'
  BY <1>9, FinishWriteStep
<1>10. CASE UNCHANGED storeVars
  BY <1>10 DEF storeVars, StoreInv, StoreTypeOK, ListsGood, WritersInv, AloneInv
<1> QED BY <1>1, <1>2, <1>3, <1>4, <1>5, <1>6, <1>7, <1>8, <1>9, <1>10 DEF StoreNext

LEMMA StoreStart == StoreInit => StoreInv
<1> SUFFICES ASSUME StoreInit PROVE StoreInv
  OBVIOUS
<1>1. Empty \in File /\ <<>> \in Seq(Host) /\ Empty.hosts = <<>>
  BY EmptyFits DEF GoodFile, Empty
<1>2. /\ disk = Empty /\ legacy \in {"none", "old"} /\ writes = {} /\ unsaved = {}
      /\ shared = FALSE /\ ops = 0
      /\ \A p \in Procs : pc[p] = "down" /\ hosts[p] = <<>> /\ file[p] = Empty
      /\ hosts \in [Procs -> Seq(Host)] /\ file \in [Procs -> File]
      /\ pc \in [Procs -> {"down", "load", "migrated", "up"}]
  BY <1>1 DEF StoreInit
<1>3. StoreTypeOK
  <2>1. disk \in File \union {Torn} /\ legacy \in {"none", "old", "gone"}
    BY <1>1, <1>2
  <2>2. \A p \in Procs : hosts[p] \in Seq(Host) /\ file[p] \in File
    BY <1>1, <1>2
  <2>3. writes \subseteq [p : Procs, by : {"loop", "command"}, file : File]
    BY <1>2
  <2>4. unsaved \subseteq Procs /\ shared \in BOOLEAN
    BY <1>2
  <2>5. ops \in 0..MaxOps
    BY <1>2, StoreAssumption
  <2> QED BY <1>2, <2>1, <2>2, <2>3, <2>4, <2>5 DEF StoreTypeOK
<1>4. ListsGood
  BY <1>2, EmptyFits, EmptyGood DEF ListsGood
<1>5. WritersInv /\ AloneInv
  BY <1>2 DEF WritersInv, AloneInv
<1> QED BY <1>3, <1>4, <1>5 DEF StoreInv

LEMMA StoreSuffices == StoreInv => HostsRight
<1> SUFFICES ASSUME StoreInv PROVE HostsRight
  OBVIOUS
<1>1. ASSUME NEW list, GoodList(list), NEW i \in DOMAIN list
      PROVE  Called(list, list[i].name) = {i} /\ list[i] = Normalized(list[i])
  BY <1>1 DEF GoodList, Called
<1>2. NamesUnique
  <2>1. \A p \in Procs : GoodList(hosts[p])
    BY TypesKnown
  <2>2. disk # Torn => GoodList(disk.hosts)
    BY TypesKnown DEF GoodFile
  <2> QED BY <1>1, <2>1, <2>2 DEF NamesUnique
<1>3. FileIsCurrent
  <2> SUFFICES ASSUME NEW p \in Procs, pc[p] = "up", ~shared, writes = {}, p \notin unsaved
               PROVE  disk = [theme |-> file[p].theme, hosts |-> hosts[p]]
    BY DEF FileIsCurrent
  <2>1. disk = file[p] /\ file[p].hosts = hosts[p]
    BY DEF StoreInv, AloneInv, WritersInv
  <2>2. file[p] \in File
    BY TypesKnown
  <2> QED BY <2>1, <2>2 DEF File
<1> QED BY <1>2, <1>3 DEF HostsRight, StoreInv

\* Load, Save, the migration and every change keep the store's invariant.
THEOREM StoreInvariance == StoreSpec => []StoreInv
<1> QED BY StoreStart, StoreStep, PTL DEF StoreSpec

\* Store.Add, EditHost, Remove, Import and settings.Save: a name stands for one
\* host wherever a list is kept, and the file is what the user of a process that
\* is alone sees.
THEOREM HostsCorrect == StoreSpec => []HostsRight
<1> QED BY StoreInvariance, StoreSuffices, PTL

\* EditHost carries the read-only mark over, and migrateLegacyHosts puts the old
\* file aside only when its hosts are in the new one.
THEOREM NothingIsLost == StoreSpec => NothingLost
<1>1. StoreInv /\ [StoreNext]_storeVars =>
        [\A p \in Procs : (pc[p] = "up" /\ HostChange(p)) =>
           \A i \in DOMAIN hosts[p] :
             hosts[p][i].readOnly => i \in DOMAIN hosts'[p] /\ hosts'[p][i].readOnly]_storeVars
  <2> SUFFICES ASSUME StoreInv, NEW p \in Procs, HostChange(p), NEW i \in DOMAIN hosts[p],
                      hosts[p][i].readOnly
               PROVE  i \in DOMAIN hosts'[p] /\ hosts'[p][i].readOnly
    OBVIOUS
  <2>1. PICK list : /\ GoodList(list) /\ Change(p, "loop", list)
                    /\ i \in DOMAIN list /\ list[i].readOnly = hosts[p][i].readOnly
    BY HostChanged
  <2>2. hosts'[p] = list
    BY <2>1, TypesKnown DEF Change
  <2> QED BY <2>1, <2>2
<1>2. StoreInv /\ [StoreNext]_storeVars =>
        [(legacy' # legacy /\ ~shared) => disk.hosts = Old]_storeVars
  <2> SUFFICES ASSUME StoreInv, [StoreNext]_storeVars, legacy' # legacy, ~shared
               PROVE  disk.hosts = Old
    OBVIOUS
  <2>a. \A p \in Procs : ~Load(p) /\ ~Migrate(p) /\ ~Started(p) /\ ~Crash(p)
    BY DEF Load, Migrate, Started, Crash
  <2>b. \A p, by, list : ~Change(p, by, list)
    BY DEF Change
  <2>c. \A p \in Procs : ~HostChange(p)
    BY <2>b, HostChanged
  <2>d. \A p \in Procs : ~Removal(p)
    BY <2>b DEF Removal, RemoveHost
  <2>e. \A p \in Procs : \A theme \in Themes : ~SetTheme(p, theme)
    BY DEF SetTheme
  <2>f. (\A w \in writes : ~FinishWrite(w)) /\ ~UNCHANGED storeVars
    BY DEF FinishWrite, storeVars
  <2>1. PICK p \in Procs : Rename(p)
    BY <2>a, <2>c, <2>d, <2>e, <2>f DEF StoreNext
  <2>2. pc[p] = "migrated" /\ ~Busy(p, "loop")
    BY <2>1 DEF Rename
  <2>3. \A w \in writes : w.p = p
    BY <2>2, TypesKnown DEF StoreInv, WritersInv, AloneInv
  <2>4. writes = {}
    BY <2>2, <2>3 DEF StoreInv, WritersInv, Busy
  <2> QED BY <2>2, <2>4 DEF StoreInv, WritersInv, AloneInv
<1> QED BY <1>1, <1>2, StoreInvariance, PTL DEF StoreSpec, NothingLost, ReadOnlyStays, ImportedBeforeGone

-----------------------------------------------------------------------------
(* The operations whose output is relayed. *)

Early == {"say", "copy", "write", "wait", "starting", "start", "head", "banner", "open"}
Streaming == {"publish", "check", "relay", "pass"}

PlacesOf(e) ==
  IF e = "restore"
  THEN {"say", "copy", "write", "wait", "starting", "failed", "start", "end", "over"}
         \union Streaming
  ELSE IF e = "tasks"
  THEN {"head", "banner", "start", "failed", "action", "done", "next", "last", "end", "over"}
         \union Streaming
  ELSE {"open", "gather", "over"}

RelayTypes ==
  /\ proc \in [Streams -> {"none", "running", "gone"}]
  /\ lines \in [Streams -> 0..MaxLines]
  /\ pipe \in [Streams -> [Pipes -> 0..1]]
  /\ strip \in [Streams -> {"none", "read", "write", "end"}]
  /\ scan \in [Streams -> [Pipes -> {"read", "send", "end"}]]
  /\ waiter \in [Streams -> {"wait", "error", "stop", "over"}]
  /\ chan \in [Streams -> 0..Cap]
  /\ fwd \in [Streams -> {"range", "send", "end"}]

\* Where the operation's goroutine can be, and what done says of it.
PlaceInv ==
  /\ at \in PlacesOf(engine)
  /\ at = "open" => user = "reads"
  /\ (done /\ user = "reads") => engine # "logs" /\ at = "over"
  /\ engine # "logs" => \A s \in Streams : fwd[s] = "end"
  /\ at = "over" => \A s \in Streams : fwd[s] = "end"

Unstarted(s) ==
  at \notin {"end", "over"} /\ (s > task \/ (s = task /\ at \in Early))

StreamInv(s) ==
  /\ waiter[s] # "wait" => Scanned(s) /\ proc[s] # "running"
  /\ engine = "logs" => pipe[s]["stderr"] = 0
  /\ strip[s] # "none" => engine = "logs"
  /\ Unstarted(s) => strip[s] = "none" /\ waiter[s] = "over" /\ fwd[s] = "end"

\* As long as the user reads nothing is dropped.
Quiet(s) ==
  IF engine = "logs" THEN fwd[s] = "end" ELSE s # task \/ at \notin Streaming
WholeInv(s) ==
  /\ s \in stopped => waiter[s] = "over" /\ ~Unstarted(s)
  /\ \A p \in Pipes : (strip[s] = "none" /\ scan[s][p] = "end")
                        => pipe[s][p] = 0 /\ proc[s] # "running"
  /\ strip[s] = "end" => pipe[s]["stdout"] = 0 /\ proc[s] # "running"
  /\ (strip[s] # "none" /\ scan[s]["stdout"] = "end") => strip[s] = "end"
  /\ Quiet(s) => waiter[s] = "over" /\ chan[s] = 0

RunningInv(s) ==
  proc[s] = "running" =>
    IF engine = "logs" THEN user # "left" ELSE s = task /\ at \in Streaming

Bit(b) == IF b THEN 1 ELSE 0
\* The lines a stream still holds.
Held(s) ==
  pipe[s]["stdout"] + pipe[s]["stderr"] + Bit(strip[s] = "write")
   + Bit(scan[s]["stdout"] = "send") + Bit(scan[s]["stderr"] = "send")
   + Bit(waiter[s] = "error") + chan[s] + Bit(fwd[s] = "send")
InFlight == [s \in Streams |-> Held(s)]
\* total is the sum of f over all streams: g has the sums up to each.
SumsTo(f, total) ==
  \E g \in [0..N -> Int] :
    /\ g[0] = 0 /\ g[N] = total
    /\ \A s \in Streams : g[s] = g[s - 1] + f[s]
Accounted == user = "reads" => SumsTo(InFlight, due - got - out - Bit(at = "pass"))

RelayInv ==
  /\ RelayTypeOK /\ RelayTypes /\ PlaceInv /\ Accounted
  /\ \A s \in Streams : StreamInv(s) /\ RunningInv(s) /\ (user = "reads" => WholeInv(s))

-----------------------------------------------------------------------------
(* Sums over the streams. *)

LEMMA StreamNumbers == N \in Nat /\ N # 0 /\ Streams = 1..N
<1>1. IsFiniteSet(Streams) /\ Streams # {} /\ Streams = 1..N
  BY RelayAssumption DEF N
<1>2. N \in Nat
  BY <1>1, FS_CardinalityType DEF N
<1> QED BY <1>1, <1>2

LEMMA SumChanges ==
  ASSUME NEW f \in [Streams -> Int], NEW h \in [Streams -> Int], NEW total \in Int,
         SumsTo(f, total), NEW s \in Streams, \A t \in Streams : t # s => h[t] = f[t]
  PROVE  SumsTo(h, total + h[s] - f[s])
<1>1. N \in Nat /\ Streams = 1..N
  BY StreamNumbers
<1>2. PICK g \in [0..N -> Int] :
        g[0] = 0 /\ g[N] = total /\ \A t \in Streams : g[t] = g[t - 1] + f[t]
  BY DEF SumsTo
<1> DEFINE d == h[s] - f[s]
           k == [i \in 0..N |-> IF i < s THEN g[i] ELSE g[i] + d]
<1>3. d \in Int
  OBVIOUS
<1>a. \A i \in 0..N : g[i] \in Int
  BY <1>2
<1>4. k \in [0..N -> Int] /\ k[0] = 0 /\ k[N] = total + d
  <2> HIDE DEF d
  <2>1. \A i \in 0..N : k[i] \in Int
    BY <1>a, <1>3
  <2>2. k[0] = 0 /\ k[N] = total + d
    BY <1>1, <1>2, <1>3
  <2> QED BY <2>1, <2>2
<1>5. ASSUME NEW t \in Streams PROVE k[t] = k[t - 1] + h[t]
  <2>1. t \in 0..N /\ t - 1 \in 0..N
    BY <1>1
  <2>2. g[t] = g[t - 1] + f[t]
    BY <1>2
  <2>3. CASE t = s
    BY <1>2, <2>1, <2>2, <2>3
  <2>4. CASE t # s
    <3>1. h[t] = f[t] /\ f[t] \in Int /\ g[t] \in Int /\ g[t - 1] \in Int
      BY <1>a, <2>1, <2>4
    <3>2. CASE t < s
      BY <1>1, <2>1, <2>2, <3>1, <3>2
    <3>3. CASE t > s
      <4>1. ~(t < s) /\ ~(t - 1 < s)
        BY <1>1, <3>3
      <4>2. k[t] = g[t] + d /\ k[t - 1] = g[t - 1] + d
        BY <2>1, <4>1
      <4> HIDE DEF k, d
      <4> QED BY <1>3, <2>2, <3>1, <4>2
    <3> QED BY <1>1, <2>4, <3>2, <3>3
  <2> QED BY <2>3, <2>4
<1>6. total + d = total + h[s] - f[s]
  OBVIOUS
<1> HIDE DEF k, d
<1> QED BY <1>4, <1>5, <1>6 DEF SumsTo

LEMMA SumSame ==
  ASSUME NEW f \in [Streams -> Int], NEW h \in [Streams -> Int], NEW total,
         SumsTo(f, total), \A t \in Streams : h[t] = f[t]
  PROVE  SumsTo(h, total)
BY DEF SumsTo

\* Of numbers that are not negative, the sum is not; of zeros it is zero.
LEMMA SumSigned ==
  ASSUME NEW f \in [Streams -> Nat], NEW total, SumsTo(f, total)
  PROVE  total \in Nat /\ ((\A t \in Streams : f[t] = 0) => total = 0)
<1>1. N \in Nat /\ Streams = 1..N
  BY StreamNumbers
<1>2. PICK g \in [0..N -> Int] :
        g[0] = 0 /\ g[N] = total /\ \A t \in Streams : g[t] = g[t - 1] + f[t]
  BY DEF SumsTo
<1> DEFINE Zero == \A t \in Streams : f[t] = 0
           S == {n \in Nat : n <= N => g[n] >= 0 /\ (Zero => g[n] = 0)}
<1> HIDE DEF Zero
<1>3. 0 \in S
  BY <1>2
<1>4. ASSUME NEW n \in S PROVE n + 1 \in S
  <2>1. CASE n + 1 <= N
    <3>1. n + 1 \in Streams /\ (n + 1) - 1 = n /\ n \in 0..N /\ n + 1 \in 0..N
      BY <1>1, <2>1
    <3>2. g[n + 1] = g[n] + f[n + 1] /\ g[n] \in Int /\ f[n + 1] \in Nat
      BY <1>2, <3>1
    <3>3. Zero => f[n + 1] = 0
      BY <3>1 DEF Zero
    <3>4. n <= N
      BY <1>1, <2>1
    <3> QED BY <3>2, <3>3, <3>4
  <2>2. CASE ~(n + 1 <= N)
    BY <2>2
  <2> QED BY <2>1, <2>2
<1>5. S = Nat
  <2> HIDE DEF S
  <2>1. S \in SUBSET Nat
    BY DEF S
  <2> QED BY <1>3, <1>4, <2>1, SetInduction
<1>6. N \in S
  BY <1>1, <1>5
<1>7. g[N] \in Int
  BY <1>1, <1>2
<1> QED BY <1>1, <1>2, <1>6, <1>7 DEF Zero

-----------------------------------------------------------------------------
(* What a step leaves alone. *)

Same(t) ==
  /\ proc'[t] = proc[t] /\ pipe'[t] = pipe[t] /\ strip'[t] = strip[t]
  /\ scan'[t] = scan[t] /\ waiter'[t] = waiter[t] /\ chan'[t] = chan[t]
  /\ fwd'[t] = fwd[t]

LEMMA HeldTyped ==
  ASSUME RelayTypes, NEW t \in Streams
  PROVE  Held(t) \in Nat
<1>1. pipe[t] \in [Pipes -> 0..1] /\ chan[t] \in 0..Cap
  BY DEF RelayTypes
<1>2. pipe[t]["stdout"] \in Nat /\ pipe[t]["stderr"] \in Nat /\ chan[t] \in Nat
  BY <1>1, RelayAssumption DEF Pipes
<1>3. /\ Bit(strip[t] = "write") \in Nat /\ Bit(scan[t]["stdout"] = "send") \in Nat
      /\ Bit(scan[t]["stderr"] = "send") \in Nat /\ Bit(waiter[t] = "error") \in Nat
      /\ Bit(fwd[t] = "send") \in Nat
  BY DEF Bit
<1> QED BY <1>2, <1>3 DEF Held

LEMMA HeldTypedNext ==
  ASSUME RelayTypes', NEW t \in Streams
  PROVE  Held(t)' \in Nat
<1>1. pipe'[t] \in [Pipes -> 0..1] /\ chan'[t] \in 0..Cap
  BY DEF RelayTypes
<1>2. pipe'[t]["stdout"] \in Nat /\ pipe'[t]["stderr"] \in Nat /\ chan'[t] \in Nat
  BY <1>1, RelayAssumption DEF Pipes
<1>3. /\ Bit(strip'[t] = "write") \in Nat /\ Bit(scan'[t]["stdout"] = "send") \in Nat
      /\ Bit(scan'[t]["stderr"] = "send") \in Nat /\ Bit(waiter'[t] = "error") \in Nat
      /\ Bit(fwd'[t] = "send") \in Nat
  BY DEF Bit
<1> QED BY <1>2, <1>3 DEF Held

LEMMA HeldParts ==
  ASSUME RelayTypes, NEW t \in Streams
  PROVE  /\ pipe[t]["stdout"] \in Nat /\ pipe[t]["stderr"] \in Nat /\ chan[t] \in Nat
         /\ Bit(strip[t] = "write") \in Nat /\ Bit(scan[t]["stdout"] = "send") \in Nat
         /\ Bit(scan[t]["stderr"] = "send") \in Nat /\ Bit(waiter[t] = "error") \in Nat
         /\ Bit(fwd[t] = "send") \in Nat
<1>1. pipe[t] \in [Pipes -> 0..1] /\ chan[t] \in 0..Cap
  BY DEF RelayTypes
<1> QED BY <1>1, RelayAssumption DEF Pipes, Bit

\* An entry of a table of the pipes.
LEMMA CellSet ==
  ASSUME NEW V, NEW table \in [Streams -> [Pipes -> V]], NEW s \in Streams, NEW p \in Pipes,
         NEW v \in V
  PROVE  LET new == [table EXCEPT ![s][p] = v] IN
         /\ new \in [Streams -> [Pipes -> V]] /\ new[s][p] = v
         /\ \A q \in Pipes : q # p => new[s][q] = table[s][q]
         /\ \A t \in Streams : t # s => new[t] = table[t]
OBVIOUS

LEMMA StreamKept ==
  ASSUME NEW t \in Streams, Same(t), engine' = engine,
         StreamInv(t), RunningInv(t), user = "reads" => WholeInv(t),
         Unstarted(t)' => Unstarted(t), t \in stopped' => t \in stopped,
         user' = "reads" => user = "reads" /\ (Quiet(t)' => Quiet(t)),
         proc[t] = "running" => IF engine = "logs" THEN user' # "left"
                                ELSE t = task' /\ at' \in Streaming
  PROVE  StreamInv(t)' /\ RunningInv(t)' /\ (user' = "reads" => WholeInv(t)') /\ Held(t)' = Held(t)
<1>1. StreamInv(t)'
  BY DEF StreamInv, Same, Scanned
<1>2. RunningInv(t)'
  BY DEF RunningInv, Same
<1>3. user' = "reads" => WholeInv(t)'
  BY DEF WholeInv, Same
<1>4. Held(t)' = Held(t)
  BY DEF Held, Same
<1> QED BY <1>1, <1>2, <1>3, <1>4

\* A step that moves the lines of one stream, or none, and keeps the rest.
LEMMA InvNext ==
  ASSUME RelayInv, NEW s \in Streams, RelayTypes', PlaceInv', engine' = engine,
         at' \in Places, task' \in Streams, active' \in Streams \union {0}, done' \in BOOLEAN,
         user' \in {"reads", "stopping", "left"}, out' \in 0..Cap, stopped' \in SUBSET Streams,
         due' \in Nat, got' \in 0..due',
         \A t \in Streams : StreamInv(t)' /\ RunningInv(t)' /\ (user' = "reads" => WholeInv(t)'),
         user' = "reads" =>
           /\ user = "reads" /\ \A t \in Streams : t # s => Held(t)' = Held(t)
           /\ Held(s)' - Held(s) = (due' - got' - out' - Bit(at' = "pass"))
                                    - (due - got - out - Bit(at = "pass"))
  PROVE  RelayInv'
<1>1. Accounted'
  <2> SUFFICES ASSUME user' = "reads"
               PROVE  SumsTo(InFlight', due' - got' - out' - Bit(at' = "pass"))
    BY DEF Accounted, SumsTo, N
  <2> DEFINE total == due - got - out - Bit(at = "pass")
             new == due' - got' - out' - Bit(at' = "pass")
  <2>1. total \in Int /\ new \in Int
    <3>1. due \in Int /\ got \in Int /\ out \in Int /\ due' \in Int /\ got' \in Int /\ out' \in Int
      BY DEF RelayInv, RelayTypeOK
    <3>2. Bit(at = "pass") \in Int /\ Bit(at' = "pass") \in Int
      BY DEF Bit
    <3> QED BY <3>1, <3>2
  <2>2. \A t \in Streams : Held(t) \in Int /\ Held(t)' \in Int
    <3>1. \A t \in Streams : Held(t) \in Nat
      BY HeldTyped DEF RelayInv
    <3>2. \A t \in Streams : Held(t)' \in Nat
      BY HeldTypedNext
    <3> QED BY <3>1, <3>2
  <2>3. InFlight \in [Streams -> Int] /\ InFlight' \in [Streams -> Int]
    BY <2>2 DEF InFlight
  <2>4. SumsTo(InFlight, total)
    BY DEF RelayInv, Accounted
  <2>5. \A t \in Streams : t # s => InFlight'[t] = InFlight[t]
    BY DEF InFlight
  <2>6. Held(s)' - Held(s) = new - total
    OBVIOUS
  <2> HIDE DEF total, new
  <2>7. SumsTo(InFlight', total + InFlight'[s] - InFlight[s])
    BY <2>1, <2>3, <2>4, <2>5, SumChanges
  <2>8. InFlight'[s] = Held(s)' /\ InFlight[s] = Held(s)
    BY DEF InFlight
  <2>9. total + InFlight'[s] - InFlight[s] = new
    BY <2>1, <2>2, <2>6, <2>8
  <2> QED BY <2>7, <2>9 DEF new
<1>2. RelayTypeOK'
  <2>1. \A t \in Streams :
          /\ proc'[t] \in {"none", "running", "gone"}
          /\ lines'[t] \in 0..MaxLines /\ chan'[t] \in 0..Cap
          /\ strip'[t] \in {"none", "read", "write", "end"}
          /\ waiter'[t] \in {"wait", "error", "stop", "over"}
          /\ fwd'[t] \in {"range", "send", "end"}
          /\ \A p \in Pipes : /\ pipe'[t][p] \in 0..1
                              /\ scan'[t][p] \in {"read", "send", "end"}
    BY DEF RelayTypes
  <2>2. engine' \in Engines
    BY DEF RelayInv, RelayTypeOK
  <2> QED BY <2>1, <2>2 DEF RelayTypeOK
<1> QED BY <1>1, <1>2 DEF RelayInv

\* A step of one stream.
LEMMA StreamChange ==
  ASSUME RelayInv, NEW s \in Streams, RelayTypes', PlaceInv',
         UNCHANGED <<engine, at, task, active, done, user, got>>,
         out' \in 0..Cap, due' \in Nat, due' >= due, stopped' \in SUBSET Streams,
         \A t \in Streams : t # s => Same(t) /\ (t \in stopped' => t \in stopped),
         StreamInv(s)', RunningInv(s)', user = "reads" => WholeInv(s)',
         user = "reads" => Held(s)' - Held(s) = (due' - out') - (due - out)
  PROVE  RelayInv'
<1>1. ASSUME NEW t \in Streams
      PROVE  /\ StreamInv(t)' /\ RunningInv(t)' /\ (user' = "reads" => WholeInv(t)')
             /\ t # s => Held(t)' = Held(t)
  <2>1. CASE t = s
    BY <2>1
  <2>2. CASE t # s
    <3>1. Same(t) /\ (t \in stopped' => t \in stopped)
      BY <2>2
    <3>2. StreamInv(t) /\ RunningInv(t) /\ (user = "reads" => WholeInv(t))
      BY DEF RelayInv
    <3>3. (Unstarted(t)' => Unstarted(t)) /\ (Quiet(t)' => Quiet(t))
      BY <3>1 DEF Unstarted, Quiet, Same
    <3>4. proc[t] = "running" => IF engine = "logs" THEN user' # "left"
                                 ELSE t = task' /\ at' \in Streaming
      BY <3>2 DEF RunningInv
    <3> QED BY <3>1, <3>2, <3>3, <3>4, StreamKept
  <2> QED BY <2>1, <2>2
<1>2. /\ at' \in Places /\ task' \in Streams /\ active' \in Streams \union {0}
      /\ done' \in BOOLEAN /\ user' \in {"reads", "stopping", "left"} /\ got' \in 0..due'
  BY DEF RelayInv, RelayTypeOK
<1>3. user' = "reads" => Held(s)' - Held(s) = (due' - got' - out' - Bit(at' = "pass"))
                                              - (due - got - out - Bit(at = "pass"))
  <2>1. /\ due \in Int /\ got \in Int /\ out \in Int /\ due' \in Int /\ out' \in Int
        /\ got' = got
    BY DEF RelayInv, RelayTypeOK
  <2>2. Bit(at = "pass") \in Int /\ Bit(at' = "pass") = Bit(at = "pass")
    BY DEF Bit
  <2> QED BY <2>1, <2>2
<1> QED BY <1>1, <1>2, <1>3, InvNext

\* Where the operation is, and its forwarders, stay the same.
LEMMA PlaceKept ==
  ASSUME PlaceInv, UNCHANGED <<engine, at, done, user, fwd>>
  PROVE  PlaceInv'
BY DEF PlaceInv

-----------------------------------------------------------------------------
(* The steps of a stream. *)

LEMMA Known ==
  ASSUME RelayInv, NEW s \in Streams
  PROVE  /\ RelayTypes /\ PlaceInv /\ StreamInv(s) /\ RunningInv(s)
         /\ user = "reads" => WholeInv(s)
         /\ engine \in {"restore", "tasks", "logs"}
         /\ pipe[s] \in [Pipes -> 0..1] /\ scan[s] \in [Pipes -> {"read", "send", "end"}]
         /\ chan[s] \in 0..Cap /\ out \in 0..Cap /\ Cap \in Nat \ {0}
         /\ due \in Nat /\ got \in Nat /\ got <= due /\ stopped \in SUBSET Streams
         /\ pipe \in [Streams -> [Pipes -> 0..1]]
         /\ scan \in [Streams -> [Pipes -> {"read", "send", "end"}]]
<1>1. RelayTypes /\ RelayTypeOK
  BY DEF RelayInv
<1>2. PlaceInv /\ StreamInv(s) /\ RunningInv(s) /\ (user = "reads" => WholeInv(s))
  BY DEF RelayInv
<1>3. engine \in {"restore", "tasks", "logs"}
  BY <1>1, RelayAssumption DEF RelayTypeOK
<1>4. /\ pipe[s] \in [Pipes -> 0..1] /\ scan[s] \in [Pipes -> {"read", "send", "end"}]
      /\ pipe \in [Streams -> [Pipes -> 0..1]] /\ chan[s] \in 0..Cap
      /\ scan \in [Streams -> [Pipes -> {"read", "send", "end"}]]
  BY <1>1 DEF RelayTypes
<1>5. /\ out \in 0..Cap /\ due \in Nat /\ got \in Nat /\ got <= due
      /\ stopped \in SUBSET Streams
  BY <1>1 DEF RelayTypeOK
<1> QED BY <1>1, <1>2, <1>3, <1>4, <1>5, RelayAssumption

LEMMA WriteStep ==
  ASSUME RelayInv, NEW s \in Streams, NEW p \in Pipes, Write(s, p)
  PROVE  RelayInv'
<1>1. /\ proc[s] = "running" /\ lines[s] < MaxLines /\ pipe[s][p] = 0
      /\ engine = "logs" => p = "stdout"
      /\ lines' = [lines EXCEPT ![s] = lines[s] + 1]
      /\ pipe' = [pipe EXCEPT ![s][p] = 1]
      /\ due' = due + 1
      /\ UNCHANGED <<engine, proc, strip, scan, waiter, chan, stopped, at, task, active, done,
                     fwd, out, user, got>>
  <2>1. pipe[s][p] = 0 /\ pipe' = [pipe EXCEPT ![s][p] = pipe[s][p] + 1]
    BY DEF Write
  <2> QED BY <2>1 DEF Write, outer
<1>2. /\ pipe' \in [Streams -> [Pipes -> 0..1]] /\ pipe'[s][p] = 1
      /\ \A q \in Pipes : q # p => pipe'[s][q] = pipe[s][q]
      /\ \A t \in Streams : t # s => pipe'[t] = pipe[t]
  BY <1>1, Known, CellSet, 1 \in 0..1
<1>3. RelayTypes'
  <2>1. lines' \in [Streams -> 0..MaxLines]
    BY <1>1, Known, RelayAssumption DEF RelayTypes
  <2> QED BY <1>1, <1>2, <2>1, Known DEF RelayTypes
<1>4. \A t \in Streams : t # s => Same(t) /\ (t \in stopped' => t \in stopped)
  BY <1>1, <1>2 DEF Same
<1>5. StreamInv(s)' /\ RunningInv(s)' /\ (user = "reads" => WholeInv(s)')
  <2>1. StreamInv(s) /\ RunningInv(s) /\ (user = "reads" => WholeInv(s))
    BY Known
  <2>2. engine = "logs" => pipe'[s]["stderr"] = pipe[s]["stderr"]
    BY <1>1, <1>2 DEF Pipes
  <2>3. StreamInv(s)' /\ RunningInv(s)'
    BY <1>1, <2>1, <2>2 DEF StreamInv, RunningInv, Scanned, Unstarted
  <2>4. user = "reads" => WholeInv(s)'
    BY <1>1, <2>1 DEF WholeInv, Quiet, Unstarted
  <2> QED BY <2>3, <2>4
<1>6. Held(s)' - Held(s) = 1
  <2>1. \/ pipe'[s]["stdout"] = pipe[s]["stdout"] + 1 /\ pipe'[s]["stderr"] = pipe[s]["stderr"]
        \/ pipe'[s]["stderr"] = pipe[s]["stderr"] + 1 /\ pipe'[s]["stdout"] = pipe[s]["stdout"]
    BY <1>1, <1>2 DEF Pipes
  <2> QED BY <1>1, <2>1, Known, HeldParts DEF Held
<1>7. PlaceInv'
  BY <1>1, PlaceKept DEF RelayInv
<1>8. out' \in 0..Cap /\ due' \in Nat /\ due' >= due /\ stopped' \in SUBSET Streams
      /\ (due' - out') - (due - out) = 1
  BY <1>1, Known
<1> QED BY <1>1, <1>3, <1>4, <1>5, <1>6, <1>7, <1>8, StreamChange

LEMMA ExitStep ==
  ASSUME RelayInv, NEW s \in Streams, Exit(s)
  PROVE  RelayInv'
<1>1. /\ proc[s] = "running" /\ proc' = [proc EXCEPT ![s] = "gone"]
      /\ UNCHANGED <<engine, lines, pipe, strip, scan, waiter, chan, stopped, at, task, active,
                     done, fwd, out, user, due, got>>
  BY DEF Exit, outer
<1>2. RelayTypes' /\ proc'[s] = "gone"
  BY <1>1, Known DEF RelayTypes
<1>3. \A t \in Streams : t # s => Same(t) /\ (t \in stopped' => t \in stopped)
  BY <1>1, Known DEF Same, RelayTypes
<1>4. StreamInv(s)' /\ RunningInv(s)' /\ (user = "reads" => WholeInv(s)')
  <2>1. StreamInv(s) /\ RunningInv(s) /\ (user = "reads" => WholeInv(s))
    BY Known
  <2>2. StreamInv(s)' /\ RunningInv(s)'
    BY <1>1, <1>2, <2>1 DEF StreamInv, RunningInv, Scanned, Unstarted
  <2>3. user = "reads" => WholeInv(s)'
    BY <1>1, <1>2, <2>1 DEF WholeInv, Quiet, Unstarted
  <2> QED BY <2>2, <2>3
<1>5. Held(s)' = Held(s) /\ Held(s) \in Nat
  BY <1>1, Known, HeldTyped DEF Held
<1>6. PlaceInv'
  BY <1>1, PlaceKept DEF RelayInv
<1>7. out' \in 0..Cap /\ due' \in Nat /\ due' >= due /\ stopped' \in SUBSET Streams
      /\ (due' - out') - (due - out) = 0 /\ Held(s)' - Held(s) = 0
  BY <1>1, <1>5, Known
<1> QED BY <1>1, <1>2, <1>3, <1>4, <1>6, <1>7, StreamChange

LEMMA StripReadStep ==
  ASSUME RelayInv, NEW s \in Streams, StripRead(s)
  PROVE  RelayInv'
<1>1. /\ strip[s] = "read" /\ pipe[s]["stdout"] > 0
      /\ strip' = [strip EXCEPT ![s] = "write"]
      /\ pipe' = [pipe EXCEPT ![s]["stdout"] = 0]
      /\ UNCHANGED <<engine, proc, lines, scan, waiter, chan, stopped, at, task, active, done,
                     fwd, out, user, due, got>>
  <2>1. pipe[s]["stdout"] \in 0..1
    BY Known DEF Pipes
  <2>2. pipe[s]["stdout"] > 0 /\ pipe' = [pipe EXCEPT ![s]["stdout"] = pipe[s]["stdout"] - 1]
    BY DEF StripRead
  <2>3. pipe[s]["stdout"] - 1 = 0
    BY <2>1, <2>2
  <2> QED BY <2>2, <2>3 DEF StripRead, outer
<1>a. /\ pipe' \in [Streams -> [Pipes -> 0..1]] /\ pipe'[s]["stdout"] = 0
      /\ pipe'[s]["stderr"] = pipe[s]["stderr"] /\ strip'[s] = "write"
      /\ \A t \in Streams : t # s => pipe'[t] = pipe[t]
  <2>1. "stdout" \in Pipes /\ "stderr" \in Pipes /\ "stderr" # "stdout" /\ 0 \in 0..1
    BY DEF Pipes
  <2>2. strip'[s] = "write"
    BY <1>1, Known DEF RelayTypes
  <2> QED BY <1>1, <2>1, <2>2, Known, CellSet
<1>2. RelayTypes'
  BY <1>1, <1>a, Known DEF RelayTypes
<1>3. \A t \in Streams : t # s => Same(t) /\ (t \in stopped' => t \in stopped)
  BY <1>1, <1>a, Known DEF Same, RelayTypes
<1>4. StreamInv(s)' /\ RunningInv(s)' /\ (user = "reads" => WholeInv(s)')
  <2>1. StreamInv(s) /\ RunningInv(s) /\ (user = "reads" => WholeInv(s))
    BY Known
  <2>2. StreamInv(s)' /\ RunningInv(s)'
    BY <1>1, <1>a, <2>1 DEF StreamInv, RunningInv, Scanned, Unstarted, Pipes
  <2>3. user = "reads" => WholeInv(s)'
    BY <1>1, <1>a, <2>1 DEF WholeInv, StreamInv, Scanned, Quiet, Unstarted, Pipes
  <2> QED BY <2>2, <2>3
<1>5. user = "reads" => Held(s)' - Held(s) = (due' - out') - (due - out)
  <2>1. pipe[s]["stdout"] = 1
    BY <1>1, Known DEF Pipes
  <2>2. strip'[s] = "write" /\ Bit(strip'[s] = "write") = 1 /\ Bit(strip[s] = "write") = 0
    BY <1>1, <1>a DEF Bit
  <2> QED BY <1>1, <1>a, <2>1, <2>2, Known, HeldParts DEF Held
<1>6. PlaceInv'
  BY <1>1, PlaceKept DEF RelayInv
<1>7. out' \in 0..Cap /\ due' \in Nat /\ due' >= due /\ stopped' \in SUBSET Streams
  BY <1>1, Known
<1> QED BY <1>1, <1>2, <1>3, <1>4, <1>5, <1>6, <1>7, StreamChange

LEMMA StripEndStep ==
  ASSUME RelayInv, NEW s \in Streams, StripEnd(s)
  PROVE  RelayInv'
<1>1. /\ strip[s] = "read" /\ proc[s] = "gone"
      /\ pipe[s]["stdout"] = 0 \/ s \in stopped
      /\ strip' = [strip EXCEPT ![s] = "end"]
      /\ UNCHANGED <<engine, proc, lines, pipe, scan, waiter, chan, stopped, at, task, active,
                     done, fwd, out, user, due, got>>
  BY DEF StripEnd, Ends, outer
<1>a. strip'[s] = "end"
  BY <1>1, Known DEF RelayTypes
<1>2. RelayTypes'
  BY <1>1, Known DEF RelayTypes
<1>3. \A t \in Streams : t # s => Same(t) /\ (t \in stopped' => t \in stopped)
  BY <1>1, Known DEF Same, RelayTypes
<1>4. StreamInv(s)' /\ RunningInv(s)' /\ (user = "reads" => WholeInv(s)')
  <2>1. StreamInv(s) /\ RunningInv(s) /\ (user = "reads" => WholeInv(s))
    BY Known
  <2>2. StreamInv(s)' /\ RunningInv(s)'
    BY <1>1, <1>a, <2>1 DEF StreamInv, RunningInv, Scanned, Unstarted, Pipes
  <2>3. user = "reads" => WholeInv(s)'
    BY <1>1, <1>a, <2>1 DEF WholeInv, StreamInv, Scanned, Quiet, Unstarted, Pipes
  <2> QED BY <2>2, <2>3
<1>5. user = "reads" => Held(s)' - Held(s) = (due' - out') - (due - out)
  <2>1. Bit(strip'[s] = "write") = 0 /\ Bit(strip[s] = "write") = 0
    BY <1>1, <1>a DEF Bit
  <2> QED BY <1>1, <2>1, Known, HeldParts DEF Held
<1>6. PlaceInv'
  BY <1>1, PlaceKept DEF RelayInv
<1>7. out' \in 0..Cap /\ due' \in Nat /\ due' >= due /\ stopped' \in SUBSET Streams
  BY <1>1, Known
<1> QED BY <1>1, <1>2, <1>3, <1>4, <1>5, <1>6, <1>7, StreamChange

LEMMA ScanReadStep ==
  ASSUME RelayInv, NEW s \in Streams, NEW p \in Pipes, ScanRead(s, p)
  PROVE  RelayInv'
<1>1. /\ scan[s][p] = "read" /\ scan' = [scan EXCEPT ![s][p] = "send"]
      /\ \/ /\ strip[s] = "none" /\ pipe[s][p] > 0
            /\ pipe' = [pipe EXCEPT ![s][p] = 0] /\ UNCHANGED strip
         \/ /\ strip[s] = "write"
            /\ strip' = [strip EXCEPT ![s] = "read"] /\ UNCHANGED pipe
      /\ UNCHANGED <<engine, proc, lines, waiter, chan, stopped, at, task, active, done,
                     fwd, out, user, due, got>>
  <2>1. pipe[s][p] \in 0..1
    BY Known
  <2>2. pipe[s][p] > 0 => pipe[s][p] - 1 = 0
    BY <2>1
  <2>3. /\ scan[s][p] = "read" /\ scan' = [scan EXCEPT ![s][p] = "send"]
        /\ \/ /\ strip[s] = "none" /\ pipe[s][p] > 0
              /\ pipe' = [pipe EXCEPT ![s][p] = pipe[s][p] - 1] /\ UNCHANGED strip
           \/ /\ strip[s] = "write"
              /\ strip' = [strip EXCEPT ![s] = "read"] /\ UNCHANGED pipe
        /\ UNCHANGED <<engine, proc, lines, waiter, chan, stopped, at, task, active, done,
                       fwd, out, user, due, got>>
    BY DEF ScanRead, outer
  <2> QED BY <2>2, <2>3
<1>a. /\ scan' \in [Streams -> [Pipes -> {"read", "send", "end"}]] /\ scan'[s][p] = "send"
      /\ \A q \in Pipes : q # p => scan'[s][q] = scan[s][q]
      /\ \A t \in Streams : t # s => scan'[t] = scan[t]
  BY <1>1, Known, CellSet
<1>b. waiter[s] = "wait"
  BY <1>1, Known DEF StreamInv, Scanned
<1>c. /\ pipe' \in [Streams -> [Pipes -> 0..1]]
      /\ \A t \in Streams : t # s => pipe'[t] = pipe[t] /\ strip'[t] = strip[t]
      /\ strip' \in [Streams -> {"none", "read", "write", "end"}]
      /\ \A q \in Pipes : q # p => pipe'[s][q] = pipe[s][q]
      /\ \/ strip[s] = "none" /\ strip'[s] = "none" /\ pipe[s][p] > 0 /\ pipe'[s][p] = 0
         \/ strip[s] = "write" /\ strip'[s] = "read" /\ pipe'[s] = pipe[s]
  <2>1. strip \in [Streams -> {"none", "read", "write", "end"}] /\ 0 \in 0..1
    BY Known DEF RelayTypes
  <2>2. CASE strip[s] = "none" /\ pipe[s][p] > 0 /\ pipe' = [pipe EXCEPT ![s][p] = 0] /\ strip' = strip
    BY <2>1, <2>2, Known, CellSet
  <2>3. CASE strip[s] = "write" /\ strip' = [strip EXCEPT ![s] = "read"] /\ pipe' = pipe
    BY <2>1, <2>3, Known
  <2> QED BY <1>1, <2>2, <2>3
<1>2. RelayTypes'
  BY <1>1, <1>a, <1>c, Known DEF RelayTypes
<1>3. \A t \in Streams : t # s => Same(t) /\ (t \in stopped' => t \in stopped)
  BY <1>1, <1>a, <1>c, Known DEF Same
<1>4. StreamInv(s)' /\ RunningInv(s)' /\ (user = "reads" => WholeInv(s)')
  <2>1. StreamInv(s) /\ RunningInv(s) /\ (user = "reads" => WholeInv(s))
    BY Known
  <2>2. StreamInv(s)' /\ RunningInv(s)'
    BY <1>1, <1>b, <1>c, <2>1 DEF StreamInv, RunningInv, Unstarted, Pipes
  <2>3. user = "reads" => WholeInv(s)'
    BY <1>1, <1>a, <1>b, <1>c, <2>1 DEF WholeInv, Quiet, Unstarted, Pipes
  <2> QED BY <2>2, <2>3
<1>5. user = "reads" => Held(s)' - Held(s) = (due' - out') - (due - out)
  <2>1. /\ \A q \in Pipes \ {p} : Bit(scan'[s][q] = "send") = Bit(scan[s][q] = "send")
        /\ Bit(scan'[s][p] = "send") = 1 /\ Bit(scan[s][p] = "send") = 0
    BY <1>1, <1>a DEF Bit
  <2>2. \/ /\ pipe[s][p] = 1 /\ pipe'[s][p] = 0 /\ Bit(strip'[s] = "write") = Bit(strip[s] = "write")
           /\ \A q \in Pipes \ {p} : pipe'[s][q] = pipe[s][q]
        \/ /\ Bit(strip'[s] = "write") = 0 /\ Bit(strip[s] = "write") = 1
           /\ pipe'[s] = pipe[s]
    BY <1>1, <1>c, Known DEF Bit
  <2>3. p = "stdout" \/ p = "stderr"
    BY DEF Pipes
  <2>4. "stdout" \in Pipes /\ "stderr" \in Pipes
    BY DEF Pipes
  <2>5. Held(s)' = Held(s)
    <3>1. Bit(waiter'[s] = "error") = Bit(waiter[s] = "error") /\ chan'[s] = chan[s]
          /\ Bit(fwd'[s] = "send") = Bit(fwd[s] = "send")
      BY <1>1
    <3>2. CASE p = "stdout"
      <4>1. /\ Bit(scan'[s]["stderr"] = "send") = Bit(scan[s]["stderr"] = "send")
            /\ Bit(scan'[s]["stdout"] = "send") = 1 /\ Bit(scan[s]["stdout"] = "send") = 0
        BY <2>1, <2>4, <3>2
      <4>2. \/ /\ pipe[s]["stdout"] = 1 /\ pipe'[s]["stdout"] = 0
               /\ Bit(strip'[s] = "write") = Bit(strip[s] = "write")
               /\ pipe'[s]["stderr"] = pipe[s]["stderr"]
            \/ /\ Bit(strip'[s] = "write") = 0 /\ Bit(strip[s] = "write") = 1
               /\ pipe'[s] = pipe[s]
        BY <2>2, <2>4, <3>2
      <4> QED BY <3>1, <4>1, <4>2, Known, HeldParts DEF Held
    <3>3. CASE p = "stderr"
      <4>1. /\ Bit(scan'[s]["stdout"] = "send") = Bit(scan[s]["stdout"] = "send")
            /\ Bit(scan'[s]["stderr"] = "send") = 1 /\ Bit(scan[s]["stderr"] = "send") = 0
        BY <2>1, <2>4, <3>3
      <4>2. \/ /\ pipe[s]["stderr"] = 1 /\ pipe'[s]["stderr"] = 0
               /\ Bit(strip'[s] = "write") = Bit(strip[s] = "write")
               /\ pipe'[s]["stdout"] = pipe[s]["stdout"]
            \/ /\ Bit(strip'[s] = "write") = 0 /\ Bit(strip[s] = "write") = 1
               /\ pipe'[s] = pipe[s]
        BY <2>2, <2>4, <3>3
      <4> QED BY <3>1, <4>1, <4>2, Known, HeldParts DEF Held
    <3> QED BY <2>3, <3>2, <3>3
  <2>6. Held(s) \in Nat
    BY Known, HeldTyped
  <2> QED BY <1>1, <2>5, <2>6, Known
<1>6. PlaceInv'
  BY <1>1, PlaceKept DEF RelayInv
<1>7. out' \in 0..Cap /\ due' \in Nat /\ due' >= due /\ stopped' \in SUBSET Streams
  BY <1>1, Known
<1> QED BY <1>1, <1>2, <1>3, <1>4, <1>5, <1>6, <1>7, StreamChange

LEMMA ScanSendStep ==
  ASSUME RelayInv, NEW s \in Streams, NEW p \in Pipes, ScanSend(s, p)
  PROVE  RelayInv'
<1>1. /\ scan[s][p] = "send"
      /\ \/ /\ chan[s] < Cap /\ chan' = [chan EXCEPT ![s] = chan[s] + 1]
            /\ scan' = [scan EXCEPT ![s][p] = "read"]
         \/ /\ s \in stopped /\ scan' = [scan EXCEPT ![s][p] = "end"] /\ UNCHANGED chan
      /\ UNCHANGED <<engine, proc, lines, pipe, strip, waiter, stopped, at, task, active, done,
                     fwd, out, user, due, got>>
  BY DEF ScanSend, outer
<1>a. /\ scan' \in [Streams -> [Pipes -> {"read", "send", "end"}]] /\ scan'[s][p] \in {"read", "end"}
      /\ \A q \in Pipes : q # p => scan'[s][q] = scan[s][q]
      /\ \A t \in Streams : t # s => scan'[t] = scan[t]
  <2>1. \A v \in {"read", "end"} : scan' = [scan EXCEPT ![s][p] = v] =>
          /\ scan' \in [Streams -> [Pipes -> {"read", "send", "end"}]] /\ scan'[s][p] = v
          /\ \A q \in Pipes : q # p => scan'[s][q] = scan[s][q]
          /\ \A t \in Streams : t # s => scan'[t] = scan[t]
    BY Known, CellSet
  <2> QED BY <1>1, <2>1
<1>b. waiter[s] = "wait"
  BY <1>1, Known DEF StreamInv, Scanned
<1>c. /\ chan' \in [Streams -> 0..Cap] /\ \A t \in Streams : t # s => chan'[t] = chan[t]
      /\ (chan'[s] = chan[s] + 1 /\ scan'[s][p] = "read") \/ (chan' = chan /\ s \in stopped)
  <2>1. chan \in [Streams -> 0..Cap] /\ scan \in [Streams -> [Pipes -> {"read", "send", "end"}]]
    BY Known DEF RelayTypes
  <2>2. CASE chan[s] < Cap /\ chan' = [chan EXCEPT ![s] = chan[s] + 1] /\ scan' = [scan EXCEPT ![s][p] = "read"]
    BY <2>1, <2>2, Known
  <2>3. CASE chan' = chan /\ s \in stopped
    BY <2>1, <2>3
  <2> QED BY <1>1, <2>2, <2>3
<1>2. RelayTypes'
  BY <1>1, <1>a, <1>c, Known DEF RelayTypes
<1>3. \A t \in Streams : t # s => Same(t) /\ (t \in stopped' => t \in stopped)
  BY <1>1, <1>a, <1>c DEF Same
<1>4. StreamInv(s)' /\ RunningInv(s)' /\ (user = "reads" => WholeInv(s)')
  <2>1. StreamInv(s) /\ RunningInv(s) /\ (user = "reads" => WholeInv(s))
    BY Known
  <2>2. StreamInv(s)' /\ RunningInv(s)'
    BY <1>1, <1>b, <2>1 DEF StreamInv, RunningInv, Unstarted, Pipes
  <2>3. user = "reads" => WholeInv(s)'
    BY <1>1, <1>a, <1>b, <1>c, <2>1 DEF WholeInv, Quiet, Unstarted, Pipes
  <2> QED BY <2>2, <2>3
<1>5. user = "reads" => Held(s)' - Held(s) = (due' - out') - (due - out)
  <2>1. /\ \A q \in Pipes \ {p} : Bit(scan'[s][q] = "send") = Bit(scan[s][q] = "send")
        /\ Bit(scan'[s][p] = "send") = 0 /\ Bit(scan[s][p] = "send") = 1
    BY <1>1, <1>a DEF Bit
  <2>2. user = "reads" => chan'[s] = chan[s] + 1
    BY <1>b, <1>c, Known DEF WholeInv
  <2>3. p = "stdout" \/ p = "stderr"
    BY DEF Pipes
  <2>4. "stdout" \in Pipes /\ "stderr" \in Pipes
    BY DEF Pipes
  <2> QED BY <1>1, <2>1, <2>2, <2>3, <2>4, Known, HeldParts DEF Held
<1>6. PlaceInv'
  BY <1>1, PlaceKept DEF RelayInv
<1>7. out' \in 0..Cap /\ due' \in Nat /\ due' >= due /\ stopped' \in SUBSET Streams
  BY <1>1, Known
<1> QED BY <1>1, <1>2, <1>3, <1>4, <1>5, <1>6, <1>7, StreamChange

LEMMA ScanEndStep ==
  ASSUME RelayInv, NEW s \in Streams, NEW p \in Pipes, ScanEnd(s, p)
  PROVE  RelayInv'
<1>1. /\ scan[s][p] = "read" /\ scan' = [scan EXCEPT ![s][p] = "end"]
      /\ \/ strip[s] = "none" /\ proc[s] = "gone" /\ (pipe[s][p] = 0 \/ s \in stopped)
         \/ strip[s] = "end"
      /\ UNCHANGED <<engine, proc, lines, pipe, strip, waiter, chan, stopped, at, task, active,
                     done, fwd, out, user, due, got>>
  BY DEF ScanEnd, Ends, outer
<1>a. /\ scan' \in [Streams -> [Pipes -> {"read", "send", "end"}]] /\ scan'[s][p] = "end"
      /\ \A q \in Pipes : q # p => scan'[s][q] = scan[s][q]
      /\ \A t \in Streams : t # s => scan'[t] = scan[t]
  BY <1>1, Known, CellSet
<1>b. waiter[s] = "wait"
  BY <1>1, Known DEF StreamInv, Scanned
<1>2. RelayTypes'
  BY <1>1, <1>a, Known DEF RelayTypes
<1>3. \A t \in Streams : t # s => Same(t) /\ (t \in stopped' => t \in stopped)
  BY <1>1, <1>a DEF Same
<1>4. StreamInv(s)' /\ RunningInv(s)' /\ (user = "reads" => WholeInv(s)')
  <2>1. StreamInv(s) /\ RunningInv(s) /\ (user = "reads" => WholeInv(s))
    BY Known
  <2>2. StreamInv(s)' /\ RunningInv(s)'
    BY <1>1, <1>b, <2>1 DEF StreamInv, RunningInv, Unstarted, Pipes
  <2>3. user = "reads" => WholeInv(s)'
    BY <1>1, <1>a, <1>b, <2>1 DEF WholeInv, Quiet, Unstarted, Pipes
  <2> QED BY <2>2, <2>3
<1>5. user = "reads" => Held(s)' - Held(s) = (due' - out') - (due - out)
  <2>1. /\ \A q \in Pipes \ {p} : Bit(scan'[s][q] = "send") = Bit(scan[s][q] = "send")
        /\ Bit(scan'[s][p] = "send") = 0 /\ Bit(scan[s][p] = "send") = 0
    BY <1>1, <1>a DEF Bit
  <2>2. p = "stdout" \/ p = "stderr"
    BY DEF Pipes
  <2>3. "stdout" \in Pipes /\ "stderr" \in Pipes
    BY DEF Pipes
  <2> QED BY <1>1, <2>1, <2>2, <2>3, Known, HeldParts DEF Held
<1>6. PlaceInv'
  BY <1>1, PlaceKept DEF RelayInv
<1>7. out' \in 0..Cap /\ due' \in Nat /\ due' >= due /\ stopped' \in SUBSET Streams
  BY <1>1, Known
<1> QED BY <1>1, <1>2, <1>3, <1>4, <1>5, <1>6, <1>7, StreamChange

LEMMA WaitedStep ==
  ASSUME RelayInv, NEW s \in Streams, NEW next \in {"error", "stop"}, Waited(s, next)
  PROVE  RelayInv'
<1>1. /\ waiter[s] = "wait" /\ Scanned(s) /\ proc[s] = "gone"
      /\ waiter' = [waiter EXCEPT ![s] = next] /\ due' = due + Bit(next = "error")
      /\ UNCHANGED <<engine, proc, lines, pipe, strip, scan, chan, stopped, at, task, active,
                     done, fwd, out, user, got>>
  BY DEF Waited, outer, Bit
<1>a. waiter'[s] = next
  BY <1>1, Known DEF RelayTypes
<1>b. Bit(next = "error") \in Nat
  BY DEF Bit
<1>2. RelayTypes'
  BY <1>1, Known DEF RelayTypes
<1>3. \A t \in Streams : t # s => Same(t) /\ (t \in stopped' => t \in stopped)
  BY <1>1, Known DEF Same, RelayTypes
<1>4. StreamInv(s)' /\ RunningInv(s)' /\ (user = "reads" => WholeInv(s)')
  <2>1. StreamInv(s) /\ RunningInv(s) /\ (user = "reads" => WholeInv(s))
    BY Known
  <2>2. StreamInv(s)' /\ RunningInv(s)'
    BY <1>1, <2>1 DEF StreamInv, RunningInv, Scanned, Unstarted
  <2>3. user = "reads" => WholeInv(s)'
    BY <1>1, <2>1 DEF WholeInv, Quiet, Unstarted
  <2> QED BY <2>2, <2>3
<1>5. user = "reads" => Held(s)' - Held(s) = (due' - out') - (due - out)
  <2>1. Bit(waiter'[s] = "error") = Bit(next = "error") /\ Bit(waiter[s] = "error") = 0
    BY <1>1, <1>a DEF Bit
  <2>2. Held(s)' = Held(s) + Bit(next = "error")
    BY <1>1, <1>b, <2>1, Known, HeldParts DEF Held
  <2>3. Held(s) \in Nat
    BY Known, HeldTyped
  <2> QED BY <1>1, <1>b, <2>2, <2>3, Known
<1>6. PlaceInv'
  BY <1>1, PlaceKept DEF RelayInv
<1>7. out' \in 0..Cap /\ due' \in Nat /\ due' >= due /\ stopped' \in SUBSET Streams
  BY <1>1, <1>b, Known
<1> QED BY <1>1, <1>2, <1>3, <1>4, <1>5, <1>6, <1>7, StreamChange

LEMMA SendErrorStep ==
  ASSUME RelayInv, NEW s \in Streams, SendError(s)
  PROVE  RelayInv'
<1>1. /\ waiter[s] = "error" /\ waiter' = [waiter EXCEPT ![s] = "stop"]
      /\ \/ chan[s] < Cap /\ chan' = [chan EXCEPT ![s] = chan[s] + 1]
         \/ s \in stopped /\ UNCHANGED chan
      /\ UNCHANGED <<engine, proc, lines, pipe, strip, scan, stopped, at, task, active, done,
                     fwd, out, user, due, got>>
  BY DEF SendError, outer
<1>a. /\ waiter' \in [Streams -> {"wait", "error", "stop", "over"}] /\ waiter'[s] = "stop"
      /\ \A t \in Streams : t # s => waiter'[t] = waiter[t]
  BY <1>1, Known DEF RelayTypes
<1>c. /\ chan' \in [Streams -> 0..Cap] /\ \A t \in Streams : t # s => chan'[t] = chan[t]
      /\ chan'[s] = chan[s] + 1 \/ (chan' = chan /\ s \in stopped)
  <2>1. chan \in [Streams -> 0..Cap]
    BY Known DEF RelayTypes
  <2>2. CASE chan[s] < Cap /\ chan' = [chan EXCEPT ![s] = chan[s] + 1]
    BY <2>1, <2>2, Known
  <2>3. CASE chan' = chan /\ s \in stopped
    BY <2>1, <2>3
  <2> QED BY <1>1, <2>2, <2>3
<1>2. RelayTypes'
  BY <1>1, <1>a, <1>c, Known DEF RelayTypes
<1>3. \A t \in Streams : t # s => Same(t) /\ (t \in stopped' => t \in stopped)
  BY <1>1, <1>a, <1>c DEF Same
<1>4. StreamInv(s)' /\ RunningInv(s)' /\ (user = "reads" => WholeInv(s)')
  <2>1. StreamInv(s) /\ RunningInv(s) /\ (user = "reads" => WholeInv(s))
    BY Known
  <2>2. StreamInv(s)' /\ RunningInv(s)'
    BY <1>1, <2>1 DEF StreamInv, RunningInv, Scanned, Unstarted
  <2>3. user = "reads" => WholeInv(s)'
    BY <1>1, <2>1 DEF WholeInv, Quiet, Unstarted
  <2> QED BY <2>2, <2>3
<1>5. user = "reads" => Held(s)' - Held(s) = (due' - out') - (due - out)
  <2>1. Bit(waiter'[s] = "error") = 0 /\ Bit(waiter[s] = "error") = 1
    BY <1>1, <1>a DEF Bit
  <2>2. user = "reads" => chan'[s] = chan[s] + 1
    BY <1>1, <1>c, Known DEF WholeInv
  <2> QED BY <1>1, <2>1, <2>2, Known, HeldParts DEF Held
<1>6. PlaceInv'
  BY <1>1, PlaceKept DEF RelayInv
<1>7. out' \in 0..Cap /\ due' \in Nat /\ due' >= due /\ stopped' \in SUBSET Streams
  BY <1>1, Known
<1> QED BY <1>1, <1>2, <1>3, <1>4, <1>5, <1>6, <1>7, StreamChange

LEMMA CloseChannelStep ==
  ASSUME RelayInv, NEW s \in Streams, CloseChannel(s)
  PROVE  RelayInv'
<1>1. /\ waiter[s] = "stop" /\ waiter' = [waiter EXCEPT ![s] = "over"]
      /\ stopped' = stopped \union {s}
      /\ proc' = [t \in Streams |-> IF t \in {s} THEN "gone" ELSE proc[t]]
      /\ UNCHANGED <<engine, lines, pipe, strip, scan, chan, at, task, active, done,
                     fwd, out, user, due, got>>
  BY DEF CloseChannel, StopsAll, outer
<1>a. /\ waiter' \in [Streams -> {"wait", "error", "stop", "over"}] /\ waiter'[s] = "over"
      /\ proc' \in [Streams -> {"none", "running", "gone"}] /\ proc'[s] = "gone"
      /\ \A t \in Streams : t # s => waiter'[t] = waiter[t] /\ proc'[t] = proc[t]
  BY <1>1, Known DEF RelayTypes
<1>2. RelayTypes'
  BY <1>1, <1>a, Known DEF RelayTypes
<1>3. \A t \in Streams : t # s => Same(t) /\ (t \in stopped' => t \in stopped)
  BY <1>1, <1>a DEF Same
<1>4. StreamInv(s)' /\ RunningInv(s)' /\ (user = "reads" => WholeInv(s)')
  <2>1. StreamInv(s) /\ RunningInv(s) /\ (user = "reads" => WholeInv(s))
    BY Known
  <2>2. StreamInv(s)' /\ RunningInv(s)'
    BY <1>1, <1>a, <2>1 DEF StreamInv, RunningInv, Scanned, Unstarted
  <2>3. user = "reads" => WholeInv(s)'
    BY <1>1, <1>a, <2>1 DEF WholeInv, StreamInv, Quiet, Unstarted
  <2> QED BY <2>2, <2>3
<1>5. user = "reads" => Held(s)' - Held(s) = (due' - out') - (due - out)
  <2>1. Bit(waiter'[s] = "error") = 0 /\ Bit(waiter[s] = "error") = 0
    BY <1>1, <1>a DEF Bit
  <2> QED BY <1>1, <2>1, Known, HeldParts DEF Held
<1>6. PlaceInv'
  BY <1>1, PlaceKept DEF RelayInv
<1>7. out' \in 0..Cap /\ due' \in Nat /\ due' >= due /\ stopped' \in SUBSET Streams
  BY <1>1, Known
<1> QED BY <1>1, <1>2, <1>3, <1>4, <1>5, <1>6, <1>7, StreamChange

LEMMA ForwardStep ==
  ASSUME RelayInv, NEW s \in Streams, Forward(s)
  PROVE  RelayInv'
<1>1. /\ fwd[s] # "end"
      /\ \/ /\ fwd[s] = "range" /\ chan[s] > 0 /\ out' = out
            /\ chan' = [chan EXCEPT ![s] = chan[s] - 1]
            /\ fwd' = [fwd EXCEPT ![s] = "send"]
         \/ /\ fwd[s] = "send" /\ out < Cap /\ out' = out + 1 /\ chan' = chan
            /\ fwd' = [fwd EXCEPT ![s] = "range"]
         \/ /\ fwd[s] = "send" /\ done /\ chan' = chan /\ out' = out
            /\ fwd' = [fwd EXCEPT ![s] = "end"]
         \/ /\ fwd[s] = "range" /\ chan[s] = 0 /\ waiter[s] = "over" /\ chan' = chan /\ out' = out
            /\ fwd' = [fwd EXCEPT ![s] = "end"]
      /\ UNCHANGED <<engine, proc, lines, pipe, strip, scan, waiter, stopped, at, task, active,
                     done, user, due, got>>
  BY DEF Forward, Aside
<1>a. /\ chan' \in [Streams -> 0..Cap] /\ fwd' \in [Streams -> {"range", "send", "end"}]
      /\ \A t \in Streams : t # s => chan'[t] = chan[t] /\ fwd'[t] = fwd[t]
      /\ \/ fwd[s] = "range" /\ chan'[s] = chan[s] - 1 /\ fwd'[s] = "send" /\ out' = out
         \/ fwd[s] = "send" /\ chan'[s] = chan[s] /\ fwd'[s] = "range" /\ out' = out + 1
         \/ fwd[s] = "send" /\ done /\ chan'[s] = chan[s] /\ fwd'[s] = "end" /\ out' = out
         \/ /\ fwd[s] = "range" /\ chan[s] = 0 /\ waiter[s] = "over" /\ chan'[s] = chan[s]
            /\ fwd'[s] = "end" /\ out' = out
      /\ out' \in 0..Cap
  <2>1. /\ chan \in [Streams -> 0..Cap] /\ fwd \in [Streams -> {"range", "send", "end"}]
        /\ chan[s] \in 0..Cap /\ out \in 0..Cap /\ Cap \in Nat
    BY Known DEF RelayTypes
  <2>2. CASE /\ fwd[s] = "range" /\ chan[s] > 0 /\ out' = out
             /\ chan' = [chan EXCEPT ![s] = chan[s] - 1] /\ fwd' = [fwd EXCEPT ![s] = "send"]
    BY <2>1, <2>2
  <2>3. CASE /\ fwd[s] = "send" /\ out < Cap /\ out' = out + 1 /\ chan' = chan
             /\ fwd' = [fwd EXCEPT ![s] = "range"]
    BY <2>1, <2>3
  <2>4. CASE /\ fwd[s] = "send" /\ done /\ chan' = chan /\ out' = out
             /\ fwd' = [fwd EXCEPT ![s] = "end"]
    BY <2>1, <2>4
  <2>5. CASE /\ fwd[s] = "range" /\ chan[s] = 0 /\ waiter[s] = "over" /\ chan' = chan /\ out' = out
             /\ fwd' = [fwd EXCEPT ![s] = "end"]
    BY <2>1, <2>5
  <2> QED BY <1>1, <2>2, <2>3, <2>4, <2>5
<1>b. engine = "logs" /\ at # "over" /\ (user = "reads" => ~done)
  BY <1>1, Known DEF PlaceInv
<1>2. RelayTypes'
  BY <1>1, <1>a, Known DEF RelayTypes
<1>3. \A t \in Streams : t # s => Same(t) /\ (t \in stopped' => t \in stopped)
  BY <1>1, <1>a DEF Same
<1>4. StreamInv(s)' /\ RunningInv(s)' /\ (user = "reads" => WholeInv(s)')
  <2>1. StreamInv(s) /\ RunningInv(s) /\ (user = "reads" => WholeInv(s))
    BY Known
  <2>2. StreamInv(s)' /\ RunningInv(s)'
    BY <1>1, <2>1 DEF StreamInv, RunningInv, Scanned, Unstarted
  <2>3. user = "reads" => WholeInv(s)'
    BY <1>1, <1>a, <1>b, <2>1 DEF WholeInv, Quiet, Unstarted
  <2> QED BY <2>2, <2>3
<1>5. user = "reads" => Held(s)' - Held(s) = (due' - out') - (due - out)
  <2>1. /\ fwd[s] = "send" => Bit(fwd[s] = "send") = 1
        /\ fwd[s] # "send" => Bit(fwd[s] = "send") = 0
        /\ fwd'[s] = "send" => Bit(fwd'[s] = "send") = 1
        /\ fwd'[s] # "send" => Bit(fwd'[s] = "send") = 0
    BY DEF Bit
  <2>2. user = "reads" => chan'[s] + Bit(fwd'[s] = "send") + out' = chan[s] + Bit(fwd[s] = "send") + out
    BY <1>a, <1>b, <2>1, Known
  <2>3. chan'[s] \in Nat /\ out' \in Nat /\ Bit(fwd'[s] = "send") \in Nat
    BY <1>a, <2>1, Known
  <2> QED BY <1>1, <2>2, <2>3, Known, HeldParts DEF Held
<1>6. PlaceInv'
  BY <1>1, <1>b DEF PlaceInv, RelayInv
<1>7. out' \in 0..Cap /\ due' \in Nat /\ due' >= due /\ stopped' \in SUBSET Streams
  BY <1>1, Known
<1> QED BY <1>1, <1>2, <1>3, <1>4, <1>5, <1>6, <1>7, StreamChange

-----------------------------------------------------------------------------
(* The steps of the operation. *)

\* A step that leaves the streams alone.
LEMMA PlaceChange ==
  ASSUME RelayInv,
         UNCHANGED <<engine, proc, lines, pipe, strip, scan, waiter, chan, stopped, fwd, user, got>>,
         at' \in Places, task' \in Streams, active' \in Streams \union {0}, done' \in BOOLEAN,
         out' \in 0..Cap, due' \in Nat, due' >= due, PlaceInv',
         \A t \in Streams : Unstarted(t)' => Unstarted(t),
         user = "reads" => \A t \in Streams : Quiet(t)' => Quiet(t) \/ (waiter[t] = "over" /\ chan[t] = 0),
         engine # "logs" =>
           \A t \in Streams : proc[t] = "running" => t = task' /\ at' \in Streaming,
         user = "reads" => due' - out' - Bit(at' = "pass") = due - out - Bit(at = "pass")
  PROVE  RelayInv'
<1>1. PICK s \in Streams : TRUE
  BY StreamNumbers
<1>2. RelayTypes'
  BY DEF RelayInv, RelayTypes
<1>3. ASSUME NEW t \in Streams
      PROVE  /\ StreamInv(t)' /\ RunningInv(t)' /\ (user' = "reads" => WholeInv(t)')
             /\ Held(t)' = Held(t)
  <2>1. StreamInv(t) /\ RunningInv(t) /\ (user = "reads" => WholeInv(t))
    BY DEF RelayInv
  <2>2. StreamInv(t)' /\ RunningInv(t)'
    BY <2>1 DEF StreamInv, RunningInv, Scanned
  <2>3. user' = "reads" => WholeInv(t)'
    BY <2>1 DEF WholeInv
  <2>4. Held(t)' = Held(t)
    BY DEF Held
  <2> QED BY <2>2, <2>3, <2>4
<1>4. /\ user' \in {"reads", "stopping", "left"} /\ got' \in 0..due' /\ stopped' \in SUBSET Streams
  BY DEF RelayInv, RelayTypeOK
<1>5. user' = "reads" => Held(s)' - Held(s) = (due' - got' - out' - Bit(at' = "pass"))
                                              - (due - got - out - Bit(at = "pass"))
  <2>1. /\ due \in Int /\ got \in Int /\ out \in Int /\ due' \in Int /\ out' \in Int
        /\ got' = got
    BY DEF RelayInv, RelayTypeOK
  <2>2. Bit(at = "pass") \in Int /\ Bit(at' = "pass") \in Int
    BY DEF Bit
  <2>3. Held(s) \in Nat /\ Held(s)' = Held(s)
    BY <1>1, <1>3, HeldTyped DEF RelayInv
  <2> QED BY <2>1, <2>2, <2>3
<1> QED BY <1>1, <1>2, <1>3, <1>4, <1>5, InvNext

\* A step between places at which no stream is relayed.
LEMMA Moves ==
  ASSUME RelayInv,
         UNCHANGED <<engine, proc, lines, pipe, strip, scan, waiter, chan, stopped, fwd, user, got, done>>,
         engine # "logs", at \notin Streaming, at \notin {"end", "over", "pass"},
         at' \in PlacesOf(engine), at' \notin Streaming, at' \notin {"open", "over", "pass"},
         task' \in Streams, active' \in Streams \union {0},
         (at' \in Early /\ at \in Early /\ task' = task) \/ at' \notin Early \/ task' > task,
         task' >= task,
         out' \in 0..Cap, due' \in Nat, due' >= due,
         user = "reads" => due' - out' = due - out
  PROVE  RelayInv'
<1>1. RelayTypeOK /\ PlaceInv
  BY StreamNumbers DEF RelayInv
<1>2. PlaceInv'
  BY <1>1 DEF PlaceInv
<1>3. at' \in Places /\ done' \in BOOLEAN
  BY <1>1 DEF Places, PlacesOf, Streaming, RelayTypeOK
<1>4. ASSUME NEW t \in Streams, Unstarted(t)' PROVE Unstarted(t)
  BY <1>1, <1>4, StreamNumbers DEF Unstarted, RelayTypeOK
<1>5. \A t \in Streams : Quiet(t)
  BY DEF Quiet
<1>6. \A t \in Streams : proc[t] # "running"
  BY DEF RelayInv, RunningInv
<1>7. user = "reads" => due' - out' - Bit(at' = "pass") = due - out - Bit(at = "pass")
  <2>1. due \in Int /\ out \in Int /\ due' \in Int /\ out' \in Int
    BY <1>1 DEF RelayTypeOK
  <2>2. Bit(at' = "pass") = 0 /\ Bit(at = "pass") = 0
    BY DEF Bit
  <2> QED BY <2>1, <2>2
<1> QED BY <1>2, <1>3, <1>4, <1>5, <1>6, <1>7, PlaceChange

Says == {<<"say", "copy">>, <<"starting", "start">>, <<"banner", "start">>,
         <<"banner", "action">>, <<"done", "next">>, <<"last", "end">>}
LEMMA SayStep ==
  ASSUME RelayInv, NEW from, NEW next, Say(from, next),
         <<from, next>> \in Says \/ (from = "failed" /\ next = AfterFailure)
  PROVE  RelayInv'
<1>1. /\ at = from /\ due' = due + 1
      /\ \/ out < Cap /\ out' = out + 1 /\ at' = next
         \/ done /\ out' = out /\ at' = "end"
      /\ UNCHANGED <<engine, proc, lines, pipe, strip, scan, waiter, chan, stopped, fwd, user, got,
                     done, task, active>>
  BY DEF Say, Sends, Aside, inner
<1>2. RelayTypeOK /\ PlaceInv /\ Cap \in Nat /\ engine \in {"restore", "tasks", "logs"}
  BY RelayAssumption DEF RelayInv, RelayTypeOK
<1>3. /\ engine # "logs" /\ at \notin Streaming /\ at \notin {"end", "over", "pass"}
      /\ at' \in PlacesOf(engine) /\ at' \notin Streaming /\ at' \notin {"open", "over", "pass"}
      /\ (at' \in Early /\ at \in Early) \/ at' \notin Early
  BY <1>1, <1>2 DEF PlaceInv, PlacesOf, Streaming, Early, Says, AfterFailure
<1>4. user = "reads" => ~done
  BY <1>2, <1>3 DEF PlaceInv
<1>5. out' \in 0..Cap /\ due' \in Nat /\ due' >= due /\ (user = "reads" => due' - out' = due - out)
  BY <1>1, <1>2, <1>4 DEF RelayTypeOK
<1>6. task' \in Streams /\ active' \in Streams \union {0} /\ task' >= task
  BY <1>1, <1>2, StreamNumbers DEF RelayTypeOK
<1> QED BY <1>1, <1>3, <1>5, <1>6, Moves

Turns == {<<"copy", "write">>, <<"copy", "wait">>, <<"copy", "failed">>, <<"write", "copy">>,
          <<"write", "failed">>, <<"wait", "starting">>, <<"wait", "failed">>,
          <<"action", "failed">>, <<"action", "done">>, <<"head", "end">>, <<"head", "banner">>,
          <<"start", "failed">>, <<"next", "last">>}
LEMMA TurnStep ==
  ASSUME RelayInv, <<at, at'>> \in Turns,
         UNCHANGED <<engine, proc, lines, pipe, strip, scan, waiter, chan, stopped, fwd, user, got,
                     done, task, active, out, due>>
  PROVE  RelayInv'
<1>2. RelayTypeOK /\ PlaceInv /\ Cap \in Nat /\ engine \in {"restore", "tasks", "logs"}
  BY RelayAssumption DEF RelayInv, RelayTypeOK
<1>3. /\ engine # "logs" /\ at \notin Streaming /\ at \notin {"end", "over", "pass"}
      /\ at' \in PlacesOf(engine) /\ at' \notin Streaming /\ at' \notin {"open", "over", "pass"}
      /\ (at' \in Early /\ at \in Early) \/ at' \notin Early
  BY <1>2 DEF PlaceInv, PlacesOf, Streaming, Early, Turns
<1>5. out' \in 0..Cap /\ due' \in Nat /\ due' >= due /\ due' - out' = due - out
  BY <1>2 DEF RelayTypeOK
<1>6. task' \in Streams /\ active' \in Streams \union {0} /\ task' >= task
  BY <1>2, StreamNumbers DEF RelayTypeOK
<1> QED BY <1>3, <1>5, <1>6, Moves

LEMMA GoesStep ==
  ASSUME RelayInv, NEW from, NEW next, Goes(from, next), <<from, next>> \in Turns
  PROVE  RelayInv'
<1>1. at = from /\ at' = next
      /\ UNCHANGED <<engine, proc, lines, pipe, strip, scan, waiter, chan, stopped, fwd, user, got,
                     done, task, active, out, due>>
  BY DEF Goes, Aside, inner
<1> QED BY <1>1, TurnStep

LEMMA TaskHeadStep ==
  ASSUME RelayInv, TaskHead
  PROVE  RelayInv'
<1>1. <<at, at'>> \in Turns
      /\ UNCHANGED <<engine, proc, lines, pipe, strip, scan, waiter, chan, stopped, fwd, user, got,
                     done, task, active, out, due>>
  BY DEF TaskHead, Aside, inner, Turns
<1> QED BY <1>1, TurnStep

LEMMA NextTaskStep ==
  ASSUME RelayInv, NextTask
  PROVE  RelayInv'
<1>1. UNCHANGED <<engine, proc, lines, pipe, strip, scan, waiter, chan, stopped, fwd, user, got,
                  done, active, out, due>>
      /\ at = "next"
      /\ \/ task < N /\ task' = task + 1 /\ at' = "head"
         \/ at' = "last" /\ task' = task
  BY DEF NextTask, More, Aside, inner
<1>2. RelayTypeOK /\ PlaceInv /\ Cap \in Nat /\ engine \in {"restore", "tasks", "logs"}
  BY RelayAssumption DEF RelayInv, RelayTypeOK
<1>3. /\ engine # "logs" /\ at \notin Streaming /\ at \notin {"end", "over", "pass"}
      /\ at' \in PlacesOf(engine) /\ at' \notin Streaming /\ at' \notin {"open", "over", "pass"}
      /\ at' \in Early => at' = "head"
  BY <1>1, <1>2 DEF PlaceInv, PlacesOf, Streaming, Early
<1>4. out' \in 0..Cap /\ due' \in Nat /\ due' >= due /\ due' - out' = due - out
  BY <1>1, <1>2 DEF RelayTypeOK
<1>5. /\ task' \in Streams /\ active' \in Streams \union {0} /\ task' >= task
      /\ at' = "head" => task' > task
  BY <1>1, <1>2, StreamNumbers DEF RelayTypeOK
<1> QED BY <1>1, <1>3, <1>4, <1>5, Moves

LEMMA PublishStep ==
  ASSUME RelayInv, Publish
  PROVE  RelayInv'
<1>1. /\ at = "publish" /\ active' = task /\ at' \in {"check", "relay"}
      /\ at' = "check" => engine = "restore"
      /\ UNCHANGED <<engine, proc, lines, pipe, strip, scan, waiter, chan, stopped, fwd, user, got,
                     done, task, out, due>>
  BY DEF Publish, Covered, Aside, inner
<1>2. RelayTypeOK /\ PlaceInv /\ engine \in {"restore", "tasks", "logs"}
  BY RelayAssumption DEF RelayInv, RelayTypeOK
<1>3. engine # "logs" /\ PlaceInv'
  BY <1>1, <1>2 DEF PlaceInv, PlacesOf, Streaming
<1>4. /\ at' \in Places /\ task' \in Streams /\ active' \in Streams \union {0} /\ done' \in BOOLEAN
      /\ out' \in 0..Cap /\ due' \in Nat /\ due' >= due
  BY <1>1, <1>2 DEF RelayTypeOK, Places
<1>5. \A t \in Streams : (Unstarted(t)' => Unstarted(t)) /\ (Quiet(t)' => Quiet(t))
  BY <1>1 DEF Unstarted, Quiet, Early, Streaming
<1>6. \A t \in Streams : proc[t] = "running" => t = task' /\ at' \in Streaming
  BY <1>1, <1>3 DEF RelayInv, RunningInv, Streaming
<1>7. due' - out' - Bit(at' = "pass") = due - out - Bit(at = "pass")
  BY <1>1 DEF Bit
<1> QED BY <1>1, <1>3, <1>4, <1>5, <1>6, <1>7, PlaceChange

\* A step that stops the streams of S: what the user still reads is not cut.
LEMMA StopsStep ==
  ASSUME RelayInv, NEW S \in SUBSET Streams, StopsAll(S),
         UNCHANGED <<engine, lines, pipe, strip, scan, waiter, chan, fwd, got, due, out, task>>,
         at' \in Places, active' \in Streams \union {0}, done' \in BOOLEAN,
         user' \in {"reads", "stopping", "left"}, PlaceInv',
         \A t \in Streams : Unstarted(t)' => Unstarted(t),
         \A t \in Streams \ S : proc[t] = "running" =>
           IF engine = "logs" THEN user' # "left" ELSE t = task /\ at' \in Streaming,
         user' = "reads" =>
           /\ user = "reads" /\ (at' = "pass" <=> at = "pass")
           /\ \A t \in S : waiter[t] = "over" /\ ~Unstarted(t)'
           /\ \A t \in Streams : Quiet(t)' => Quiet(t)
  PROVE  RelayInv'
<1>1. PICK s \in Streams : TRUE
  BY StreamNumbers
<1>2. RelayTypes /\ RelayTypeOK
  BY DEF RelayInv
<1>3. /\ proc' \in [Streams -> {"none", "running", "gone"}]
      /\ \A t \in Streams : proc'[t] = IF t \in S THEN "gone" ELSE proc[t]
      /\ stopped' = stopped \union S /\ stopped' \in SUBSET Streams
  BY <1>2 DEF StopsAll, RelayTypes, RelayTypeOK
<1>4. RelayTypes'
  BY <1>2, <1>3 DEF RelayTypes
<1>5. ASSUME NEW t \in Streams
      PROVE  /\ StreamInv(t)' /\ RunningInv(t)' /\ (user' = "reads" => WholeInv(t)')
             /\ Held(t)' = Held(t)
  <2>1. StreamInv(t) /\ RunningInv(t) /\ (user = "reads" => WholeInv(t))
    BY DEF RelayInv
  <2>2. StreamInv(t)' /\ RunningInv(t)'
    BY <1>3, <2>1 DEF StreamInv, RunningInv, Scanned
  <2>3. user' = "reads" => WholeInv(t)'
    BY <1>3, <2>1 DEF WholeInv
  <2>4. Held(t)' = Held(t)
    BY DEF Held
  <2> QED BY <2>2, <2>3, <2>4
<1>6. /\ task' \in Streams /\ out' \in 0..Cap /\ due' \in Nat /\ got' \in 0..due'
  BY <1>2 DEF RelayTypeOK
<1>7. user' = "reads" => Held(s)' - Held(s) = (due' - got' - out' - Bit(at' = "pass"))
                                              - (due - got - out - Bit(at = "pass"))
  <2>1. due \in Int /\ got \in Int /\ out \in Int
    BY <1>2 DEF RelayTypeOK
  <2>2. user' = "reads" => Bit(at' = "pass") = Bit(at = "pass")
    BY DEF Bit
  <2>3. Held(s) \in Nat /\ Held(s)' = Held(s) /\ Bit(at = "pass") \in Int
    BY <1>1, <1>2, <1>5, HeldTyped DEF Bit
  <2> QED BY <2>1, <2>2, <2>3
<1> QED BY <1>1, <1>3, <1>4, <1>5, <1>6, <1>7, InvNext

LEMMA CheckStep ==
  ASSUME RelayInv, Check
  PROVE  RelayInv'
<1>1. /\ at = "check" /\ at' = "relay"
      /\ IF done THEN StopsAll({task}) ELSE UNCHANGED <<stopped, proc>>
      /\ UNCHANGED <<engine, lines, pipe, strip, scan, waiter, chan, fwd, got, due, out, task, user,
                     active, done>>
  BY DEF Check, Aside
<1>2. RelayTypeOK /\ PlaceInv /\ engine \in {"restore", "tasks", "logs"}
  BY RelayAssumption DEF RelayInv, RelayTypeOK
<1>3. engine # "logs" /\ PlaceInv' /\ (user = "reads" => ~done)
  BY <1>1, <1>2 DEF PlaceInv, PlacesOf, Streaming
<1>4. /\ at' \in Places /\ task' \in Streams /\ active' \in Streams \union {0} /\ done' \in BOOLEAN
      /\ out' \in 0..Cap /\ due' \in Nat /\ due' >= due /\ user' \in {"reads", "stopping", "left"}
      /\ {task} \in SUBSET Streams
  BY <1>1, <1>2 DEF RelayTypeOK, Places
<1>5. \A t \in Streams : (Unstarted(t)' => Unstarted(t)) /\ (Quiet(t)' => Quiet(t))
  BY <1>1 DEF Unstarted, Quiet, Early, Streaming
<1>6. \A t \in Streams : proc[t] = "running" => t = task /\ t = task' /\ at' \in Streaming
  BY <1>1, <1>3 DEF RelayInv, RunningInv, Streaming
<1>7. due' - out' - Bit(at' = "pass") = due - out - Bit(at = "pass")
  BY <1>1 DEF Bit
<1>8. CASE done
  <2>1. user' # "reads" /\ StopsAll({task})
    BY <1>1, <1>3, <1>8
  <2> QED BY <1>1, <1>3, <1>4, <1>5, <1>6, <2>1, StopsStep
<1>9. CASE ~done
  BY <1>1, <1>3, <1>4, <1>5, <1>6, <1>7, <1>9, PlaceChange
<1> QED BY <1>8, <1>9

LEMMA PassStep ==
  ASSUME RelayInv, Pass
  PROVE  RelayInv'
<1>1. /\ at = "pass"
      /\ \/ out < Cap /\ out' = out + 1 /\ at' = "relay" /\ UNCHANGED <<stopped, proc>>
         \/ done /\ out' = out /\ at' = "end" /\ StopsAll({task})
      /\ UNCHANGED <<engine, lines, pipe, strip, scan, waiter, chan, fwd, got, due, task, user,
                     active, done>>
  BY DEF Pass, Sends, Aside
<1>2. RelayTypeOK /\ PlaceInv /\ engine \in {"restore", "tasks", "logs"} /\ Cap \in Nat
  BY RelayAssumption DEF RelayInv, RelayTypeOK
<1>3. engine # "logs" /\ PlaceInv' /\ (user = "reads" => ~done)
  BY <1>1, <1>2 DEF PlaceInv, PlacesOf, Streaming
<1>4. /\ at' \in Places /\ task' \in Streams /\ active' \in Streams \union {0} /\ done' \in BOOLEAN
      /\ out' \in 0..Cap /\ due' \in Nat /\ due' >= due /\ user' \in {"reads", "stopping", "left"}
      /\ {task} \in SUBSET Streams
  BY <1>1, <1>2 DEF RelayTypeOK, Places
<1>5. \A t \in Streams : Unstarted(t)' => Unstarted(t)
  BY <1>1 DEF Unstarted, Early
<1>6. \A t \in Streams : proc[t] = "running" => t = task /\ t = task'
  BY <1>1, <1>3 DEF RelayInv, RunningInv
<1>8. CASE out < Cap /\ out' = out + 1 /\ at' = "relay" /\ UNCHANGED <<stopped, proc>>
  <2>1. due' - out' - Bit(at' = "pass") = due - out - Bit(at = "pass")
    BY <1>1, <1>2, <1>8 DEF Bit, RelayTypeOK
  <2>2. at' \in Streaming /\ \A t \in Streams : Quiet(t)' => Quiet(t)
    BY <1>1, <1>8 DEF Quiet, Streaming
  <2> QED BY <1>1, <1>3, <1>4, <1>5, <1>6, <1>8, <2>1, <2>2, PlaceChange
<1>9. CASE done /\ out' = out /\ at' = "end" /\ StopsAll({task})
  <2>1. user' # "reads"
    BY <1>1, <1>3, <1>9
  <2> QED BY <1>1, <1>3, <1>4, <1>5, <1>6, <1>9, <2>1, StopsStep
<1> QED BY <1>1, <1>8, <1>9

LEMMA RelayedStep ==
  ASSUME RelayInv, Relayed
  PROVE  RelayInv'
<1>1. /\ at = "relay" /\ chan[task] = 0 /\ waiter[task] = "over"
      /\ \/ engine = "tasks" /\ active' = 0 /\ at' = "next"
         \/ engine # "tasks" /\ active' = active /\ at' = "end"
      /\ UNCHANGED <<engine, proc, lines, pipe, strip, scan, waiter, chan, stopped, fwd, user, got,
                     done, task, out, due>>
  BY DEF Relayed, Aside, inner
<1>2. RelayTypeOK /\ PlaceInv /\ engine \in {"restore", "tasks", "logs"}
  BY RelayAssumption DEF RelayInv, RelayTypeOK
<1>3. engine # "logs" /\ PlaceInv'
  BY <1>1, <1>2 DEF PlaceInv, PlacesOf, Streaming
<1>4. /\ at' \in Places /\ task' \in Streams /\ active' \in Streams \union {0} /\ done' \in BOOLEAN
      /\ out' \in 0..Cap /\ due' \in Nat /\ due' >= due
  BY <1>1, <1>2 DEF RelayTypeOK, Places
<1>5. \A t \in Streams : Unstarted(t)' => Unstarted(t)
  BY <1>1 DEF Unstarted, Early
<1>6. \A t \in Streams : Quiet(t)' => Quiet(t) \/ (waiter[t] = "over" /\ chan[t] = 0)
  BY <1>1, <1>3 DEF Quiet
<1>7. \A t \in Streams : proc[t] # "running"
  <2>1. \A t \in Streams : proc[t] = "running" => t = task
    BY <1>3 DEF RelayInv, RunningInv
  <2>2. proc[task] # "running"
    BY <1>1, <1>2 DEF RelayInv, StreamInv, RelayTypeOK
  <2> QED BY <2>1, <2>2
<1>8. due' - out' - Bit(at' = "pass") = due - out - Bit(at = "pass")
  BY <1>1 DEF Bit
<1> QED BY <1>1, <1>3, <1>4, <1>5, <1>6, <1>7, <1>8, PlaceChange

LEMMA GatheredStep ==
  ASSUME RelayInv, Gathered
  PROVE  RelayInv'
<1>1. /\ at = "gather" /\ at' = "over" /\ \A s \in Streams : fwd[s] = "end"
      /\ UNCHANGED <<engine, proc, lines, pipe, strip, scan, waiter, chan, stopped, fwd, user, got,
                     active, done, task, out, due>>
  BY DEF Gathered, Aside, inner
<1>2. RelayTypeOK /\ PlaceInv /\ engine \in {"restore", "tasks", "logs"}
  BY RelayAssumption DEF RelayInv, RelayTypeOK
<1>3. engine = "logs" /\ PlaceInv'
  BY <1>1, <1>2 DEF PlaceInv, PlacesOf, Streaming
<1>4. /\ at' \in Places /\ task' \in Streams /\ active' \in Streams \union {0} /\ done' \in BOOLEAN
      /\ out' \in 0..Cap /\ due' \in Nat /\ due' >= due
  BY <1>1, <1>2 DEF RelayTypeOK, Places
<1>5. \A t \in Streams : (Unstarted(t)' => Unstarted(t)) /\ (Quiet(t)' => Quiet(t))
  BY <1>1, <1>3 DEF Unstarted, Quiet, Early
<1>6. due' - out' - Bit(at' = "pass") = due - out - Bit(at = "pass")
  BY <1>1 DEF Bit
<1> QED BY <1>1, <1>3, <1>4, <1>5, <1>6, PlaceChange

LEMMA StopActiveStep ==
  ASSUME RelayInv, StopActive
  PROVE  RelayInv'
<1>1. /\ user = "stopping" /\ user' = "left" /\ StopsAll(ToStop)
      /\ UNCHANGED <<engine, lines, pipe, strip, scan, waiter, chan, fwd, got, due, out, task,
                     at, active, done>>
  BY DEF StopActive, outer
<1>2. RelayTypeOK /\ PlaceInv
  BY DEF RelayInv
<1>3. PlaceInv' /\ ToStop \in SUBSET Streams
  BY <1>1, <1>2 DEF PlaceInv, ToStop, RelayTypeOK
<1>4. at' \in Places /\ active' \in Streams \union {0} /\ done' \in BOOLEAN
  BY <1>1, <1>2 DEF RelayTypeOK
<1>5. \A t \in Streams : Unstarted(t)' => Unstarted(t)
  BY <1>1 DEF Unstarted
<1>6. ASSUME NEW t \in Streams \ ToStop, proc[t] = "running"
      PROVE  IF engine = "logs" THEN user' # "left" ELSE t = task /\ at' \in Streaming
  <2>1. StreamInv(t) /\ RunningInv(t)
    BY DEF RelayInv
  <2> QED BY <1>1, <1>6, <2>1 DEF StreamInv, RunningInv, ToStop
<1> QED BY <1>1, <1>3, <1>4, <1>5, <1>6, StopsStep

LEMMA FinishStep ==
  ASSUME RelayInv, Finish
  PROVE  RelayInv'
<1>1. /\ at = "end" /\ at' = "over" /\ done' = TRUE
      /\ IF done THEN UNCHANGED <<stopped, proc>> ELSE StopsAll(ToStop)
      /\ UNCHANGED <<engine, lines, pipe, strip, scan, waiter, chan, fwd, got, due, out, task,
                     user, active>>
  BY DEF Finish, Aside
<1>2. RelayTypeOK /\ PlaceInv /\ engine \in {"restore", "tasks", "logs"}
  BY RelayAssumption DEF RelayInv, RelayTypeOK
<1>3. engine # "logs" /\ PlaceInv' /\ ToStop \in SUBSET Streams
  BY <1>1, <1>2 DEF PlaceInv, PlacesOf, Streaming, ToStop, RelayTypeOK
<1>4. /\ at' \in Places /\ task' \in Streams /\ active' \in Streams \union {0} /\ done' \in BOOLEAN
      /\ out' \in 0..Cap /\ due' \in Nat /\ due' >= due /\ user' \in {"reads", "stopping", "left"}
  BY <1>1, <1>2 DEF RelayTypeOK, Places
<1>5. \A t \in Streams : ~Unstarted(t)' /\ (Quiet(t)' => Quiet(t))
  BY <1>1 DEF Unstarted, Quiet, Streaming
<1>6. \A t \in Streams : proc[t] # "running" /\ (user = "reads" => waiter[t] = "over")
  BY <1>1, <1>3 DEF RelayInv, RunningInv, WholeInv, Quiet, Streaming
<1>7. due' - out' - Bit(at' = "pass") = due - out - Bit(at = "pass")
  BY <1>1 DEF Bit
<1>8. CASE done
  BY <1>1, <1>3, <1>4, <1>5, <1>6, <1>7, <1>8, PlaceChange
<1>9. CASE ~done
  BY <1>1, <1>3, <1>4, <1>5, <1>6, <1>9, StopsStep
<1> QED BY <1>8, <1>9

LEMMA TakeStep ==
  ASSUME RelayInv, Take
  PROVE  RelayInv'
<1>1. /\ at = "relay" /\ chan[task] > 0 /\ at' = "pass"
      /\ chan' = [chan EXCEPT ![task] = chan[task] - 1]
      /\ UNCHANGED <<engine, proc, lines, pipe, strip, scan, waiter, stopped, fwd, user, got,
                     active, done, task, out, due>>
  BY DEF Take, Aside
<1>2. RelayTypeOK /\ PlaceInv /\ engine \in {"restore", "tasks", "logs"} /\ Cap \in Nat /\ RelayTypes
  BY RelayAssumption DEF RelayInv, RelayTypeOK
<1>3. engine # "logs" /\ PlaceInv'
  BY <1>1, <1>2 DEF PlaceInv, PlacesOf, Streaming
<1>4. /\ at' \in Places /\ task' \in Streams /\ active' \in Streams \union {0} /\ done' \in BOOLEAN
      /\ out' \in 0..Cap /\ due' \in Nat /\ got' \in 0..due' /\ user' \in {"reads", "stopping", "left"}
      /\ stopped' \in SUBSET Streams
  BY <1>1, <1>2 DEF RelayTypeOK, Places
<1>5. /\ chan' \in [Streams -> 0..Cap] /\ chan'[task] = chan[task] - 1
      /\ \A t \in Streams : t # task => chan'[t] = chan[t]
  <2>1. chan \in [Streams -> 0..Cap] /\ task \in Streams /\ chan[task] \in 0..Cap
    BY <1>2 DEF RelayTypes, RelayTypeOK
  <2> QED BY <1>1, <1>2, <2>1
<1>6. RelayTypes'
  BY <1>1, <1>2, <1>5 DEF RelayTypes
<1>7. ASSUME NEW t \in Streams
      PROVE  StreamInv(t)' /\ RunningInv(t)' /\ (user' = "reads" => WholeInv(t)')
  <2>1. StreamInv(t) /\ RunningInv(t) /\ (user = "reads" => WholeInv(t))
    BY DEF RelayInv
  <2>2. (Unstarted(t)' <=> Unstarted(t)) /\ (Quiet(t)' => Quiet(t) /\ t # task)
    BY <1>1, <1>3 DEF Unstarted, Quiet, Early, Streaming
  <2>3. StreamInv(t)' /\ RunningInv(t)'
    BY <1>1, <1>3, <2>1, <2>2 DEF StreamInv, RunningInv, Scanned, Streaming
  <2>4. user' = "reads" => WholeInv(t)'
    BY <1>1, <1>5, <2>1, <2>2 DEF WholeInv
  <2> QED BY <2>3, <2>4
<1>8. \A t \in Streams : t # task => Held(t)' = Held(t)
  BY <1>1, <1>5 DEF Held
<1>9. Held(task)' - Held(task) = (due' - got' - out' - Bit(at' = "pass"))
                                 - (due - got - out - Bit(at = "pass"))
  <2>1. due \in Int /\ got \in Int /\ out \in Int /\ task \in Streams
    BY <1>2 DEF RelayTypeOK
  <2>2. Bit(at' = "pass") = 1 /\ Bit(at = "pass") = 0
    BY <1>1 DEF Bit
  <2>3. Held(task)' = Held(task) - 1
    BY <1>1, <1>2, <1>5, <2>1, HeldParts DEF Held
  <2>4. Held(task) \in Nat
    BY <1>2, <2>1, HeldTyped
  <2> QED BY <1>1, <2>1, <2>2, <2>3, <2>4
<1>10. task \in Streams
  BY <1>2 DEF RelayTypeOK
<1> QED BY <1>1, <1>3, <1>4, <1>6, <1>7, <1>8, <1>9, <1>10, InvNext

\* Starting the command of a stream that was not started.
LEMMA CommandStarts ==
  ASSUME RelayInv, NEW s \in Streams, s = task, StartsCommand(s), at \in {"start", "open"},
         UNCHANGED <<engine, lines, pipe, chan, stopped, user, got, due, out, active, done>>,
         fwd' = [fwd EXCEPT ![s] = IF engine = "logs" THEN "range" ELSE "end"],
         at' \in Places, at' # "pass", at' \notin {"end", "over"},
         at' \in Early => task' > task,
         task' \in Streams, task' >= task, PlaceInv',
         IF engine = "logs" THEN user' # "left" ELSE at' \in Streaming /\ task' = task
  PROVE  RelayInv'
<1>1. RelayTypeOK /\ RelayTypes /\ PlaceInv /\ engine \in {"restore", "tasks", "logs"}
  BY RelayAssumption DEF RelayInv, RelayTypeOK
<1> DEFINE first == [p \in Pipes |-> IF engine = "logs" /\ p = "stderr" THEN "end" ELSE "read"]
<1>2. first \in [Pipes -> {"read", "send", "end"}]
  OBVIOUS
<1>3. /\ proc' = [proc EXCEPT ![s] = "running"] /\ waiter' = [waiter EXCEPT ![s] = "wait"]
      /\ scan' = [scan EXCEPT ![s] = first]
      /\ strip' = [strip EXCEPT ![s] = IF engine = "logs" THEN "read" ELSE "none"]
  BY DEF StartsCommand
<1>4. /\ first["stdout"] = "read" /\ first["stderr"] = IF engine = "logs" THEN "end" ELSE "read"
      /\ \A p \in Pipes : first[p] # "send" /\ (engine # "logs" => first[p] = "read")
  BY DEF Pipes
<1> HIDE DEF first
<1>5. RelayTypes'
  BY <1>1, <1>2, <1>3 DEF RelayTypes
<1>6. /\ proc'[s] = "running" /\ waiter'[s] = "wait" /\ scan'[s] = first
      /\ strip'[s] = (IF engine = "logs" THEN "read" ELSE "none")
      /\ fwd'[s] = (IF engine = "logs" THEN "range" ELSE "end")
  BY <1>1, <1>3 DEF RelayTypes
<1>7. \A t \in Streams : t # s => Same(t)
  BY <1>1, <1>3 DEF Same, RelayTypes
<1>8. Unstarted(s) /\ \A t \in Streams : Unstarted(t)' => Unstarted(t) /\ t # s
  <2>1. \A t \in Streams : t \in Int
    BY StreamNumbers
  <2> QED BY <1>1, <2>1 DEF Unstarted, Early
<1>9. /\ StreamInv(s) /\ RunningInv(s) /\ (user = "reads" => WholeInv(s))
  BY <1>1 DEF RelayInv
<1>10. StreamInv(s)' /\ RunningInv(s)' /\ (user' = "reads" => WholeInv(s)')
  <2>1. StreamInv(s)'
    BY <1>6, <1>8, <1>9 DEF StreamInv
  <2>2. RunningInv(s)'
    BY DEF RunningInv
  <2>3. ~Quiet(s)'
    BY <1>6 DEF Quiet
  <2>4. user' = "reads" => WholeInv(s)'
    <3>1. user = "reads" => s \notin stopped
      BY <1>8, <1>9 DEF WholeInv
    <3>2. \A p \in Pipes : ~(strip'[s] = "none" /\ scan'[s][p] = "end")
      BY <1>4, <1>6
    <3>3. strip'[s] # "end" /\ scan'[s]["stdout"] # "end"
      BY <1>4, <1>6
    <3> QED BY <2>3, <3>1, <3>2, <3>3 DEF WholeInv
  <2> QED BY <2>1, <2>2, <2>4
<1>11. ASSUME NEW t \in Streams, t # s
       PROVE  /\ StreamInv(t)' /\ RunningInv(t)' /\ (user' = "reads" => WholeInv(t)')
              /\ Held(t)' = Held(t)
  <2>1. Same(t) /\ StreamInv(t) /\ RunningInv(t) /\ (user = "reads" => WholeInv(t))
    BY <1>7, <1>11 DEF RelayInv
  <2>2. (Unstarted(t)' => Unstarted(t)) /\ (t \in stopped' => t \in stopped)
    BY <1>8
  <2>3. user' = "reads" => user = "reads" /\ (Quiet(t)' => Quiet(t))
    BY <1>11, <2>1 DEF Quiet, Same
  <2>4. proc[t] = "running" => IF engine = "logs" THEN user' # "left"
                               ELSE t = task' /\ at' \in Streaming
    BY <1>11, <2>1 DEF RunningInv
  <2> QED BY <2>1, <2>2, <2>3, <2>4, StreamKept
<1>12. user' = "reads" => Held(s)' - Held(s) = (due' - got' - out' - Bit(at' = "pass"))
                                               - (due - got - out - Bit(at = "pass"))
  <2>1. due \in Int /\ got \in Int /\ out \in Int
    BY <1>1 DEF RelayTypeOK
  <2>2. Bit(at' = "pass") = 0 /\ Bit(at = "pass") = 0
    BY DEF Bit
  <2>3. /\ strip[s] = "none" /\ waiter[s] = "over" /\ fwd[s] = "end"
        /\ scan[s]["stdout"] = "end" /\ scan[s]["stderr"] = "end"
    BY <1>8, <1>9 DEF StreamInv, Scanned, Pipes
  <2>4. /\ Bit(strip[s] = "write") = 0 /\ Bit(scan[s]["stdout"] = "send") = 0
        /\ Bit(scan[s]["stderr"] = "send") = 0 /\ Bit(waiter[s] = "error") = 0
        /\ Bit(fwd[s] = "send") = 0
    BY <2>3 DEF Bit
  <2>5. /\ Bit(strip'[s] = "write") = 0 /\ Bit(scan'[s]["stdout"] = "send") = 0
        /\ Bit(scan'[s]["stderr"] = "send") = 0 /\ Bit(waiter'[s] = "error") = 0
        /\ Bit(fwd'[s] = "send") = 0
    BY <1>4, <1>6 DEF Bit, Pipes
  <2>6. Held(s)' = Held(s) /\ Held(s) \in Nat
    BY <1>1, <2>4, <2>5, HeldTyped DEF Held
  <2> QED BY <2>1, <2>2, <2>6
<1>13. /\ active' \in Streams \union {0} /\ done' \in BOOLEAN /\ user' \in {"reads", "stopping", "left"}
       /\ out' \in 0..Cap /\ due' \in Nat /\ got' \in 0..due' /\ stopped' \in SUBSET Streams
  BY <1>1 DEF RelayTypeOK
<1>14. \A t \in Streams : StreamInv(t)' /\ RunningInv(t)' /\ (user' = "reads" => WholeInv(t)')
  BY <1>10, <1>11
<1> QED BY <1>5, <1>11, <1>12, <1>13, <1>14, InvNext

LEMMA StartStreamStep ==
  ASSUME RelayInv, StartStream
  PROVE  RelayInv'
<1>1. /\ at = "start"
      /\ \/ StartsCommand(task) /\ at' = "publish"
         \/ UNCHANGED <<proc, waiter, scan, strip>> /\ at' = "failed"
      /\ UNCHANGED <<engine, lines, pipe, chan, stopped, user, got, due, out, active, done, fwd, task>>
  BY DEF StartStream, Aside
<1>2. RelayTypeOK /\ RelayTypes /\ PlaceInv /\ engine \in {"restore", "tasks", "logs"}
  BY RelayAssumption DEF RelayInv, RelayTypeOK
<1>3. CASE StartsCommand(task) /\ at' = "publish"
  <2>1. PICK s \in Streams : s = task
    BY <1>2 DEF RelayTypeOK
  <2>2. engine # "logs" /\ PlaceInv'
    BY <1>1, <1>2, <1>3 DEF PlaceInv, PlacesOf, Streaming
  <2>3. fwd' = [fwd EXCEPT ![s] = IF engine = "logs" THEN "range" ELSE "end"]
    <3>1. fwd[s] = "end" /\ fwd' = fwd
      BY <1>1, <1>2, <2>2 DEF PlaceInv
    <3> QED BY <1>2, <2>2, <3>1 DEF RelayTypes
  <2>4. at' \in Places /\ at' \notin Early /\ at' \in Streaming
    BY <1>3 DEF Places, Early, Streaming
  <2>5. task' \in Streams /\ task' >= task
    BY <1>1, <1>2, StreamNumbers DEF RelayTypeOK
  <2> QED BY <1>1, <1>3, <2>1, <2>2, <2>3, <2>4, <2>5, CommandStarts
<1>4. CASE UNCHANGED <<proc, waiter, scan, strip>> /\ at' = "failed"
  <2>1. <<at, at'>> \in Turns
    BY <1>1, <1>4 DEF Turns
  <2> QED BY <1>1, <1>4, <2>1, TurnStep
<1> QED BY <1>1, <1>3, <1>4

LEMMA OpenLogStep ==
  ASSUME RelayInv, OpenLog
  PROVE  RelayInv'
<1>1. /\ at = "open"
      /\ \/ StartsCommand(task) /\ fwd' = [fwd EXCEPT ![task] = "range"]
         \/ UNCHANGED <<proc, waiter, scan, strip, fwd>>
      /\ \/ task < N /\ task' = task + 1 /\ at' = at
         \/ task' = task /\ at' = "gather"
      /\ UNCHANGED <<engine, lines, pipe, chan, stopped, user, got, due, out, active, done>>
  BY DEF OpenLog, More, Aside
<1>2. RelayTypeOK /\ RelayTypes /\ PlaceInv /\ engine \in {"restore", "tasks", "logs"}
  BY RelayAssumption DEF RelayInv, RelayTypeOK
<1>3. engine = "logs" /\ user = "reads" /\ at' \in {"open", "gather"}
  BY <1>1, <1>2 DEF PlaceInv, PlacesOf, Streaming
<1>4. task' \in Streams /\ task' >= task /\ (at' = "open" => task' > task)
  BY <1>1, <1>2, StreamNumbers DEF RelayTypeOK
<1>5. PlaceInv'
  BY <1>1, <1>2, <1>3 DEF PlaceInv, PlacesOf
<1>6. /\ at' \in Places /\ at' # "pass" /\ at' \notin {"end", "over"}
      /\ at' \in Early => at' = "open"
  BY <1>3 DEF Places, Early
<1>7. CASE StartsCommand(task) /\ fwd' = [fwd EXCEPT ![task] = "range"]
  <2>1. PICK s \in Streams : s = task
    BY <1>2 DEF RelayTypeOK
  <2> QED BY <1>1, <1>3, <1>4, <1>5, <1>6, <1>7, <2>1, CommandStarts
<1>8. CASE UNCHANGED <<proc, waiter, scan, strip, fwd>>
  <2>1. \A t \in Streams : (Unstarted(t)' => Unstarted(t)) /\ (Quiet(t)' => Quiet(t))
    <3>1. \A t \in Streams : t \in Int
      BY StreamNumbers
    <3> QED BY <1>1, <1>2, <1>3, <1>4, <1>6, <1>8, <3>1 DEF Unstarted, Quiet, Early, RelayTypeOK
  <2>2. /\ active' \in Streams \union {0} /\ done' \in BOOLEAN
        /\ out' \in 0..Cap /\ due' \in Nat /\ due' >= due
    BY <1>1, <1>2 DEF RelayTypeOK
  <2>3. due' - out' - Bit(at' = "pass") = due - out - Bit(at = "pass")
    BY <1>1, <1>3 DEF Bit
  <2> QED BY <1>1, <1>3, <1>4, <1>5, <1>6, <1>8, <2>1, <2>2, <2>3, PlaceChange
<1> QED BY <1>1, <1>7, <1>8

-----------------------------------------------------------------------------
(* The steps of the console. *)

LEMMA ShowStep ==
  ASSUME RelayInv, Show
  PROVE  RelayInv'
<1>1. /\ user = "reads" /\ out > 0 /\ out' = out - 1 /\ got' = got + 1
      /\ UNCHANGED <<engine, proc, lines, pipe, strip, scan, waiter, chan, stopped, fwd, user,
                     at, active, done, task, due>>
  BY DEF Show, inner
<1>2. RelayTypeOK /\ RelayTypes /\ PlaceInv /\ Cap \in Nat
  BY RelayAssumption DEF RelayInv, RelayTypeOK
<1>3. PlaceInv' /\ RelayTypes'
  BY <1>1, <1>2 DEF PlaceInv, RelayTypes
<1>4. ASSUME NEW t \in Streams
      PROVE  /\ StreamInv(t)' /\ RunningInv(t)' /\ (user' = "reads" => WholeInv(t)')
             /\ Held(t)' = Held(t)
  <2>1. StreamInv(t) /\ RunningInv(t) /\ (user = "reads" => WholeInv(t))
    BY DEF RelayInv
  <2>2. (Unstarted(t)' <=> Unstarted(t)) /\ (Quiet(t)' <=> Quiet(t))
    BY <1>1 DEF Unstarted, Quiet
  <2>3. StreamInv(t)' /\ RunningInv(t)' /\ (user' = "reads" => WholeInv(t)')
    BY <1>1, <2>1, <2>2 DEF StreamInv, RunningInv, WholeInv, Scanned
  <2>4. Held(t)' = Held(t)
    BY <1>1 DEF Held
  <2> QED BY <2>3, <2>4
<1>5. PICK s \in Streams : TRUE
  BY StreamNumbers
<1>6. /\ due \in Int /\ got \in Nat /\ out \in Int /\ Bit(at = "pass") \in {0, 1}
      /\ Bit(at' = "pass") = Bit(at = "pass")
  BY <1>1, <1>2 DEF RelayTypeOK, Bit
<1>7. Held(s)' - Held(s) = (due' - got' - out' - Bit(at' = "pass"))
                           - (due - got - out - Bit(at = "pass"))
  <2>1. Held(s) \in Nat /\ Held(s)' = Held(s)
    BY <1>2, <1>4, <1>5, HeldTyped
  <2> QED BY <1>1, <1>6, <2>1
<1>8. got' \in 0..due'
  <2>1. SumsTo(InFlight, due - got - out - Bit(at = "pass"))
    BY <1>1 DEF RelayInv, Accounted
  <2>2. InFlight \in [Streams -> Nat]
    BY <1>2, HeldTyped DEF InFlight
  <2>3. due - got - out - Bit(at = "pass") \in Nat
    BY <2>1, <2>2, SumSigned
  <2> QED BY <1>1, <1>6, <2>3
<1>9. /\ at' \in Places /\ task' \in Streams /\ active' \in Streams \union {0} /\ done' \in BOOLEAN
      /\ user' \in {"reads", "stopping", "left"} /\ out' \in 0..Cap /\ stopped' \in SUBSET Streams
      /\ due' \in Nat
  BY <1>1, <1>2 DEF RelayTypeOK
<1> QED BY <1>1, <1>3, <1>4, <1>5, <1>7, <1>8, <1>9, InvNext

LEMMA LeaveStep ==
  ASSUME RelayInv, Leave
  PROVE  RelayInv'
<1>1. /\ user = "reads" /\ at # "open"
      /\ \/ done /\ user' = "left" /\ done' = done
         \/ user' = "stopping" /\ done' = TRUE
      /\ UNCHANGED <<engine, proc, lines, pipe, strip, scan, waiter, chan, stopped, fwd,
                     at, active, task, out, due, got>>
  BY DEF Leave, inner
<1>2. RelayTypeOK /\ RelayTypes /\ PlaceInv
  BY DEF RelayInv, RelayTypeOK
<1>3. PlaceInv' /\ RelayTypes'
  BY <1>1, <1>2 DEF PlaceInv, RelayTypes
<1>4. ASSUME NEW t \in Streams
      PROVE  StreamInv(t)' /\ RunningInv(t)' /\ (user' = "reads" => WholeInv(t)')
  <2>1. StreamInv(t) /\ RunningInv(t)
    BY DEF RelayInv
  <2>2. (Unstarted(t)' <=> Unstarted(t))
    BY <1>1 DEF Unstarted
  <2>3. StreamInv(t)' /\ RunningInv(t)'
    BY <1>1, <1>2, <2>1, <2>2 DEF StreamInv, RunningInv, Scanned, PlaceInv
  <2> QED BY <1>1, <2>3
<1>5. PICK s \in Streams : TRUE
  BY StreamNumbers
<1>6. /\ at' \in Places /\ task' \in Streams /\ active' \in Streams \union {0} /\ done' \in BOOLEAN
      /\ user' \in {"reads", "stopping", "left"} /\ out' \in 0..Cap /\ stopped' \in SUBSET Streams
      /\ due' \in Nat /\ got' \in 0..due' /\ user' # "reads"
  BY <1>1, <1>2 DEF RelayTypeOK
<1> QED BY <1>1, <1>3, <1>4, <1>5, <1>6, InvNext

-----------------------------------------------------------------------------
(* The theorem. *)

LEMMA RelayStart == RelayInit => RelayInv
<1> SUFFICES ASSUME RelayInit PROVE RelayInv
  OBVIOUS
<1>1. /\ engine \in {"restore", "tasks", "logs"} /\ engine \in Engines
      /\ Cap \in Nat \ {0} /\ MaxLines \in Nat \ {0} /\ 1 \in Streams
  BY RelayAssumption, StreamNumbers DEF RelayInit
<1>2. at = IF engine = "restore" THEN "say" ELSE IF engine = "tasks" THEN "head" ELSE "open"
  BY <1>1 DEF RelayInit, Begins
<1>3. /\ task = 1 /\ active = 0 /\ done = FALSE /\ out = 0 /\ user = "reads" /\ due = 0 /\ got = 0
      /\ stopped = {}
      /\ \A s \in Streams :
           /\ proc[s] = "none" /\ lines[s] = 0 /\ strip[s] = "none" /\ waiter[s] = "over"
           /\ chan[s] = 0 /\ fwd[s] = "end"
           /\ \A p \in Pipes : pipe[s][p] = 0 /\ scan[s][p] = "end"
  BY DEF RelayInit
<1>4. RelayTypes
  <2>1. 0 \in 0..MaxLines /\ 0 \in 0..Cap /\ 0 \in 0..1
    BY <1>1
  <2> QED BY <2>1 DEF RelayInit, RelayTypes
<1>5. RelayTypeOK
  <2>1. 0 \in 0..MaxLines /\ 0 \in 0..Cap /\ 0 \in 0..1 /\ at \in Places
    BY <1>1, <1>2 DEF Places
  <2>2. /\ engine \in Engines /\ at \in Places /\ task \in Streams /\ active \in Streams \union {0}
        /\ done \in BOOLEAN /\ user \in {"reads", "stopping", "left"}
        /\ out \in 0..Cap /\ stopped \subseteq Streams
    BY <1>1, <1>3, <2>1
  <2>3. \A s \in Streams :
          /\ proc[s] \in {"none", "running", "gone"}
          /\ lines[s] \in 0..MaxLines /\ chan[s] \in 0..Cap
          /\ strip[s] \in {"none", "read", "write", "end"}
          /\ waiter[s] \in {"wait", "error", "stop", "over"}
          /\ fwd[s] \in {"range", "send", "end"}
          /\ \A p \in Pipes : pipe[s][p] \in 0..1 /\ scan[s][p] \in {"read", "send", "end"}
    BY <1>3, <2>1
  <2>4. due \in Nat /\ got \in 0..due
    BY <1>3
  <2> QED BY <2>2, <2>3, <2>4 DEF RelayTypeOK
<1>6. PlaceInv
  BY <1>1, <1>2, <1>3 DEF PlaceInv, PlacesOf
<1>7. ASSUME NEW s \in Streams PROVE StreamInv(s) /\ RunningInv(s) /\ WholeInv(s)
  <2>1. "stdout" \in Pipes /\ "stderr" \in Pipes
    BY DEF Pipes
  <2> QED BY <1>3, <2>1 DEF StreamInv, RunningInv, WholeInv, Scanned
<1>8. Accounted
  <2>1. \A s \in Streams : Held(s) = 0
    <3> SUFFICES ASSUME NEW s \in Streams PROVE Held(s) = 0
      OBVIOUS
    <3>1. /\ pipe[s]["stdout"] = 0 /\ pipe[s]["stderr"] = 0 /\ chan[s] = 0
          /\ Bit(strip[s] = "write") = 0 /\ Bit(scan[s]["stdout"] = "send") = 0
          /\ Bit(scan[s]["stderr"] = "send") = 0 /\ Bit(waiter[s] = "error") = 0
          /\ Bit(fwd[s] = "send") = 0
      BY <1>3 DEF Pipes, Bit
    <3> QED BY <3>1 DEF Held
  <2>2. InFlight = [s \in Streams |-> 0]
    BY <2>1 DEF InFlight
  <2> DEFINE g == [i \in 0..N |-> 0]
  <2>3. /\ g \in [0..N -> Int] /\ g[0] = 0 /\ g[N] = 0
        /\ \A s \in Streams : g[s] = g[s - 1] + InFlight[s]
    BY <2>2, StreamNumbers
  <2>4. due - got - out - Bit(at = "pass") = 0
    <3>1. Bit(at = "pass") = 0
      BY <1>2 DEF Bit
    <3> QED BY <1>3, <3>1
  <2> HIDE DEF g
  <2> QED BY <2>3, <2>4 DEF Accounted, SumsTo
<1> QED BY <1>4, <1>5, <1>6, <1>7, <1>8 DEF RelayInv

LEMMA RelayStep == RelayInv /\ [RelayNext]_relayVars => RelayInv'
<1> SUFFICES ASSUME RelayInv, [RelayNext]_relayVars PROVE RelayInv'
  OBVIOUS
<1>1. CASE Remote
  BY <1>1, ExitStep, WriteStep DEF Remote
<1>2. CASE UploadRemote \/ Action \/ Upload
  <2>1. \A from, next : <<from, next>> \in Turns /\ Goes(from, next) => RelayInv'
    BY GoesStep
  <2> QED BY <1>2, <2>1 DEF UploadRemote, Action, Upload, Turns
<1>3. ASSUME NEW s \in Streams, StreamStep(s) \/ Forward(s) PROVE RelayInv'
  BY <1>3, StripReadStep, StripEndStep, ScanReadStep, ScanSendStep, ScanEndStep, WaitedStep,
     SendErrorStep, CloseChannelStep, ForwardStep DEF StreamStep
<1>4. CASE ProducerStep
  <2>1. CASE \/ Say("say", "copy") \/ Say("starting", "start") \/ Say("failed", AfterFailure)
             \/ Say("banner", "start") \/ Say("banner", "action") \/ Say("done", "next")
             \/ Say("last", "end")
    <3>1. \A from, next : <<from, next>> \in Says /\ Say(from, next) => RelayInv'
      BY SayStep
    <3>2. Say("failed", AfterFailure) => RelayInv'
      BY SayStep
    <3> QED BY <2>1, <3>1, <3>2 DEF Says
  <2> QED BY <1>2, <1>4, <2>1, StartStreamStep, PublishStep, CheckStep, TakeStep, PassStep, RelayedStep,
             TaskHeadStep, NextTaskStep, OpenLogStep, GatheredStep, FinishStep DEF ProducerStep
<1>5. CASE Show \/ Leave \/ StopActive
  BY <1>5, ShowStep, LeaveStep, StopActiveStep
<1>6. CASE UNCHANGED relayVars
  <2>1. UNCHANGED <<engine, proc, lines, pipe, strip, scan, waiter, chan, stopped, fwd, user, got,
                    at, task, active, done, out, due>>
    BY <1>6 DEF relayVars, inner, outer
  <2>2. RelayTypeOK /\ PlaceInv /\ RelayTypes
    BY DEF RelayInv
  <2>3. PlaceInv'
    BY <2>1, <2>2 DEF PlaceInv
  <2>4. \A t \in Streams : (Unstarted(t)' => Unstarted(t)) /\ (Quiet(t)' => Quiet(t))
    BY <2>1 DEF Unstarted, Quiet
  <2>5. engine # "logs" => \A t \in Streams : proc[t] = "running" => t = task' /\ at' \in Streaming
    BY <2>1 DEF RelayInv, RunningInv
  <2>6. /\ at' \in Places /\ task' \in Streams /\ active' \in Streams \union {0} /\ done' \in BOOLEAN
        /\ out' \in 0..Cap /\ due' \in Nat /\ due' >= due
    BY <2>1, <2>2 DEF RelayTypeOK
  <2> QED BY <2>1, <2>3, <2>4, <2>5, <2>6, PlaceChange
<1> QED BY <1>1, <1>2, <1>3, <1>4, <1>5, <1>6 DEF RelayNext

LEMMA RelaySuffices == RelayInv => OutputRight
<1> SUFFICES ASSUME RelayInv PROVE OutputRight
  OBVIOUS
<1>1. RelayTypeOK /\ PlaceInv /\ RelayTypes /\ engine \in {"restore", "tasks", "logs"}
  BY RelayAssumption DEF RelayInv, RelayTypeOK
<1>2. ASSUME NEW s \in Streams, waiter[s] = "over" PROVE \A p \in Pipes : scan[s][p] # "send"
  BY <1>2 DEF RelayInv, StreamInv, Scanned
<1>3. at = "over" => \A s \in Streams : fwd[s] # "send"
  BY <1>1 DEF PlaceInv
<1>4. (at = "over" /\ user = "reads") => due = got + out
  <2> SUFFICES ASSUME at = "over", user = "reads" PROVE due = got + out
    OBVIOUS
  <2>1. ASSUME NEW s \in Streams PROVE Held(s) = 0
    <3>1. StreamInv(s) /\ WholeInv(s)
      BY DEF RelayInv
    <3>2. fwd[s] = "end" /\ Quiet(s)
      BY <1>1 DEF PlaceInv, Quiet, Streaming
    <3>3. waiter[s] = "over" /\ chan[s] = 0 /\ scan[s]["stdout"] = "end" /\ scan[s]["stderr"] = "end"
      BY <3>1, <3>2 DEF StreamInv, WholeInv, Scanned, Pipes
    <3>4. strip[s] # "write" /\ pipe[s]["stdout"] = 0 /\ pipe[s]["stderr"] = 0
      BY <3>1, <3>3 DEF StreamInv, WholeInv, Pipes
    <3>5. /\ Bit(strip[s] = "write") = 0 /\ Bit(scan[s]["stdout"] = "send") = 0
          /\ Bit(scan[s]["stderr"] = "send") = 0 /\ Bit(waiter[s] = "error") = 0
          /\ Bit(fwd[s] = "send") = 0
      BY <3>2, <3>3, <3>4 DEF Bit
    <3> QED BY <3>3, <3>4, <3>5 DEF Held
  <2>2. InFlight \in [Streams -> Nat] /\ \A s \in Streams : InFlight[s] = 0
    BY <2>1 DEF InFlight
  <2>3. SumsTo(InFlight, due - got - out - Bit(at = "pass"))
    BY DEF RelayInv, Accounted
  <2>4. due - got - out - Bit(at = "pass") = 0
    BY <2>2, <2>3, SumSigned
  <2>5. Bit(at = "pass") = 0
    BY DEF Bit
  <2>6. due \in Int /\ got \in Int /\ out \in Int
    BY <1>1 DEF RelayTypeOK
  <2>7. due - got - out - 0 = 0
    BY <2>4, <2>5
  <2> QED BY <2>6, <2>7
<1>5. NothingLeftRunning
  <2> SUFFICES ASSUME at = "over", user # "stopping", NEW s \in Streams PROVE proc[s] # "running"
    BY DEF NothingLeftRunning
  <2>1. StreamInv(s) /\ RunningInv(s) /\ (user = "reads" => WholeInv(s))
    BY DEF RelayInv
  <2>2. CASE engine # "logs"
    BY <2>1, <2>2 DEF RunningInv, Streaming
  <2>3. CASE engine = "logs" /\ user = "left"
    BY <2>1, <2>3 DEF RunningInv
  <2>4. CASE engine = "logs" /\ user = "reads"
    BY <1>1, <2>1, <2>4 DEF StreamInv, WholeInv, Quiet, PlaceInv
  <2> QED BY <1>1, <2>2, <2>3, <2>4 DEF RelayTypeOK
<1> QED BY <1>1, <1>2, <1>3, <1>4, <1>5 DEF OutputRight, ClosesLast

\* Every step of a stream, of an operation and of the console keeps the relay's
\* invariant.
THEOREM RelayInvariance == RelaySpec => []RelayInv
<1> QED BY RelayStart, RelayStep, PTL DEF RelaySpec

\* sshStream, streamLocalCmd, RestoreComposeProject, runComposeTasks, ComposeLogs:
\* no goroutine sends to a channel that was closed, an operation that nobody
\* stopped ends with all of its output, and none leaves a command behind.
THEOREM OutputCorrect == RelaySpec => []OutputRight
<1> QED BY RelayInvariance, RelaySuffices, PTL
=============================================================================
