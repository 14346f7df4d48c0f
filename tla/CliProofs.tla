----------------------------- MODULE CliProofs -----------------------------
(***************************************************************************)
(* Theorems about module Cli, for any commands, policies, hosts and number *)
(* of containers: a change reaches the engine only when the policy permits *)
(* it and its user confirmed it, each container is acted on once, a wait   *)
(* keeps its container, and the audit log tells the truth.                 *)
(***************************************************************************)
EXTENDS Cli, TLAPS

\* The command has a target and, if it writes, an audit log.
Begun == pc \in {"resolve", "dial", "invoke", "run", "act", "exec", "create", "stream", "returned"}
\* Its handler is at work.
Handled == pc \in {"run", "act", "exec", "create", "stream"}

\* Which handler it is, and what was decided before it began.
PathInv ==
  /\ Begun => ~inv.several /\ (Writes => log = "open")
  /\ Handled => ~inv.dry /\ Tier <= Ceiling(pol) /\ (Tier = TierDestructive => inv.yes)
  /\ pc = "act" => inv.op \in Lifecycle
  /\ pc = "exec" => inv.op = "exec"
  /\ pc = "create" => inv.op = "network create"
  /\ pc = "stream" => inv.op \in Compose

\* A request to the engine comes from a handler that writes.
SentInv ==
  /\ sent => /\ Writes /\ Tier <= Ceiling(pol) /\ ~inv.dry /\ ~inv.several
             /\ Tier = TierDestructive => inv.yes
             /\ pc \in {"act", "stream", "returned", "exited"}
  /\ pc \in {"returned", "exited"} /\ code \in {"forbidden", "confirmation_required"} => ~sent

\* The targets of a command: none until its handler resolved them, and those
\* still to do are containers.
TargetInv ==
  /\ pc \in {"parsed", "resolve", "dial", "invoke", "run", "create", "stream", "fanout"} => DOMAIN targets = {}
  /\ \A i \in DOMAIN targets :
       /\ targets[i].result = "todo" => targets[i].id \in Containers
       /\ targets[i].result \notin {"forbidden", "confirmation_required"}
  /\ pc = "exec" => DOMAIN targets = {1} /\ targets[1].result = "todo"

\* What the engine has confirmed, against what the command returns of it.
ResultInv ==
  /\ pc # "exited" => line = "none"
  /\ ~Handled /\ pc \notin {"returned", "exited"} => ~confirmed
  /\ pc \in {"run", "exec", "create", "stream"} => ~confirmed
  /\ pc # "stream" /\ ~(pc \in {"returned", "exited"} /\ code \in Codes) => failure = "none"
  /\ pc = "act" => (confirmed <=> \E i \in DOMAIN targets : targets[i].result = "ok")
  /\ pc = "returned" =>
       /\ code \in Codes => ~confirmed
       /\ code = "ok" => Failed = {} /\ (Writes /\ ~inv.dry => confirmed \/ DOMAIN targets = {})
       /\ code = "partial" => confirmed /\ Failed # {}

IInv == TypeOK /\ PathInv /\ SentInv /\ TargetInv /\ OneOutcomeEach /\ ResultInv /\ LogIsTrue

----------------------------------------------------------------------------
\* An empty sequence has no targets.
LEMMA NoTargets == DOMAIN <<>> = {} /\ <<>> \in [DOMAIN <<>> -> Target]
OBVIOUS

\* What the command line parser gives a handler.
LEMMA InvocationFacts ==
  ASSUME inv \in Invocations
  PROVE /\ inv.op \in Ops /\ inv.polls \in 0..MaxPolls
        /\ inv.refs \in Seq(Ref) /\ Len(inv.refs) \in 0..MaxRefs
        /\ inv.op \in {"wait", "exec"} => Len(inv.refs) = 1 /\ MaxRefs >= 1
<1>1. inv \in Invocation /\ Len(inv.refs) <= MaxRefs /\ (inv.op \in {"wait", "exec"} => Len(inv.refs) = 1)
  BY CliAssumption
<1>2. inv.op \in Ops /\ inv.polls \in 0..MaxPolls /\ inv.refs \in Seq(Ref)
  BY <1>1 DEF Invocation
<1>3. Len(inv.refs) \in Nat /\ MaxRefs \in Nat
  BY <1>2, CliAssumption
<1>4. Len(inv.refs) \in 0..MaxRefs
  BY <1>1, <1>3
<1>5. Len(inv.refs) = 1 => MaxRefs >= 1
  BY <1>1, <1>3
<1> QED
  BY <1>1, <1>2, <1>4, <1>5

\* No container has the ID that stands for none.
LEMMA NoIdApart == NoId \notin Containers
BY DEF Containers, NoId

\* Tiers and ceilings are numbers.
LEMMA TierFacts ==
  ASSUME inv \in Invocations, pol \in Policies
  PROVE Tier \in Tiers /\ (Tier > Ceiling(pol) \/ Tier <= Ceiling(pol))
<1>1. Tier \in Tiers
  BY InvocationFacts DEF Tier, TierOf, Tiers, TierRead, TierSafe, TierDestructive
<1>2. pol \in Policy
  BY CliAssumption
<1>3. Ceiling(pol) \in Int
  BY <1>2 DEF Ceiling, MaxTier, Policy, Layer, Tiers, TierRead, TierSafe, TierDestructive
<1>4. Tier \in Int
  BY <1>1 DEF Tiers, TierRead, TierDestructive
<1>5. Tier > Ceiling(pol) \/ Tier <= Ceiling(pol)
  BY <1>3, <1>4
<1> QED
  BY <1>1, <1>5

\* A tier above "read" is one that writes.
LEMMA TierWrites == Tier = TierSafe \/ Tier = TierDestructive => Writes
BY DEF Writes, TierRead, TierSafe, TierDestructive

\* The commands whose handlers change something.
LEMMA WritingOps ==
  ASSUME \/ inv.op \in Lifecycle \/ inv.op \in Compose
         \/ inv.op \in {"exec", "network create", "system prune"}
  PROVE Writes
<1>1. CASE inv.op \in {"start", "stop", "restart", "compose up", "network create"}
  <2>1. Tier = TierSafe
    BY <1>1 DEF Tier, TierOf
  <2> QED
    BY <2>1, TierWrites
<1>2. CASE inv.op \in {"kill", "rm", "rm -f", "compose down", "exec", "system prune"}
  <2>1. Tier = TierDestructive
    BY <1>2 DEF Tier, TierOf
  <2> QED
    BY <2>1, TierWrites
<1> QED
  BY <1>1, <1>2 DEF Lifecycle, Compose

\* A ceiling that admits a write is one the policy promises (Policy.resolve).
LEMMA CeilingPermits ==
  ASSUME NEW p \in Policy, NEW t \in Tiers, t > TierRead, t <= Ceiling(p)
  PROVE Permits(p, t)
<1> USE DEF Policy, Layer, Tiers, TierRead, TierSafe, TierDestructive, Unset, Invalid
<1>1. ~p.readOnly /\ ~p.hostReadOnly /\ (IF Allow(p) = "unset" THEN p.flag ELSE Allow(p) = "yes")
  BY DEF Ceiling
<1>2. t <= MaxTier(p)
  BY <1>1 DEF Ceiling
<1>3. \/ p.host.allow = "yes"
      \/ p.host.allow = "unset" /\ p.global.allow = "yes"
      \/ p.host.allow = "unset" /\ p.global.allow = "unset" /\ p.flag
  BY <1>1 DEF Allow
<1>4. \/ p.host.max >= t
      \/ p.host.max = Unset /\ p.global.max >= t
      \/ p.host.max = Unset /\ p.global.max = Unset /\ t <= TierSafe
  BY <1>2 DEF MaxTier
<1> QED
  BY <1>1, <1>3, <1>4 DEF Permits

\* A resolved reference is a container still to act on, or a failed target.
LEMMA ResolvedFacts ==
  ASSUME NEW r
  PROVE /\ Resolved(r) \in Target
        /\ Resolved(r).id = NoId => Resolved(r).result \in {"not_found", "usage"}
        /\ Resolved(r).id # NoId => Resolved(r).id \in Containers /\ Resolved(r).result = "todo"
        /\ Resolved(r).result = "todo" => Resolved(r).id \in Containers
<1>1. CASE \E c \in Listed : Hits(r) = {c}
  <2>1. PICK c \in Listed : c = CHOOSE d \in Listed : Hits(r) = {d}
    BY <1>1
  <2>2. c \in Containers /\ c # NoId
    BY <2>1, NoIdApart DEF Listed
  <2>3. Resolved(r) = [id |-> c, result |-> "todo"]
    BY <1>1, <2>1 DEF Resolved
  <2> QED
    BY <2>2, <2>3 DEF Target
<1>2. CASE ~ \E c \in Listed : Hits(r) = {c}
  <2>1. Resolved(r) = [id |-> NoId, result |-> IF Hits(r) = {} THEN "not_found" ELSE "usage"]
    BY <1>2 DEF Resolved
  <2> QED
    BY <2>1 DEF Target, Codes
<1> QED
  BY <1>1, <1>2

\* The outcomes a command starts with are in its slots.
LEMMA WantedFacts ==
  ASSUME inv \in Invocations, NEW i \in Kept
  PROVE /\ i \in Slots
        /\ Wanted(i) \in Target
        /\ Wanted(i).result \in {"todo", "not_found", "usage"}
        /\ Wanted(i).id \in Containers => Wanted(i).result = "todo"
        /\ Wanted(i).result = "todo" => Wanted(i).id \in Containers
<1> USE CliAssumption
<1>1. i \in Given
  BY DEF Kept
<1>2. i \in Slots
  BY <1>1, InvocationFacts DEF Given, Slots
<1>3. CASE i <= MaxRefs
  <2>1. Wanted(i) = Resolved(inv.refs[i])
    BY <1>3 DEF Wanted
  <2> QED
    BY <1>2, <2>1, NoIdApart, ResolvedFacts
<1>4. CASE ~(i <= MaxRefs)
  <2>1. Wanted(i) = [id |-> i - MaxRefs, result |-> "todo"]
    BY <1>4 DEF Wanted
  <2>2. i - MaxRefs \in Containers
    BY <1>2, <1>4 DEF Slots, Containers
  <2> QED
    BY <1>2, <2>1, <2>2 DEF Target
<1> QED
  BY <1>3, <1>4

----------------------------------------------------------------------------
\* The command and the engine start well formed.
LEMMA InitTypeOK == Init => TypeOK
<1> SUFFICES ASSUME Init PROVE TypeOK
  OBVIOUS
<1>1. DOMAIN targets \subseteq Slots /\ targets \in [DOMAIN targets -> Target]
  BY NoTargets DEF Init
<1> QED
  BY <1>1, CliAssumption DEF Init, TypeOK, Outcome, NoId

\* Every step keeps the types.
LEMMA StepTypeOK == TypeOK /\ PathInv /\ TargetInv /\ [Next]_vars => TypeOK'
<1> SUFFICES ASSUME TypeOK, PathInv, TargetInv, [Next]_vars PROVE TypeOK'
  OBVIOUS
<1>1. CASE FanOut
  BY <1>1 DEF FanOut, TypeOK, Returns, Exits, Goto, engine, history, Outcome, Codes
<1>2. CASE OpenLog
  BY <1>2 DEF OpenLog, TypeOK, Returns, Exits, Goto, engine, history, Outcome, Codes
<1>3. CASE Resolve
  BY <1>3 DEF Resolve, TypeOK, Returns, Exits, Goto, engine, history, Outcome, Codes
<1>4. CASE Dial
  BY <1>4 DEF Dial, TypeOK, Returns, Exits, Goto, engine, history, Outcome, Codes
<1>5. CASE Invoke
  <2>1. left' \in Nat
    BY <1>5, InvocationFacts, CliAssumption DEF Invoke, TypeOK
  <2> QED
    BY <1>5, <2>1 DEF Invoke, TypeOK, Returns, Goto, engine, history, Outcome, Codes
<1>6. CASE CallFails
  <2>1. pc' \in {"run", "stream", "create", "returned"} /\ code' \in Outcome
    BY <1>6 DEF CallFails, TypeOK, Returns, Goto, Outcome, Codes
  <2>2. UNCHANGED <<state, name, net, inv, pol, log, targets, waitId, left, failure, line, exit, host, sent, confirmed, acts>>
    BY <1>6 DEF CallFails, engine, history
  <2> QED
    BY <2>1, <2>2 DEF TypeOK
<1>7. CASE ListTargets
  <2>1. DOMAIN targets' \subseteq Slots /\ targets' \in [DOMAIN targets' -> Target]
    BY <1>7, WantedFacts DEF ListTargets, TypeOK
  <2> QED
    BY <1>7, <2>1 DEF ListTargets, TypeOK, Returns, Goto, engine, history, Outcome, Codes
<1>8. ASSUME NEW i \in Slots, Act(i) PROVE TypeOK'
  <2>1. i \in DOMAIN targets /\ targets[i] \in Target /\ targets[i].id \in Containers
    BY <1>8 DEF Act, Current, Todo, TypeOK, TargetInv
  <2>2. PICK out \in {"ok", "not_found", "internal", "connection"} :
          /\ targets' = [targets EXCEPT ![i].result = out]
          /\ confirmed' = (confirmed \/ out = "ok")
          /\ state' = state \/ (/\ After(inv.op, state[targets[i].id]) # "refused"
                               /\ state' = [state EXCEPT ![targets[i].id] = After(inv.op, state[targets[i].id])])
    BY <1>8 DEF Act
  <2>3. DOMAIN targets' \subseteq Slots /\ targets' \in [DOMAIN targets' -> Target]
    BY <2>1, <2>2 DEF TypeOK, Target, Codes
  <2>4. state' \in [Containers -> {"unborn", "running", "exited", "removed"}]
    BY <2>1, <2>2 DEF TypeOK, After
  <2>5. acts' \in [Containers -> Nat] /\ confirmed' \in BOOLEAN
    BY <1>8, <2>1, <2>2 DEF Act, TypeOK
  <2> QED
    BY <1>8, <2>3, <2>4, <2>5 DEF Act, TypeOK
<1>9. CASE Acted
  BY <1>9 DEF Acted, TypeOK, Returns, engine, history
<1>10. CASE Poll
  <2>1. /\ Find.id \in Containers \cup {NoId}
        /\ Find.id = NoId => Find.result \in Codes
    <3>1. CASE waitId = NoId
      BY <3>1, ResolvedFacts DEF Find, Codes, Target
    <3>2. CASE waitId # NoId
      BY <3>2 DEF Find, Codes, TypeOK
    <3> QED
      BY <3>1, <3>2
  <2>2. left' \in Nat
    BY <1>10 DEF Poll, TypeOK
  <2>3. pc' \in {"run", "returned"} /\ code' \in Outcome /\ waitId' \in Containers \cup {NoId}
    BY <1>10, <2>1 DEF Poll, TypeOK, Returns, Outcome, Codes
  <2> QED
    BY <1>10, <2>2, <2>3 DEF Poll, TypeOK, engine, history
<1>11. CASE ExecTarget
  <2> DEFINE t == Resolved(inv.refs[1])
  <2>1. t \in Target /\ (t.id = NoId => t.result \in Codes)
    BY ResolvedFacts DEF Codes
  <2>2. 1 \in Slots
    BY <1>11, InvocationFacts, CliAssumption DEF ExecTarget, TypeOK, Slots
  <2>3. DOMAIN targets' \subseteq Slots /\ targets' \in [DOMAIN targets' -> Target]
    <3>1. CASE targets' = targets
      BY <3>1 DEF TypeOK
    <3>2. CASE targets' = <<t>>
      BY <2>1, <2>2, <3>2
    <3> QED
      BY <1>11, <3>1, <3>2 DEF ExecTarget
  <2> QED
    BY <1>11, <2>1, <2>3 DEF ExecTarget, TypeOK, Returns, Goto, engine, history, Outcome, Codes
<1>12. CASE Exec
  <2>1. 1 \in DOMAIN targets /\ targets[1] \in Target /\ targets[1].id \in Containers
    BY <1>12 DEF Exec, TypeOK, TargetInv
  <2>2. PICK out \in {"ok", "not_found", "internal", "connection", "timeout"} :
          /\ targets' = [targets EXCEPT ![1].result = out]
          /\ confirmed' = (out = "ok")
          /\ Returns(out)
    BY <1>12 DEF Exec
  <2>3. DOMAIN targets' \subseteq Slots /\ targets' \in [DOMAIN targets' -> Target]
    BY <2>1, <2>2 DEF TypeOK, Target, Codes
  <2> QED
    BY <1>12, <2>1, <2>2, <2>3 DEF Exec, TypeOK, Returns, engine, Outcome, Codes
<1>13. CASE StartStream
  <2>1. pc' \in {"run", "stream", "create", "returned"} /\ code' \in Outcome /\ sent' \in BOOLEAN
    BY <1>13 DEF StartStream, TypeOK, Returns, Goto, Outcome, Codes
  <2>2. UNCHANGED <<state, name, net, inv, pol, log, targets, waitId, left, failure, line, exit, host, confirmed, acts>>
    BY <1>13 DEF StartStream, engine, history
  <2> QED
    BY <2>1, <2>2 DEF TypeOK
<1>14. ASSUME NEW e \in {"none", "internal", "not_found", "connection"}, Line(e) PROVE TypeOK'
  BY <1>14 DEF Line, TypeOK, Returns, Exits, Goto, engine, history, Outcome, Codes
<1>15. CASE StreamEnd
  BY <1>15 DEF StreamEnd, TypeOK, Returns, Exits, Goto, engine, history, Outcome, Codes
<1>16. CASE CheckCreate
  <2>1. pc' \in {"run", "stream", "create", "returned"} /\ code' \in Outcome
    BY <1>16 DEF CheckCreate, TypeOK, Returns, Goto, Outcome, Codes
  <2>2. UNCHANGED <<state, name, net, inv, pol, log, targets, waitId, left, failure, line, exit, host, sent, confirmed, acts>>
    BY <1>16 DEF CheckCreate, engine, history
  <2> QED
    BY <2>1, <2>2 DEF TypeOK
<1>17. CASE CreateNetwork
  <2>1. pc' \in {"run", "stream", "create", "returned"} /\ code' \in Outcome /\ net' \in BOOLEAN /\ sent' \in BOOLEAN /\ confirmed' \in BOOLEAN
    BY <1>17 DEF CreateNetwork, TypeOK, Returns, Goto, Outcome, Codes
  <2>2. UNCHANGED <<state, name, inv, pol, log, targets, waitId, left, failure, line, exit, host, acts>>
    BY <1>17 DEF CreateNetwork, engine, history
  <2> QED
    BY <2>1, <2>2 DEF TypeOK
<1>18. CASE SystemPrune
  <2>1. PICK gone \in SUBSET Containers : state' = [c \in Containers |-> IF c \in gone THEN "removed" ELSE state[c]]
    BY <1>18 DEF SystemPrune
  <2>2. state' \in [Containers -> {"unborn", "running", "exited", "removed"}]
    BY <2>1 DEF TypeOK
  <2>3. /\ pc' = "returned" /\ code' \in Outcome /\ sent' = TRUE /\ confirmed' \in BOOLEAN
        /\ UNCHANGED <<name, net, inv, pol, log, targets, waitId, left, failure, line, exit, host, acts>>
    BY <1>18 DEF SystemPrune, Returns, Outcome, Codes
  <2> QED
    BY <2>2, <2>3 DEF TypeOK
<1>19. CASE Read
  <2>1. pc' \in {"run", "stream", "create", "returned"} /\ code' \in Outcome
    BY <1>19 DEF Read, TypeOK, Returns, Goto, Outcome, Codes
  <2>2. UNCHANGED <<state, name, net, inv, pol, log, targets, waitId, left, failure, line, exit, host, sent, confirmed, acts>>
    BY <1>19 DEF Read, engine, history
  <2> QED
    BY <2>1, <2>2 DEF TypeOK
<1>20. ASSUME NEW h \in Hosts, Ask(h) PROVE TypeOK'
  BY <1>20 DEF Ask, TypeOK, Returns, Exits, Goto, engine, history, Outcome, Codes
<1>21. ASSUME NEW h \in Hosts, NEW out \in HostCodes \cup {"answered"}, Answer(h, out) PROVE TypeOK'
  BY <1>21, CliAssumption DEF Answer, TypeOK, engine, history
<1>22. CASE Collect
  <2>1. exit' \in Outcome
    BY <1>22, CliAssumption DEF Collect, Exits, Answered, Hosts, TypeOK, Outcome, Codes
  <2> QED
    BY <1>22, <2>1 DEF Collect, TypeOK, Exits, engine, history
<1>23. CASE Finish
  BY <1>23 DEF Finish, TypeOK, Exits, Entry, engine, history, Outcome, Codes
<1>24. CASE OtherClient
  <2>1. state' \in [Containers -> {"unborn", "running", "exited", "removed"}] /\ net' \in BOOLEAN
        /\ name' \in [Containers -> Names]
    BY <1>24 DEF OtherClient, TypeOK, Listed
  <2> QED
    BY <1>24, <2>1 DEF OtherClient, TypeOK, history
<1>25. CASE UNCHANGED vars
  BY <1>25 DEF TypeOK, vars, engine, history
<1> QED
  BY <1>1, <1>2, <1>3, <1>4, <1>5, <1>6, <1>7, <1>8, <1>9, <1>10, <1>11, <1>12, <1>13, <1>14, <1>15, <1>16, <1>17, <1>18, <1>19, <1>20, <1>21, <1>22, <1>23, <1>24, <1>25 DEF Next, Step

----------------------------------------------------------------------------
\* The command line and the policy stay what they are.
LEMMA SameCommand ==
  ASSUME [Next]_vars
  PROVE UNCHANGED <<inv, pol>> /\ (Tier' = Tier) /\ (Writes' = Writes) /\ (Ceiling(pol)' = Ceiling(pol))
<1>1. UNCHANGED <<inv, pol>>
  BY DEF Next, Step, FanOut, OpenLog, Resolve, Dial, Invoke, CallFails, ListTargets, Act, Acted, Poll,
     ExecTarget, Exec, StartStream, Line, StreamEnd, CheckCreate, CreateNetwork, SystemPrune, Read, Ask, Answer,
     Collect, Finish, OtherClient, vars
<1> QED
  BY <1>1 DEF Tier, Writes, Ceiling, MaxTier, Allow

\* The command begins with nothing decided.
LEMMA InitPathInv == Init => PathInv /\ SentInv
BY DEF Init, PathInv, SentInv, Begun, Handled

\* Each step of the code decides what its place says is decided.
LEMMA StepPathInv == TypeOK /\ PathInv /\ [Next]_vars => PathInv'
<1> SUFFICES ASSUME TypeOK, PathInv, [Next]_vars PROVE PathInv'
  OBVIOUS
<1>same. /\ inv' = inv /\ pol' = pol
         /\ (Tier' = Tier) /\ (Writes' = Writes) /\ (Ceiling(pol)' = Ceiling(pol))
  BY SameCommand
<1> USE <1>same DEF PathInv, Begun, Handled, Returns, Exits, Goto
<1>1. CASE FanOut
  BY <1>1 DEF FanOut, engine, history
<1>2. CASE OpenLog
  BY <1>2 DEF OpenLog, engine, history
<1>3. CASE Resolve
  BY <1>3 DEF Resolve, engine, history
<1>4. CASE Dial
  BY <1>4 DEF Dial, engine, history
<1>5. CASE Invoke
  <2>1. Tier > Ceiling(pol) \/ Tier <= Ceiling(pol)
    BY TierFacts DEF TypeOK
  <2> QED
    BY <1>5, <2>1 DEF Invoke, PlansOnly, engine, history
<1>6. CASE CallFails
  BY <1>6 DEF CallFails, engine, history
<1>7. CASE ListTargets
  BY <1>7 DEF ListTargets, engine, history
<1>8. ASSUME NEW i \in Slots, Act(i) PROVE PathInv'
  BY <1>8 DEF Act, engine, history
<1>9. CASE Acted
  BY <1>9 DEF Acted, engine, history
<1>10. CASE Poll
  BY <1>10 DEF Poll, engine, history
<1>11. CASE ExecTarget
  BY <1>11 DEF ExecTarget, engine, history
<1>12. CASE Exec
  BY <1>12 DEF Exec, engine, history
<1>13. CASE StartStream
  BY <1>13 DEF StartStream, engine, history
<1>14. ASSUME NEW e \in {"none", "internal", "not_found", "connection"}, Line(e) PROVE PathInv'
  BY <1>14 DEF Line, engine, history
<1>15. CASE StreamEnd
  BY <1>15 DEF StreamEnd, engine, history
<1>16. CASE CheckCreate
  BY <1>16 DEF CheckCreate, engine, history
<1>17. CASE CreateNetwork
  BY <1>17 DEF CreateNetwork, engine, history
<1>18. CASE SystemPrune
  BY <1>18 DEF SystemPrune, engine, history
<1>19. CASE Read
  BY <1>19 DEF Read, engine, history
<1>20. ASSUME NEW h \in Hosts, Ask(h) PROVE PathInv'
  BY <1>20 DEF Ask, engine, history
<1>21. ASSUME NEW h \in Hosts, NEW out \in HostCodes \cup {"answered"}, Answer(h, out) PROVE PathInv'
  BY <1>21 DEF Answer, engine, history
<1>22. CASE Collect
  BY <1>22 DEF Collect, engine, history
<1>23. CASE Finish
  BY <1>23 DEF Finish, engine, history
<1>24. CASE OtherClient
  BY <1>24 DEF OtherClient, engine, history
<1>25. CASE UNCHANGED vars
  BY <1>25 DEF vars, engine, history
<1> QED
  BY <1>1, <1>2, <1>3, <1>4, <1>5, <1>6, <1>7, <1>8, <1>9, <1>10, <1>11, <1>12, <1>13, <1>14, <1>15, <1>16, <1>17, <1>18, <1>19, <1>20, <1>21, <1>22, <1>23, <1>24, <1>25 DEF Next, Step

\* Only a handler that writes sends a request that changes something.
LEMMA StepSentInv == TypeOK /\ PathInv /\ SentInv /\ TargetInv /\ [Next]_vars => SentInv'
<1> SUFFICES ASSUME TypeOK, PathInv, SentInv, TargetInv, [Next]_vars PROVE SentInv'
  OBVIOUS
<1>same. /\ inv' = inv /\ pol' = pol
         /\ (Tier' = Tier) /\ (Writes' = Writes) /\ (Ceiling(pol)' = Ceiling(pol))
  BY SameCommand
<1> USE <1>same DEF PathInv, SentInv, Begun, Handled, Returns, Exits, Goto
<1>0. inv.op \in Lifecycle \/ inv.op \in Compose \/ inv.op \in {"exec", "network create", "system prune"} => Writes
  BY WritingOps
<1>1. CASE FanOut
  BY <1>1 DEF FanOut, engine, history
<1>2. CASE OpenLog
  BY <1>2 DEF OpenLog, engine, history
<1>3. CASE Resolve
  BY <1>3 DEF Resolve, engine, history
<1>4. CASE Dial
  BY <1>4 DEF Dial, engine, history
<1>5. CASE Invoke
  BY <1>5 DEF Invoke, engine, history
<1>6. CASE CallFails
  BY <1>6 DEF CallFails, engine, history
<1>7. CASE ListTargets
  BY <1>7 DEF ListTargets, engine, history
<1>8. ASSUME NEW i \in Slots, Act(i) PROVE SentInv'
  BY <1>0, <1>8 DEF Act, engine, history
<1>9. CASE Acted
  <2>1. code' \notin {"forbidden", "confirmation_required"}
    BY <1>9 DEF Acted, ActionResult, Failed, TargetInv
  <2> QED
    BY <1>9, <2>1 DEF Acted, engine, history
<1>10. CASE Poll
  BY <1>10 DEF Poll, engine, history
<1>11. CASE ExecTarget
  BY <1>11 DEF ExecTarget, engine, history
<1>12. CASE Exec
  BY <1>0, <1>12 DEF Exec, engine, history
<1>13. CASE StartStream
  BY <1>0, <1>13 DEF StartStream, engine, history
<1>14. ASSUME NEW e \in {"none", "internal", "not_found", "connection"}, Line(e) PROVE SentInv'
  BY <1>14 DEF Line, engine, history
<1>15. CASE StreamEnd
  <2>1. failure \notin {"forbidden", "confirmation_required"}
    BY DEF TypeOK
  <2> QED
    BY <1>15, <2>1 DEF StreamEnd, engine, history
<1>16. CASE CheckCreate
  BY <1>16 DEF CheckCreate, engine, history
<1>17. CASE CreateNetwork
  BY <1>0, <1>17 DEF CreateNetwork, engine, history
<1>18. CASE SystemPrune
  BY <1>0, <1>18 DEF SystemPrune, engine, history
<1>19. CASE Read
  BY <1>19 DEF Read, engine, history
<1>20. ASSUME NEW h \in Hosts, Ask(h) PROVE SentInv'
  BY <1>20 DEF Ask, engine, history
<1>21. ASSUME NEW h \in Hosts, NEW out \in HostCodes \cup {"answered"}, Answer(h, out) PROVE SentInv'
  BY <1>21 DEF Answer, engine, history
<1>22. CASE Collect
  BY <1>22 DEF Collect, engine, history
<1>23. CASE Finish
  BY <1>23 DEF Finish, engine, history
<1>24. CASE OtherClient
  BY <1>24 DEF OtherClient, engine, history
<1>25. CASE UNCHANGED vars
  BY <1>25 DEF vars, engine, history
<1> QED
  BY <1>1, <1>2, <1>3, <1>4, <1>5, <1>6, <1>7, <1>8, <1>9, <1>10, <1>11, <1>12, <1>13, <1>14, <1>15, <1>16, <1>17, <1>18, <1>19, <1>20, <1>21, <1>22, <1>23, <1>24, <1>25 DEF Next, Step

----------------------------------------------------------------------------
\* Targets are resolved to containers, once, and an outcome replaces one to do.
LEMMA StepTargetInv == TypeOK /\ TargetInv /\ [Next]_vars => TargetInv'
<1> SUFFICES ASSUME TypeOK, TargetInv, [Next]_vars PROVE TargetInv'
  OBVIOUS
<1> USE DEF TargetInv, Returns, Exits, Goto
<1>1. CASE FanOut
  BY <1>1 DEF FanOut, engine, history
<1>2. CASE OpenLog
  BY <1>2 DEF OpenLog, engine, history
<1>3. CASE Resolve
  BY <1>3 DEF Resolve, engine, history
<1>4. CASE Dial
  BY <1>4 DEF Dial, engine, history
<1>5. CASE Invoke
  BY <1>5 DEF Invoke, engine, history
<1>6. CASE CallFails
  BY <1>6 DEF CallFails, engine, history
<1>7. CASE ListTargets
  <2>1. CASE targets' = targets /\ pc' = "returned"
    BY <2>1
  <2>2. CASE targets' = [i \in Kept |-> Wanted(i)] /\ pc' = "act"
    BY <2>2, WantedFacts DEF TypeOK
  <2> QED
    BY <1>7, <2>1, <2>2 DEF ListTargets
<1>8. ASSUME NEW i \in Slots, Act(i) PROVE TargetInv'
  <2>1. PICK out \in {"ok", "not_found", "internal", "connection"} :
          targets' = [targets EXCEPT ![i].result = out]
    BY <1>8 DEF Act
  <2>2. pc' = "act"
    BY <1>8 DEF Act
  <2>3. \A j \in DOMAIN targets' :
          /\ targets'[j].id = targets[j].id
          /\ targets'[j].result = targets[j].result \/ targets'[j].result = out
    BY <2>1 DEF TypeOK, Target
  <2> QED
    BY <2>1, <2>2, <2>3
<1>9. CASE Acted
  BY <1>9 DEF Acted, engine, history
<1>10. CASE Poll
  BY <1>10 DEF Poll, engine, history
<1>11. CASE ExecTarget
  <2> DEFINE t == Resolved(inv.refs[1])
  <2>1. CASE targets' = targets /\ pc' = "returned"
    BY <2>1
  <2>2. CASE targets' = <<t>> /\ pc' = "exec" /\ t.id # NoId
    <3>1. t.id \in Containers /\ t.result = "todo"
      BY <2>2, ResolvedFacts
    <3>2. DOMAIN targets' = {1} /\ targets'[1] = t
      BY <2>2
    <3> HIDE DEF t
    <3> QED
      BY <2>2, <3>1, <3>2
  <2> QED
    BY <1>11, <2>1, <2>2 DEF ExecTarget
<1>12. CASE Exec
  <2>1. PICK out \in {"ok", "not_found", "internal", "connection", "timeout"} :
          targets' = [targets EXCEPT ![1].result = out]
    BY <1>12 DEF Exec
  <2>2. pc' = "returned" /\ DOMAIN targets = {1}
    BY <1>12 DEF Exec
  <2>3. targets'[1].result = out
    BY <2>1, <2>2 DEF TypeOK, Target
  <2> QED
    BY <2>1, <2>2, <2>3
<1>13. CASE StartStream
  BY <1>13 DEF StartStream, engine, history
<1>14. ASSUME NEW e \in {"none", "internal", "not_found", "connection"}, Line(e) PROVE TargetInv'
  BY <1>14 DEF Line, engine, history
<1>15. CASE StreamEnd
  BY <1>15 DEF StreamEnd, engine, history
<1>16. CASE CheckCreate
  BY <1>16 DEF CheckCreate, engine, history
<1>17. CASE CreateNetwork
  BY <1>17 DEF CreateNetwork, engine, history
<1>18. CASE SystemPrune
  BY <1>18 DEF SystemPrune, engine, history
<1>19. CASE Read
  BY <1>19 DEF Read, engine, history
<1>20. ASSUME NEW h \in Hosts, Ask(h) PROVE TargetInv'
  BY <1>20 DEF Ask, engine, history
<1>21. ASSUME NEW h \in Hosts, NEW out \in HostCodes \cup {"answered"}, Answer(h, out) PROVE TargetInv'
  BY <1>21 DEF Answer, engine, history
<1>22. CASE Collect
  BY <1>22 DEF Collect, engine, history
<1>23. CASE Finish
  BY <1>23 DEF Finish, engine, history
<1>24. CASE OtherClient
  BY <1>24 DEF OtherClient, engine, history
<1>25. CASE UNCHANGED vars
  BY <1>25 DEF vars, engine, history
<1> QED
  BY <1>1, <1>2, <1>3, <1>4, <1>5, <1>6, <1>7, <1>8, <1>9, <1>10, <1>11, <1>12, <1>13, <1>14, <1>15, <1>16, <1>17, <1>18, <1>19, <1>20, <1>21, <1>22, <1>23, <1>24, <1>25 DEF Next, Step

\* No container has an outcome or was acted on at first.
LEMMA InitTargetInv == Init => TargetInv /\ OneOutcomeEach
BY NoTargets DEF Init, TargetInv, OneOutcomeEach

\* Resolving keeps each container once; acting on it gives it its outcome.
LEMMA StepOneOutcome == TypeOK /\ TargetInv /\ OneOutcomeEach /\ [Next]_vars => OneOutcomeEach'
<1> SUFFICES ASSUME TypeOK, TargetInv, OneOutcomeEach, [Next]_vars PROVE OneOutcomeEach'
  OBVIOUS
<1> USE DEF Returns, Exits, Goto
<1>0. UNCHANGED <<targets, acts>> => OneOutcomeEach'
  BY DEF OneOutcomeEach
<1>1. CASE FanOut
  BY <1>0, <1>1 DEF FanOut, engine, history
<1>2. CASE OpenLog
  BY <1>0, <1>2 DEF OpenLog, engine, history
<1>3. CASE Resolve
  BY <1>0, <1>3 DEF Resolve, engine, history
<1>4. CASE Dial
  BY <1>0, <1>4 DEF Dial, engine, history
<1>5. CASE Invoke
  BY <1>0, <1>5 DEF Invoke, engine, history
<1>6. CASE CallFails
  BY <1>0, <1>6 DEF CallFails, engine, history
<1>7. CASE ListTargets
  <2>1. CASE targets' = targets
    BY <1>0, <1>7, <2>1 DEF ListTargets, history
  <2>2. CASE targets' = [i \in Kept |-> Wanted(i)]
    <3>1. DOMAIN targets = {} /\ UNCHANGED acts
      BY <1>7 DEF ListTargets, TargetInv, history
    <3>2. \A c \in Containers : acts'[c] = 0
      BY <3>1 DEF OneOutcomeEach
    <3>3. \A i \in Kept : Wanted(i).id \in Containers => Wanted(i).result = "todo"
      BY WantedFacts DEF TypeOK
    <3>4. ASSUME NEW c \in Containers, NEW i \in Kept, NEW j \in Kept, Wanted(i).id = c, Wanted(j).id = c
          PROVE i = j
      <4>1. i \in Int /\ j \in Int
        <5>1. i \in Slots /\ j \in Slots
          BY WantedFacts DEF TypeOK
        <5> QED
          BY <5>1 DEF Slots
      <4>2. i \in Given /\ j \in Given /\ c # NoId
        BY NoIdApart DEF Kept
      <4>3. ~(i < j) /\ ~(j < i)
        BY <3>4, <4>2 DEF Kept
      <4> QED
        BY <4>1, <4>3
    <3> QED
      BY <2>2, <3>2, <3>3, <3>4 DEF OneOutcomeEach
  <2> QED
    BY <1>7, <2>1, <2>2 DEF ListTargets
<1>8. ASSUME NEW i \in Slots, Act(i) PROVE OneOutcomeEach'
  <2> DEFINE d == targets[i].id
  <2>1. PICK out \in {"ok", "not_found", "internal", "connection"} :
          targets' = [targets EXCEPT ![i].result = out]
    BY <1>8 DEF Act
  <2>2. i \in DOMAIN targets /\ targets[i].result = "todo" /\ d \in Containers
    BY <1>8 DEF Act, TargetInv, Current, Todo
  <2>3. acts' = [acts EXCEPT ![d] = acts[d] + 1]
    BY <1>8 DEF Act
  <2>4. /\ DOMAIN targets' = DOMAIN targets
        /\ \A j \in DOMAIN targets : targets'[j].id = targets[j].id
        /\ targets'[i].result = out
        /\ \A j \in DOMAIN targets : j # i => targets'[j].result = targets[j].result
    BY <2>1, <2>2 DEF TypeOK, Target
  <2>5. \A j \in DOMAIN targets : targets[j].id = d => j = i
    BY <2>2 DEF OneOutcomeEach
  <2>6. acts[d] = 0 /\ acts'[d] = 1
    <3>1. acts[d] = 0
      BY <2>2, <2>5 DEF OneOutcomeEach
    <3> QED
      BY <2>2, <2>3, <3>1 DEF TypeOK
  <2>7. \A c \in Containers : c # d => acts'[c] = acts[c]
    BY <2>2, <2>3 DEF TypeOK
  <2> HIDE DEF d
  <2>8. ASSUME NEW c \in Containers, c # d
        PROVE acts'[c] = IF \E j \in DOMAIN targets' : targets'[j].id = c /\ targets'[j].result # "todo" THEN 1 ELSE 0
    <3>1. acts[c] = IF \E j \in DOMAIN targets : targets[j].id = c /\ targets[j].result # "todo" THEN 1 ELSE 0
      BY DEF OneOutcomeEach
    <3>2. targets[i].id = d
      BY DEF d
    <3> QED
      BY <2>4, <2>7, <2>8, <3>1, <3>2
  <2>9. \E j \in DOMAIN targets' : targets'[j].id = d /\ targets'[j].result # "todo"
    BY <2>1, <2>2, <2>4 DEF d
  <2>10. \A j1, j2 \in DOMAIN targets' : targets'[j1].id = targets'[j2].id /\ targets'[j1].id \in Containers => j1 = j2
    BY <2>4 DEF OneOutcomeEach
  <2> QED
    BY <2>6, <2>8, <2>9, <2>10 DEF OneOutcomeEach
<1>9. CASE Acted
  BY <1>0, <1>9 DEF Acted, engine, history
<1>10. CASE Poll
  BY <1>0, <1>10 DEF Poll, engine, history
<1>11. CASE ExecTarget
  <2> DEFINE t == Resolved(inv.refs[1])
  <2>1. CASE targets' = targets
    BY <1>0, <1>11, <2>1 DEF ExecTarget, history
  <2>2. CASE targets' = <<t>> /\ t.id # NoId
    <3>1. DOMAIN targets = {} /\ UNCHANGED acts
      BY <1>11 DEF ExecTarget, TargetInv, history
    <3>2. \A c \in Containers : acts'[c] = 0
      BY <3>1 DEF OneOutcomeEach
    <3>3. t.result = "todo"
      BY <2>2, ResolvedFacts
    <3>4. DOMAIN targets' = {1} /\ targets'[1] = t
      BY <2>2
    <3> HIDE DEF t
    <3> QED
      BY <3>2, <3>3, <3>4 DEF OneOutcomeEach
  <2> QED
    BY <1>11, <2>1, <2>2 DEF ExecTarget
<1>12. CASE Exec
  <2> DEFINE d == targets[1].id
  <2>1. PICK out \in {"ok", "not_found", "internal", "connection", "timeout"} :
          targets' = [targets EXCEPT ![1].result = out]
    BY <1>12 DEF Exec
  <2>2. 1 \in DOMAIN targets /\ targets[1].result = "todo" /\ d \in Containers
    BY <1>12 DEF Exec, TargetInv
  <2>3. acts' = [acts EXCEPT ![d] = acts[d] + 1]
    BY <1>12 DEF Exec
  <2>4. /\ DOMAIN targets' = DOMAIN targets
        /\ \A j \in DOMAIN targets : targets'[j].id = targets[j].id
        /\ targets'[1].result = out
        /\ \A j \in DOMAIN targets : j # 1 => targets'[j].result = targets[j].result
    BY <2>1, <2>2 DEF TypeOK, Target
  <2>5. \A j \in DOMAIN targets : targets[j].id = d => j = 1
    BY <2>2 DEF OneOutcomeEach
  <2>6. acts[d] = 0 /\ acts'[d] = 1
    <3>1. acts[d] = 0
      BY <2>2, <2>5 DEF OneOutcomeEach
    <3> QED
      BY <2>2, <2>3, <3>1 DEF TypeOK
  <2>7. \A c \in Containers : c # d => acts'[c] = acts[c]
    BY <2>2, <2>3 DEF TypeOK
  <2> HIDE DEF d
  <2>8. ASSUME NEW c \in Containers, c # d
        PROVE acts'[c] = IF \E j \in DOMAIN targets' : targets'[j].id = c /\ targets'[j].result # "todo" THEN 1 ELSE 0
    <3>1. acts[c] = IF \E j \in DOMAIN targets : targets[j].id = c /\ targets[j].result # "todo" THEN 1 ELSE 0
      BY DEF OneOutcomeEach
    <3>2. targets[1].id = d
      BY DEF d
    <3> QED
      BY <2>4, <2>7, <2>8, <3>1, <3>2
  <2>9. \E j \in DOMAIN targets' : targets'[j].id = d /\ targets'[j].result # "todo"
    BY <2>1, <2>2, <2>4 DEF d
  <2>10. \A j1, j2 \in DOMAIN targets' : targets'[j1].id = targets'[j2].id /\ targets'[j1].id \in Containers => j1 = j2
    BY <2>4 DEF OneOutcomeEach
  <2> QED
    BY <2>6, <2>8, <2>9, <2>10 DEF OneOutcomeEach
<1>13. CASE StartStream
  BY <1>0, <1>13 DEF StartStream, engine, history
<1>14. ASSUME NEW e \in {"none", "internal", "not_found", "connection"}, Line(e) PROVE OneOutcomeEach'
  BY <1>0, <1>14 DEF Line, engine, history
<1>15. CASE StreamEnd
  BY <1>0, <1>15 DEF StreamEnd, engine, history
<1>16. CASE CheckCreate
  BY <1>0, <1>16 DEF CheckCreate, engine, history
<1>17. CASE CreateNetwork
  BY <1>0, <1>17 DEF CreateNetwork, engine, history
<1>18. CASE SystemPrune
  BY <1>0, <1>18 DEF SystemPrune, engine, history
<1>19. CASE Read
  BY <1>0, <1>19 DEF Read, engine, history
<1>20. ASSUME NEW h \in Hosts, Ask(h) PROVE OneOutcomeEach'
  BY <1>0, <1>20 DEF Ask, engine, history
<1>21. ASSUME NEW h \in Hosts, NEW out \in HostCodes \cup {"answered"}, Answer(h, out) PROVE OneOutcomeEach'
  BY <1>0, <1>21 DEF Answer, engine, history
<1>22. CASE Collect
  BY <1>0, <1>22 DEF Collect, engine, history
<1>23. CASE Finish
  BY <1>0, <1>23 DEF Finish, engine, history
<1>24. CASE OtherClient
  BY <1>0, <1>24 DEF OtherClient, engine, history
<1>25. CASE UNCHANGED vars
  BY <1>0, <1>25 DEF vars, engine, history
<1> QED
  BY <1>1, <1>2, <1>3, <1>4, <1>5, <1>6, <1>7, <1>8, <1>9, <1>10, <1>11, <1>12, <1>13, <1>14, <1>15, <1>16, <1>17, <1>18, <1>19, <1>20, <1>21, <1>22, <1>23, <1>24, <1>25 DEF Next, Step

----------------------------------------------------------------------------
\* Nothing is confirmed or logged at first.
LEMMA InitResultInv == Init => ResultInv /\ LogIsTrue
BY DEF Init, ResultInv, LogIsTrue, Handled, Codes

\* What is returned of a command is what the engine confirmed, and the line in
\* the audit log is what is returned.
LEMMA StepResultInv ==
  TypeOK /\ PathInv /\ SentInv /\ TargetInv /\ ResultInv /\ LogIsTrue /\ [Next]_vars => ResultInv' /\ LogIsTrue'
<1> SUFFICES ASSUME TypeOK, PathInv, SentInv, TargetInv, ResultInv, LogIsTrue, [Next]_vars
             PROVE ResultInv' /\ LogIsTrue'
  OBVIOUS
<1> USE DEF ResultInv, LogIsTrue, Handled, Returns, Exits, Goto, Codes
<1>1. CASE FanOut
  BY <1>1 DEF FanOut, Failed, engine, history
<1>2. CASE OpenLog
  BY <1>2 DEF OpenLog, Failed, engine, history
<1>3. CASE Resolve
  BY <1>3 DEF Resolve, Failed, engine, history
<1>4. CASE Dial
  BY <1>4 DEF Dial, Failed, engine, history
<1>5. CASE Invoke
  BY <1>5 DEF Invoke, Failed, TargetInv, engine, history
<1>6. CASE CallFails
  BY <1>6 DEF CallFails, Failed, engine, history
<1>7. CASE ListTargets
  <2>1. pc = "run" /\ ~confirmed /\ failure = "none" /\ line = "none"
    BY <1>7 DEF ListTargets
  <2>2. UNCHANGED <<confirmed, failure, line>>
    BY <1>7 DEF ListTargets, history
  <2>3. CASE pc' = "returned" /\ code' = "usage"
    BY <2>1, <2>2, <2>3
  <2>4. CASE pc' = "act" /\ targets' = [i \in Kept |-> Wanted(i)]
    <3>1. \A i \in DOMAIN targets' : targets'[i].result # "ok"
      BY <2>4, WantedFacts DEF TypeOK
    <3> QED
      BY <2>1, <2>2, <2>4, <3>1
  <2> QED
    BY <1>7, <2>3, <2>4 DEF ListTargets
<1>8. ASSUME NEW i \in Slots, Act(i) PROVE ResultInv' /\ LogIsTrue'
  <2>1. PICK out \in {"ok", "not_found", "internal", "connection"} :
          /\ targets' = [targets EXCEPT ![i].result = out]
          /\ confirmed' = (confirmed \/ out = "ok")
    BY <1>8 DEF Act
  <2>2. i \in DOMAIN targets /\ targets[i].result = "todo"
    BY <1>8 DEF Act, Current, Todo
  <2>3. /\ DOMAIN targets' = DOMAIN targets /\ targets'[i].result = out
        /\ \A j \in DOMAIN targets : j # i => targets'[j].result = targets[j].result
    BY <2>1, <2>2 DEF TypeOK, Target
  <2>4. pc = "act" /\ UNCHANGED <<pc, failure, line>>
    BY <1>8 DEF Act
  <2>5. confirmed' <=> \E j \in DOMAIN targets' : targets'[j].result = "ok"
    BY <2>1, <2>2, <2>3, <2>4
  <2> QED
    BY <2>4, <2>5
<1>9. CASE Acted
  <2>1. /\ pc = "act" /\ pc' = "returned" /\ ActionResult(code')
        /\ UNCHANGED <<targets, confirmed, failure, line>>
    BY <1>9 DEF Acted, history
  <2>2. confirmed <=> \E i \in DOMAIN targets : targets[i].result = "ok"
    BY <2>1
  <2>3. Failed' = Failed
    BY <2>1 DEF Failed
  <2>4. CASE Failed = {}
    <3>1. code' = "ok" /\ (confirmed \/ DOMAIN targets = {})
      BY <2>1, <2>2, <2>4 DEF ActionResult, Failed
    <3> QED
      BY <2>1, <2>3, <2>4, <3>1
  <2>5. CASE Failed # {} /\ Failed # DOMAIN targets
    <3>1. code' = "partial" /\ confirmed
      BY <2>1, <2>2, <2>5 DEF ActionResult, Failed
    <3> QED
      BY <2>1, <2>3, <2>5, <3>1
  <2>6. CASE Failed # {} /\ Failed = DOMAIN targets
    <3>1. PICK i \in Failed : code' = targets[i].result
      BY <2>1, <2>6 DEF ActionResult
    <3>2. code' \in Codes
      BY <1>9, <3>1 DEF Acted, Failed, Todo, TypeOK, Target
    <3>3. ~confirmed
      BY <2>2, <2>6 DEF Failed
    <3> QED
      BY <2>1, <3>2, <3>3
  <2> QED
    BY <2>4, <2>5, <2>6
<1>10. CASE Poll
  <2>1. /\ pc = "run" /\ pc' \in {"run", "returned"} /\ DOMAIN targets = {}
        /\ UNCHANGED <<targets, confirmed, failure, line>>
    BY <1>10 DEF Poll, TargetInv, history
  <2>2. Find.id = NoId => Find.result \in {"not_found", "usage"}
    <3>1. CASE waitId = NoId
      BY <3>1, ResolvedFacts DEF Find
    <3>2. CASE waitId # NoId
      BY <3>2, NoIdApart DEF Find, TypeOK
    <3> QED
      BY <3>1, <3>2
  <2>3. pc' = "returned" => code' \in {"ok", "not_found", "usage", "timeout"}
    BY <1>10, <2>2 DEF Poll
  <2>4. Failed' = {} /\ DOMAIN targets' = {}
    BY <2>1 DEF Failed
  <2> QED
    BY <2>1, <2>3, <2>4
<1>11. CASE ExecTarget
  <2>1. /\ pc = "run" /\ pc' \in {"exec", "returned"}
        /\ UNCHANGED <<confirmed, failure, line>>
    BY <1>11 DEF ExecTarget, history
  <2>2. pc' = "returned" => code' \in {"not_found", "usage"}
    BY <1>11, ResolvedFacts DEF ExecTarget
  <2> QED
    BY <2>1, <2>2
<1>12. CASE Exec
  <2>1. PICK out \in {"ok", "not_found", "internal", "connection", "timeout"} :
          /\ targets' = [targets EXCEPT ![1].result = out]
          /\ confirmed' = (out = "ok") /\ pc' = "returned" /\ code' = out
    BY <1>12 DEF Exec
  <2>2. DOMAIN targets = {1} /\ failure = "none" /\ UNCHANGED <<failure, line>> /\ line = "none"
    BY <1>12 DEF Exec, TargetInv
  <2>3. DOMAIN targets' = {1} /\ targets'[1].result = out
    BY <2>1, <2>2 DEF TypeOK, Target
  <2>4. out = "ok" => Failed' = {}
    BY <2>3 DEF Failed
  <2> QED
    BY <2>1, <2>2, <2>4
<1>13. CASE StartStream
  BY <1>13 DEF StartStream, Failed, engine, history
<1>14. ASSUME NEW e \in {"none", "internal", "not_found", "connection"}, Line(e) PROVE ResultInv' /\ LogIsTrue'
  BY <1>14 DEF Line, Failed, engine, history
<1>15. CASE StreamEnd
  <2>1. /\ pc = "stream" /\ pc' = "returned" /\ DOMAIN targets = {} /\ line = "none"
        /\ code' = (IF failure = "none" THEN "ok" ELSE failure) /\ confirmed' = (failure = "none")
        /\ UNCHANGED <<targets, failure, line>>
    BY <1>15 DEF StreamEnd, TargetInv
  <2>2. DOMAIN targets' = {} /\ Failed' = {}
    BY <2>1 DEF Failed
  <2>3. CASE failure = "none"
    BY <2>1, <2>2, <2>3
  <2>4. CASE failure # "none"
    BY <2>1, <2>2, <2>4 DEF TypeOK
  <2> QED
    BY <2>3, <2>4
<1>16. CASE CheckCreate
  BY <1>16 DEF CheckCreate, Failed, engine, history
<1>17. CASE CreateNetwork
  BY <1>17 DEF CreateNetwork, Failed, TargetInv, engine, history
<1>18. CASE SystemPrune
  BY <1>18 DEF SystemPrune, Failed, TargetInv, engine, history
<1>19. CASE Read
  BY <1>19 DEF Read, Failed, TargetInv, engine, history
<1>20. ASSUME NEW h \in Hosts, Ask(h) PROVE ResultInv' /\ LogIsTrue'
  BY <1>20 DEF Ask, Failed, engine, history
<1>21. ASSUME NEW h \in Hosts, NEW out \in HostCodes \cup {"answered"}, Answer(h, out) PROVE ResultInv' /\ LogIsTrue'
  BY <1>21 DEF Answer, Failed, engine, history
<1>22. CASE Collect
  BY <1>22 DEF Collect, Failed, engine, history
<1>23. CASE Finish
  <2>1. /\ pc = "returned" /\ pc' = "exited" /\ line = "none"
        /\ UNCHANGED <<inv, targets, code, failure, sent, confirmed>>
        /\ line' = line \/ (Writes /\ line' = Entry)
    BY <1>23 DEF Finish, history
  <2>2. Failed' = Failed /\ Writes' = Writes
    BY <2>1 DEF Failed, Writes, Tier
  <2>3. ResultInv'
    BY <2>1, <2>2
  <2>4. CASE line' = line
    BY <2>1, <2>3, <2>4
  <2>5. CASE Writes /\ line' = Entry
    <3>1. code \in Codes => ~confirmed /\ (code \in {"forbidden", "confirmation_required"} => ~sent)
      BY <2>1 DEF SentInv
    <3>2. Entry = "error" => code \in Codes
      BY DEF Entry, TypeOK, Outcome
    <3>3. Entry = "planned" => inv.dry /\ ~sent
      BY DEF Entry, SentInv, TypeOK, Outcome
    <3>4. Entry = "ok" => code = "ok" /\ ~inv.dry /\ failure = "none"
      BY <2>1 DEF Entry, TypeOK, Outcome
    <3>5. Entry = "partial" => code = "partial"
      BY DEF Entry, TypeOK, Outcome
    <3>6. LogIsTrue'
      BY <2>1, <2>2, <2>5, <3>1, <3>2, <3>3, <3>4, <3>5
    <3> QED
      BY <2>3, <3>6
  <2> QED
    BY <2>1, <2>4, <2>5
<1>24. CASE OtherClient
  BY <1>24 DEF OtherClient, Failed, Writes, Tier, history
<1>25. CASE UNCHANGED vars
  BY <1>25 DEF vars, Failed, Writes, Tier, engine, history
<1> QED
  BY <1>1, <1>2, <1>3, <1>4, <1>5, <1>6, <1>7, <1>8, <1>9, <1>10, <1>11, <1>12, <1>13, <1>14, <1>15, <1>16, <1>17, <1>18, <1>19, <1>20, <1>21, <1>22, <1>23, <1>24, <1>25 DEF Next, Step

----------------------------------------------------------------------------
\* What is true whenever a command, the engine or another client has moved.
LEMMA Invariance == Spec => []IInv
<1>1. Init => IInv
  BY InitTypeOK, InitPathInv, InitTargetInv, InitResultInv DEF IInv
<1>2. IInv /\ [Next]_vars => IInv'
  BY StepTypeOK, StepPathInv, StepSentInv, StepTargetInv, StepOneOutcome, StepResultInv DEF IInv
<1> QED
  BY <1>1, <1>2, PTL DEF Spec

\* The command and the engine it works on are always well formed.
THEOREM TypeCorrect == Spec => []TypeOK
<1>1. IInv => TypeOK
  BY DEF IInv
<1> QED
  BY <1>1, Invariance, PTL

\* No policy, flag or race with another client lets a change reach the engine
\* that the policy does not permit, or that its user has not confirmed
\* (Policy.resolve, execCLI, Registry.Invoke).
THEOREM OnlyAdmittedWrites == Spec => []WritesAdmitted
<1>1. ASSUME IInv PROVE WritesAdmitted
  <2> SUFFICES ASSUME sent PROVE WritesAdmitted
    BY DEF WritesAdmitted
  <2>1. /\ Writes /\ Tier <= Ceiling(pol) /\ ~inv.dry /\ ~inv.several
        /\ Tier = TierDestructive => inv.yes
        /\ pc \in {"act", "stream", "returned", "exited"}
    BY <1>1 DEF IInv, SentInv
  <2>2. Permits(pol, Tier)
    <3>1. pol \in Policy /\ Tier \in Tiers
      BY <1>1, TierFacts, CliAssumption DEF IInv, TypeOK
    <3> QED
      BY <2>1, <3>1, CeilingPermits DEF Writes
  <2>3. log = "open" \/ pc = "exited"
    BY <1>1, <2>1 DEF IInv, PathInv, Begun
  <2> QED
    BY <2>1, <2>2, <2>3 DEF WritesAdmitted
<1> QED
  BY <1>1, Invariance, PTL

\* However a command line names a container, it is acted on once, and has one
\* outcome (resolveTargets).
THEOREM ActsOnceOnEach == Spec => []OneOutcomeEach
<1>1. IInv => OneOutcomeEach
  BY DEF IInv
<1> QED
  BY <1>1, Invariance, PTL

\* The audit log tells what happened to the engine (NewAuditEntry).
THEOREM LogTellsTruth == Spec => []LogIsTrue
<1>1. IInv => LogIsTrue
  BY DEF IInv
<1> QED
  BY <1>1, Invariance, PTL

\* A wait never changes the container it waits for (waitFind).
THEOREM WaitFollowsId == Spec => WaitKeepsTarget
<1>1. ASSUME [Next]_vars, waitId # NoId PROVE waitId' = waitId
  <2>1. CASE Poll
    <3>1. Find.id \in {waitId, NoId}
      BY <1>1 DEF Find
    <3> QED
      BY <2>1, <3>1 DEF Poll
  <2>2. CASE UNCHANGED vars
    BY <2>2 DEF vars
  <2>3. CASE ~Poll /\ ~UNCHANGED vars
    BY <1>1, <2>3 DEF Next, Step, FanOut, OpenLog, Resolve, Dial, Invoke, CallFails, ListTargets, Act, Acted,
       ExecTarget, Exec, StartStream, Line, StreamEnd, CheckCreate, CreateNetwork, SystemPrune, Read, Ask, Answer,
       Collect, Finish, OtherClient
  <2> QED
    BY <2>1, <2>2, <2>3
<1>2. [Next]_vars => [waitId # NoId => waitId' = waitId]_vars
  BY <1>1
<1> QED
  BY <1>2, PTL DEF Spec, WaitKeepsTarget

\* What a command acts on or waits for, as the run checks it.
THEOREM TargetsCorrect == Spec => TargetsRight
  BY ActsOnceOnEach, WaitFollowsId, PTL DEF TargetsRight
=============================================================================
