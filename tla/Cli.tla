-------------------------------- MODULE Cli --------------------------------
(***************************************************************************)
(* The command line for agents (main_cli.go, main_fanout.go, internal/cli, *)
(* internal/agent): one command, which is one process, from the policy     *)
(* check through plan or handler to its line in the audit log and its exit *)
(* status, against an engine that other clients change at any time; and    *)
(* the fan-out of a read command over several hosts.                       *)
(*                                                                         *)
(* A step is what a command does between two calls of the engine.  A       *)
(* filter is the set of container states it selects, a reference is a name *)
(* or an ID prefix, named after the containers that have it.  Wording,     *)
(* formats and the data of reads are left out; so is a command line that   *)
(* does not parse, which ends there.  One command of each shape stands for *)
(* its kind: compose up and down for those that stream the engine's        *)
(* progress, network create for those that create one object, system prune *)
(* for those that are one call.                                            *)
(***************************************************************************)
EXTENDS Integers, Sequences, FiniteSets

CONSTANTS
  N,            \* number of containers the engine may ever have
  Names,        \* names of containers
  Checked,      \* containers with a healthcheck
  NHosts,       \* number of saved hosts a fan-out asks
  Workers,      \* fanoutWorkers (8 in the code)
  Invocations,  \* the commands an agent gives
  Policies,     \* the policies in force when it does
  HostCodes,    \* the codes a read of one host fails with
  MaxRefs,      \* bound: references on a command line
  MaxPolls,     \* bound: polls before a wait's deadline
  MaxLines      \* bound: lines of a progress stream

Containers == 1..N
Hosts == 1..NHosts
NoId == 0

TierRead == 0
TierSafe == 1
TierDestructive == 2
Tiers == TierRead..TierDestructive

Lifecycle == {"start", "stop", "restart", "kill", "rm", "rm -f"}
Compose == {"compose up", "compose down"}
Ops == Lifecycle \cup Compose \cup {"wait", "exec", "network create", "system prune", "ps", "hosts ls"}
TierOf(op) ==
  CASE op \in {"wait", "ps", "hosts ls"} -> TierRead
    [] op \in {"start", "stop", "restart", "compose up", "network create"} -> TierSafe
    [] OTHER -> TierDestructive

Codes == {"internal", "usage", "not_found", "connection", "forbidden", "auth_required",
          "confirmation_required", "timeout"}

\* A block of the configuration, and what decides on one command.
Layer == [allow : {"unset", "yes", "no"}, max : Tiers \cup {-1, -2}]
Unset == -1
Invalid == -2
Policy == [readOnly : BOOLEAN, hostReadOnly : BOOLEAN, flag : BOOLEAN, global : Layer, host : Layer]

Ref == [by : {"name"}, of : Names] \cup [by : {"prefix"}, of : SUBSET Containers]
\* accepted: the arguments fit the schema; shaped: fields and limit fit the
\* result; until, polls: of wait.
Invocation == [op : Ops, refs : Seq(Ref), filter : SUBSET {"running", "exited"},
               dry : BOOLEAN, yes : BOOLEAN, several : BOOLEAN,
               accepted : BOOLEAN, shaped : BOOLEAN,
               until : {"running", "healthy", "exited"}, polls : 0..MaxPolls]

ASSUME CliAssumption ==
  /\ N \in Nat /\ NHosts \in Nat /\ Workers \in Nat \ {0}
  /\ MaxRefs \in Nat /\ MaxPolls \in Nat /\ MaxLines \in Nat
  /\ Checked \subseteq Containers /\ HostCodes \subseteq Codes
  /\ Policies \subseteq Policy /\ Invocations \subseteq Invocation
  /\ \A i \in Invocations : Len(i.refs) <= MaxRefs /\ (i.op \in {"wait", "exec"} => Len(i.refs) = 1)

VARIABLES
  state,      \* the engine's containers
  name,       \* their names
  net,        \* the network a command would create exists
  inv,        \* the command line
  pol,        \* the policy in force
  pc,         \* where the command is
  log,        \* the audit log: closed, open or broken
  targets,    \* data.Targets: one outcome for each slot of the command line
  waitId,     \* id of a wait
  left,       \* polls left before its deadline, or lines left of a stream
  code,       \* what execCLI returns: "ok", "partial", or the error's code
  failure,    \* p.failure of a progress stream
  line,       \* result of the command's line in the audit log, or "none"
  exit,       \* the exit status
  host,       \* the goroutine of each host of a fan-out
  sent,       \* a request that changes something was sent to the engine
  confirmed,  \* the engine confirmed one
  acts        \* how often the command acted on each container

engine == <<state, name, net>>
history == <<sent, confirmed, acts>>
vars == <<engine, inv, pol, pc, log, targets, waitId, left, code, failure, line, exit, host, history>>

\* Slots of a command's outcomes: its references in order, then the containers
\* its filter selects in the order the engine lists them.
Slots == 1..(MaxRefs + N)
Target == [id : Containers \cup {NoId}, result : {"todo", "ok"} \cup Codes]
Outcome == {"ok", "partial"} \cup Codes

TypeOK ==
  /\ state \in [Containers -> {"unborn", "running", "exited", "removed"}]
  /\ name \in [Containers -> Names]
  /\ net \in BOOLEAN
  /\ inv \in Invocations /\ pol \in Policies
  /\ pc \in {"parsed", "resolve", "dial", "invoke", "run", "act", "exec", "create",
             "stream", "fanout", "returned", "exited"}
  /\ log \in {"closed", "open", "broken"}
  /\ DOMAIN targets \subseteq Slots /\ targets \in [DOMAIN targets -> Target]
  /\ waitId \in Containers \cup {NoId}
  /\ left \in Nat
  /\ code \in Outcome /\ exit \in Outcome
  /\ failure \in {"none", "internal", "not_found", "connection"}
  /\ line \in {"none", "ok", "partial", "planned", "error"}
  /\ host \in [Hosts -> {"waiting", "asking", "answered"} \cup Codes]
  /\ sent \in BOOLEAN /\ confirmed \in BOOLEAN
  /\ acts \in [Containers -> Nat]

\* The engine is in any state: IDs are given in order, no two containers of the
\* engine have one name.
Init ==
  /\ state \in [Containers -> {"unborn", "running", "exited"}]
  /\ name \in [Containers -> Names]
  /\ \A c, d \in Containers : c < d /\ state[d] # "unborn" => state[c] # "unborn" /\ name[c] # name[d]
  /\ net \in BOOLEAN
  /\ inv \in Invocations /\ pol \in Policies
  /\ pc = "parsed" /\ log = "closed"
  /\ targets = <<>> /\ waitId = NoId /\ left = 0
  /\ code = "ok" /\ failure = "none" /\ line = "none" /\ exit = "ok"
  /\ host = [h \in Hosts |-> "waiting"]
  /\ sent = FALSE /\ confirmed = FALSE /\ acts = [c \in Containers |-> 0]

----------------------------------------------------------------------------
(* The engine and its other clients. *)

Exists(c) == state[c] \in {"running", "exited"}
Listed == {c \in Containers : Exists(c)}
Free(n) == \A c \in Listed : name[c] # n

\* IDs are never used again, names are.  What becomes of the engine when the
\* command no longer looks, or looks at other hosts, is left out.
OtherClient ==
  /\ pc \notin {"fanout", "exited"}
  /\ \/ \E c \in Containers, n \in Names :
          /\ state[c] = "unborn" /\ Free(n)
          /\ \A b \in Containers : b < c => state[b] # "unborn"
          /\ state' = [state EXCEPT ![c] = "running"] /\ name' = [name EXCEPT ![c] = n]
          /\ UNCHANGED net
     \/ \E c \in Listed, s \in {"running", "exited", "removed"} :
          state[c] # s /\ state' = [state EXCEPT ![c] = s] /\ UNCHANGED <<name, net>>
     \/ \E c \in Listed, n \in Names :
          Free(n) /\ name' = [name EXCEPT ![c] = n] /\ UNCHANGED <<state, net>>
     \/ net' = ~net /\ UNCHANGED <<state, name>>
  /\ UNCHANGED <<inv, pol, pc, log, targets, waitId, left, code, failure, line, exit, host, history>>

\* What one lifecycle action leaves of a container, or that the engine refuses it.
After(op, s) ==
  CASE op \in {"start", "restart"} -> "running"
    [] op = "stop" -> "exited"
    [] op = "kill" -> IF s = "running" THEN "exited" ELSE "refused"
    [] op = "rm" -> IF s = "exited" THEN "removed" ELSE "refused"
    [] OTHER -> "removed"

----------------------------------------------------------------------------
(* Policy. *)

\* The host's block overrides the global one field by field.
Allow(p) == IF p.host.allow # "unset" THEN p.host.allow ELSE p.global.allow
MaxTier(p) ==
  IF p.host.max # Unset THEN p.host.max ELSE IF p.global.max # Unset THEN p.global.max ELSE TierSafe

Misconfigured(p) == p.global.max = Invalid \/ p.host.max = Invalid
MutantCeiling(p) ==
  IF ~p.readOnly /\ (p.flag \/ Allow(p) = "yes") THEN MaxTier(p) ELSE TierRead
Ceiling(p) ==
  IF ~p.readOnly /\ ~p.hostReadOnly /\ (IF Allow(p) = "unset" THEN p.flag ELSE Allow(p) = "yes")
    THEN MaxTier(p) ELSE TierRead

Tier == TierOf(inv.op)
Writes == Tier > TierRead
Local == inv.op = "hosts ls"

----------------------------------------------------------------------------
(* From the command line to the handler. *)

Returns(c) == pc' = "returned" /\ code' = c
Exits(c) == pc' = "exited" /\ exit' = c
Goto(to) == pc' = to /\ UNCHANGED code

\* Only reads of an engine go to several hosts.
FanOut ==
  /\ pc = "parsed" /\ inv.several
  /\ IF Writes \/ Local THEN Exits("usage") /\ UNCHANGED code ELSE Goto("fanout") /\ UNCHANGED exit
  /\ UNCHANGED <<engine, inv, pol, log, targets, waitId, left, failure, line, host, history>>

\* A write needs the audit log; without it the command does not run.
OpenLog ==
  /\ pc = "parsed" /\ ~inv.several
  /\ \/ ~Writes /\ Goto("resolve") /\ UNCHANGED <<log, exit>>
     \/ Writes /\ Goto("resolve") /\ log' = "open" /\ UNCHANGED exit
     \/ Writes /\ Exits("internal") /\ log' = "broken" /\ UNCHANGED code
  /\ UNCHANGED <<engine, inv, pol, targets, waitId, left, failure, line, host, history>>

\* The target is found in the configuration, then the policy is asked: a command
\* it forbids never touches the host.  A dry run is not held back.
Resolve ==
  /\ pc = "resolve"
  /\ \/ ~Local /\ \E c \in {"usage", "not_found", "auth_required"} : Returns(c)
     \/ IF Misconfigured(pol) THEN Returns("usage")
        ELSE IF ~inv.dry /\ Tier > Ceiling(pol) THEN Returns("forbidden")
        ELSE Goto(IF Local THEN "invoke" ELSE "dial")
  /\ UNCHANGED <<engine, inv, pol, log, targets, waitId, left, failure, line, exit, host, history>>

Dial ==
  /\ pc = "dial"
  /\ Goto("invoke") \/ \E c \in {"connection", "auth_required", "usage", "internal"} : Returns(c)
  /\ UNCHANGED <<engine, inv, pol, log, targets, waitId, left, failure, line, exit, host, history>>

\* Registry.Invoke.  A planner reads the engine and changes nothing; it fails
\* as the handler would have on arguments it cannot resolve.
MutantPlansOnly == inv.dry
PlansOnly == inv.dry \/ (Tier = TierDestructive /\ ~inv.yes)

Invoke ==
  /\ pc = "invoke"
  /\ IF inv.dry /\ ~Writes THEN Returns("usage") /\ UNCHANGED left
     ELSE IF ~inv.dry /\ Tier > Ceiling(pol) THEN Returns("forbidden") /\ UNCHANGED left
     ELSE IF ~inv.accepted THEN Returns("usage") /\ UNCHANGED left
     ELSE IF PlansOnly
       THEN /\ \/ \E c \in {"usage", "not_found", "connection", "internal"} : Returns(c)
               \/ Returns(IF inv.dry THEN "ok" ELSE "confirmation_required")
            /\ UNCHANGED left
     ELSE Goto("run") /\ left' = (IF inv.op = "wait" THEN inv.polls ELSE MaxLines)
  /\ UNCHANGED <<engine, inv, pol, log, targets, waitId, failure, line, exit, host, history>>

\* A call of the engine fails before it did anything.
CallFails ==
  /\ pc = "run" /\ ~Local /\ inv.op # "system prune"
  /\ \E c \in {"connection", "internal"} : Returns(c)
  /\ UNCHANGED <<engine, inv, pol, log, targets, waitId, left, failure, line, exit, host, history>>

----------------------------------------------------------------------------
(* Lifecycle commands. *)

\* resolveContainer: an unknown or ambiguous reference becomes a failed target.
Hits(r) == {c \in Listed : IF r.by = "name" THEN name[c] = r.of ELSE c \in r.of}
Resolved(r) ==
  IF \E c \in Listed : Hits(r) = {c}
    THEN [id |-> CHOOSE c \in Listed : Hits(r) = {c}, result |-> "todo"]
    ELSE [id |-> NoId, result |-> IF Hits(r) = {} THEN "not_found" ELSE "usage"]

Wanted(i) ==
  IF i <= MaxRefs THEN Resolved(inv.refs[i]) ELSE [id |-> i - MaxRefs, result |-> "todo"]
Given == 1..Len(inv.refs) \cup {i \in Slots : i > MaxRefs /\ state[i - MaxRefs] \in inv.filter}
\* Each container once, where it was named first.
MutantKept == Given
Kept == {i \in Given : Wanted(i).id = NoId \/ \A j \in Given : j < i => Wanted(j).id # Wanted(i).id}

ListTargets ==
  /\ pc = "run" /\ inv.op \in Lifecycle
  /\ IF Len(inv.refs) = 0 /\ inv.filter = {}
       THEN Returns("usage") /\ UNCHANGED targets
       ELSE Goto("act") /\ targets' = [i \in Kept |-> Wanted(i)]
  /\ UNCHANGED <<engine, inv, pol, log, waitId, left, failure, line, exit, host, history>>

Todo == {i \in DOMAIN targets : targets[i].result = "todo"}
Current(i) == i \in Todo /\ \A j \in Todo : i <= j

\* One action on one container.  When the connection is lost under it, it may
\* have been done all the same.
Act(i) ==
  LET c == targets[i].id
      s == After(inv.op, state[c])
  IN
  /\ pc = "act" /\ Current(i)
  /\ \E out \in {"ok", "not_found", "internal", "connection"} :
       /\ out = "ok" => Exists(c) /\ s # "refused"
       /\ out = "not_found" => ~Exists(c)
       /\ targets' = [targets EXCEPT ![i].result = out]
       /\ confirmed' = (confirmed \/ out = "ok")
       /\ \/ out # "ok" /\ UNCHANGED state
          \/ out \in {"ok", "connection"} /\ Exists(c) /\ s # "refused" /\ state' = [state EXCEPT ![c] = s]
  /\ sent' = TRUE /\ acts' = [acts EXCEPT ![c] = @ + 1]
  /\ UNCHANGED <<name, net, inv, pol, pc, log, waitId, left, code, failure, line, exit, host>>

\* actionResult: some failed is a partial result, all failed the first one's error.
Failed == {i \in DOMAIN targets : targets[i].result # "ok"}
MutantActionResult(c) ==
  IF Failed = {} THEN c = "ok" ELSE \E i \in Failed : c = targets[i].result
ActionResult(c) ==
  IF Failed = {} THEN c = "ok"
  ELSE IF Failed # DOMAIN targets THEN c = "partial"
  ELSE \E i \in Failed : c = targets[i].result /\ \A j \in Failed : i <= j

Acted ==
  /\ pc = "act" /\ Todo = {}
  /\ \E c \in Outcome : ActionResult(c) /\ Returns(c)
  /\ UNCHANGED <<engine, inv, pol, log, targets, waitId, left, failure, line, exit, host, history>>

----------------------------------------------------------------------------
(* wait *)

\* The reference is resolved once; the container it named is then followed by ID.
MutantFind == Resolved(inv.refs[1])
Find ==
  IF waitId = NoId THEN Resolved(inv.refs[1])
  ELSE [id |-> IF Exists(waitId) THEN waitId ELSE NoId, result |-> IF Exists(waitId) THEN "todo" ELSE "not_found"]

\* Without a healthcheck a running container never becomes healthy.
Reached(c, healthy) ==
  CASE inv.until = "running" -> state[c] = "running"
    [] inv.until = "exited" -> state[c] = "exited"
    [] OTHER -> state[c] = "running" /\ healthy

Poll ==
  /\ pc = "run" /\ inv.op = "wait"
  /\ \E healthy \in BOOLEAN :
       IF Find.id = NoId THEN Returns(Find.result) /\ UNCHANGED <<waitId, left>>
       ELSE /\ waitId' = Find.id
            /\ IF inv.until = "healthy" /\ state[Find.id] = "running" /\ Find.id \notin Checked
                 THEN Returns("usage") /\ UNCHANGED left
               ELSE IF Reached(Find.id, healthy) THEN Returns("ok") /\ UNCHANGED left
               ELSE IF left = 0 THEN Returns("timeout") /\ UNCHANGED left
               ELSE left' = left - 1 /\ UNCHANGED <<pc, code>>
  /\ UNCHANGED <<engine, inv, pol, log, targets, failure, line, exit, host, history>>

----------------------------------------------------------------------------
(* The other commands. *)

\* exec needs a running container when it looks; by the time of the call it may
\* have stopped.
ExecTarget ==
  LET t == Resolved(inv.refs[1]) IN
  /\ pc = "run" /\ inv.op = "exec"
  /\ IF t.id = NoId THEN Returns(t.result) /\ UNCHANGED targets
     ELSE IF state[t.id] # "running" THEN Returns("usage") /\ UNCHANGED targets
     ELSE Goto("exec") /\ targets' = <<t>>
  /\ UNCHANGED <<engine, inv, pol, log, waitId, left, failure, line, exit, host, history>>

Exec ==
  LET c == targets[1].id IN
  /\ pc = "exec"
  /\ \E out \in {"ok", "not_found", "internal", "connection", "timeout"} :
       /\ out = "ok" => state[c] = "running"
       /\ out = "not_found" => ~Exists(c)
       /\ targets' = [targets EXCEPT ![1].result = out]
       /\ confirmed' = (out = "ok")
       /\ Returns(out)
  /\ sent' = TRUE /\ acts' = [acts EXCEPT ![c] = @ + 1]
  /\ UNCHANGED <<engine, inv, pol, log, waitId, left, failure, line, exit, host>>

\* compose: the project is resolved and the engine streams its progress.  The
\* first line that reports an error is the failure of the command.
StartStream ==
  /\ pc = "run" /\ inv.op \in Compose
  /\ \/ Returns("usage") /\ UNCHANGED sent
     \/ Returns("not_found") /\ UNCHANGED sent
     \/ Goto("stream") /\ sent' = TRUE
  /\ UNCHANGED <<engine, inv, pol, log, targets, waitId, left, failure, line, exit, host, confirmed, acts>>

Line(error) ==
  /\ pc = "stream" /\ left > 0
  /\ left' = left - 1
  /\ failure' = IF failure = "none" THEN error ELSE failure
  /\ UNCHANGED <<engine, inv, pol, pc, log, targets, waitId, code, line, exit, host, history>>

StreamEnd ==
  /\ pc = "stream"
  /\ Returns(IF failure = "none" THEN "ok" ELSE failure)
  /\ confirmed' = (failure = "none")
  /\ UNCHANGED <<engine, inv, pol, log, targets, waitId, left, failure, line, exit, host, sent, acts>>

\* network create: the name is looked up, then the network created; what it is
\* read back for changes nothing.
CheckCreate ==
  /\ pc = "run" /\ inv.op = "network create"
  /\ IF net THEN Returns("usage") ELSE Goto("create")
  /\ UNCHANGED <<engine, inv, pol, log, targets, waitId, left, failure, line, exit, host, history>>

CreateNetwork ==
  /\ pc = "create"
  /\ \E out \in {"ok", "internal", "connection"} :
       /\ out = "ok" => ~net
       /\ \/ out # "ok" /\ UNCHANGED net
          \/ out \in {"ok", "connection"} /\ net' = TRUE
       /\ confirmed' = (out = "ok")
       /\ Returns(out)
  /\ sent' = TRUE
  /\ UNCHANGED <<state, name, inv, pol, log, targets, waitId, left, failure, line, exit, host, acts>>

\* The steps of a prune are independent: of one that fails some may be done.
SystemPrune ==
  /\ pc = "run" /\ inv.op = "system prune"
  /\ \E out \in {"ok", "internal", "connection"}, gone \in SUBSET {c \in Containers : state[c] = "exited"} :
       /\ out = "ok" => gone = {c \in Containers : state[c] = "exited"}
       /\ state' = [c \in Containers |-> IF c \in gone THEN "removed" ELSE state[c]]
       /\ confirmed' = (out = "ok")
       /\ Returns(out)
  /\ sent' = TRUE
  /\ UNCHANGED <<name, net, inv, pol, log, targets, waitId, left, failure, line, exit, host, acts>>

Read ==
  /\ pc = "run" /\ inv.op \in {"ps", "hosts ls"}
  /\ Returns("ok")
  /\ UNCHANGED <<engine, inv, pol, log, targets, waitId, left, failure, line, exit, host, history>>

----------------------------------------------------------------------------
(* A read on several hosts. *)

MutantBusy == {h \in Hosts : host[h] # "waiting"}
Busy == {h \in Hosts : host[h] = "asking"}

Ask(h) ==
  /\ pc = "fanout" /\ host[h] = "waiting" /\ Cardinality(Busy) < Workers
  /\ host' = [host EXCEPT ![h] = "asking"]
  /\ UNCHANGED <<engine, inv, pol, pc, log, targets, waitId, left, code, failure, line, exit, history>>

Answer(h, out) ==
  /\ pc = "fanout" /\ host[h] = "asking"
  /\ host' = [host EXCEPT ![h] = out]
  /\ UNCHANGED <<engine, inv, pol, pc, log, targets, waitId, left, code, failure, line, exit, history>>

Answered == {h \in Hosts : host[h] = "answered"}

\* FanoutResult: some failed is a partial result, all failed the first one's error.
Collect ==
  /\ pc = "fanout" /\ \A h \in Hosts : host[h] \notin {"waiting", "asking"}
  /\ Exits(IF Answered # {} /\ ~inv.shaped THEN "usage"
           ELSE IF Answered = Hosts THEN "ok"
           ELSE IF Answered # {} THEN "partial" ELSE host[1])
  /\ UNCHANGED <<engine, inv, pol, log, targets, waitId, left, code, failure, line, host, history>>

----------------------------------------------------------------------------
\* The line in the audit log says what execCLI returned; the command has run, so
\* a line that cannot be written changes nothing.  A result that does not fit
\* the fields asked for is an error of the output only.
MutantEntry == IF inv.dry THEN "planned" ELSE code
Entry == IF code \in Codes THEN "error" ELSE IF inv.dry THEN "planned" ELSE code

Finish ==
  /\ pc = "returned"
  /\ \/ ~Writes /\ UNCHANGED <<log, line>>
     \/ Writes /\ line' = Entry /\ UNCHANGED log
     \/ Writes /\ log' = "broken" /\ UNCHANGED line
  /\ Exits(IF code \notin Codes /\ ~inv.shaped THEN "usage" ELSE code)
  /\ UNCHANGED <<engine, inv, pol, targets, waitId, left, code, failure, host, history>>

----------------------------------------------------------------------------
Step ==
  \/ FanOut \/ OpenLog \/ Resolve \/ Dial \/ Invoke \/ CallFails
  \/ ListTargets \/ (\E i \in Slots : Act(i)) \/ Acted
  \/ Poll \/ ExecTarget \/ Exec
  \/ StartStream \/ (\E e \in {"none", "internal", "not_found", "connection"} : Line(e)) \/ StreamEnd
  \/ CheckCreate \/ CreateNetwork \/ SystemPrune \/ Read
  \/ (\E h \in Hosts : Ask(h) \/ \E out \in HostCodes \cup {"answered"} : Answer(h, out)) \/ Collect
  \/ Finish

Next == Step \/ OtherClient

\* Every call of the engine returns or fails; other clients owe nothing.
Spec == Init /\ [][Next]_vars /\ WF_vars(Step)

----------------------------------------------------------------------------
(* Properties *)

\* What the write policy promises: no read-only switch is on, the block nearest
\* to the host that says whether writes are allowed says yes (the flag counts
\* only when none does), and the nearest that gives a ceiling gives one as high
\* as the tier, "safe" when none does.
Permits(p, t) ==
  /\ ~p.readOnly /\ ~p.hostReadOnly
  /\ \/ p.host.allow = "yes"
     \/ p.host.allow = "unset" /\ p.global.allow = "yes"
     \/ p.host.allow = "unset" /\ p.global.allow = "unset" /\ p.flag
  /\ \/ p.host.max >= t
     \/ p.host.max = Unset /\ p.global.max >= t
     \/ p.host.max = Unset /\ p.global.max = Unset /\ t <= TierSafe

\* The engine is asked to change something only by a write command that the
\* policy permits, that is no dry run and addresses one host, whose user
\* confirmed it when it is destructive, and that has an audit log to write to
\* (Policy.Check, Registry.Invoke, OpenAuditLog).
WritesAdmitted ==
  sent => /\ Writes /\ Permits(pol, Tier)
          /\ ~inv.dry /\ ~inv.several
          /\ Tier = TierDestructive => inv.yes
          /\ log = "open" \/ pc = "exited"

\* The audit log tells the truth of what happened to the engine: what it calls
\* planned, forbidden or unconfirmed sent nothing, what it calls failed changed
\* no container or network the engine confirmed, what it calls ok was
\* confirmed without a failed target or an error in the progress, and partial
\* is neither (NewAuditEntry, actionResult, collectProgress).
LogIsTrue ==
  pc = "exited" /\ line # "none" =>
    /\ line = "planned" => ~sent
    /\ line = "error" => ~confirmed /\ (code \in {"forbidden", "confirmation_required"} => ~sent)
    /\ line = "ok" => failure = "none" /\ Failed = {} /\ (confirmed \/ DOMAIN targets = {})
    /\ line = "partial" => confirmed /\ Failed # {}

\* A container named several times, by name, prefix and filter, is acted on
\* once and has one outcome; nothing else is acted on (resolveTargets).
OneOutcomeEach ==
  \A c \in Containers :
    LET mine == {i \in DOMAIN targets : targets[i].id = c} IN
    /\ \A i, j \in mine : i = j
    /\ acts[c] = IF \E i \in mine : targets[i].result # "todo" THEN 1 ELSE 0

\* A wait follows the container it found first, whatever is renamed, removed or
\* created under its name meanwhile (waitFind).
WaitKeepsTarget == [][waitId # NoId => waitId' = waitId]_vars

\* What a command acts on, or waits for: each container named, once, and the
\* same one throughout (resolveTargets, waitFind).
TargetsRight == []OneOutcomeEach /\ WaitKeepsTarget

\* Every command ends with an exit status (execCLI, runFanout).
CommandEnds == <>(pc = "exited")

\* "Every write command leaves a line in the audit log, refused ones included;
\* without a log it does not run at all." (main_cli.go)
EveryWriteLogged == pc = "exited" /\ Writes /\ log # "broken" => line # "none"
=============================================================================
