------------------------------- MODULE Relay -------------------------------
(***************************************************************************)
(* Operations whose output is streamed to the console line by line: a      *)
(* restore over SSH, nerdctl's compose tasks, and the merged logs of a     *)
(* compose project (internal/docker/compose.go, nerdctl_compose.go).       *)
(*                                                                         *)
(* Each relays the streams of commands (sshStream, streamLocalCmd,         *)
(* ContainerLogs): a command writes to two pipes, a scanner of each sends  *)
(* its lines to a channel, and a waiter closes the channel once both have  *)
(* ended.  Every channel is bounded, nobody has to read it, and stop may   *)
(* be called at any moment, by the user's goroutine and by the stream's.   *)
(***************************************************************************)
EXTENDS Integers, FiniteSets

CONSTANTS Engines,      \* which operations: of "restore", "tasks", "logs"
          Streams,      \* the commands an operation may run, 1..N
          Cap,          \* the capacity of a channel
          MaxLines      \* bound: lines a command writes

ASSUME RelayAssumption ==
  /\ Engines \subseteq {"restore", "tasks", "logs"}
  /\ {Cap, MaxLines} \subseteq Nat \ {0}
  /\ IsFiniteSet(Streams) /\ Streams # {} /\ Streams = 1..Cardinality(Streams)

VARIABLES
  engine,
  \* the streams of the commands
  proc,       \* "none", "running" or "gone"
  lines,      \* lines it has written
  pipe,       \* lines in each of its pipes
  strip,      \* the goroutine that takes the headers off a container's log:
              \* "none", "read", "write" or "end"
  scan,       \* the scanner of each pipe: "read", "send" or "end"
  waiter,     \* "wait", "error", "stop" or "over"; it closes the channel
  chan,       \* lines in the channel
  stopped,    \* the streams stopped: done closed, session closed
  \* the operation
  at,         \* where its goroutine is
  task,       \* the command it is about
  active,     \* upStop, activeStop: the stream that stop is to stop, or 0
  done,       \* its done is closed, and the backup file with it
  fwd,        \* logs: of each stream, "range", "send" or "end"
  out,        \* lines in its channel
  user,       \* "reads", "stopping" (inside stop) or "left"
  due, got    \* lines that came into being, and lines shown

inner == <<proc, lines, pipe, strip, scan, waiter, chan, stopped>>
outer == <<at, task, active, done, fwd, out>>
relayVars == <<engine, inner, outer, user, due, got>>

Pipes == {"stdout", "stderr"}

Begins == [restore |-> "say", tasks |-> "head", logs |-> "open"]
RelayInit ==
  /\ engine \in Engines
  /\ proc = [s \in Streams |-> "none"] /\ lines = [s \in Streams |-> 0]
  /\ pipe = [s \in Streams |-> [p \in Pipes |-> 0]]
  /\ strip = [s \in Streams |-> "none"]
  /\ scan = [s \in Streams |-> [p \in Pipes |-> "end"]]
  /\ waiter = [s \in Streams |-> "over"]
  /\ chan = [s \in Streams |-> 0] /\ stopped = {}
  /\ at = Begins[engine] /\ task = 1 /\ active = 0 /\ done = FALSE
  /\ fwd = [s \in Streams |-> "end"]
  /\ out = 0 /\ user = "reads" /\ due = 0 /\ got = 0
-----------------------------------------------------------------------------
(* A command and its stream. *)

\* What starting a command sets up.
StartsCommand(s) ==
  /\ proc' = [proc EXCEPT ![s] = "running"]
  /\ waiter' = [waiter EXCEPT ![s] = "wait"]
  /\ scan' = [scan EXCEPT ![s] = [p \in Pipes |->
       IF engine = "logs" /\ p = "stderr" THEN "end" ELSE "read"]]
  /\ strip' = [strip EXCEPT ![s] = IF engine = "logs" THEN "read" ELSE "none"]

\* stop of a stream, once: what is blocked on a send goes on, and the command
\* is ended.
StopsAll(S) ==
  /\ stopped' = stopped \union S
  /\ proc' = [s \in Streams |-> IF s \in S THEN "gone" ELSE proc[s]]

Write(s, p) ==
  /\ proc[s] = "running" /\ lines[s] < MaxLines /\ pipe[s][p] = 0
  /\ engine = "logs" => p = "stdout"
  /\ lines' = [lines EXCEPT ![s] = @ + 1]
  /\ pipe' = [pipe EXCEPT ![s][p] = @ + 1]
  /\ due' = due + 1
  /\ UNCHANGED <<engine, proc, strip, scan, waiter, chan, stopped, outer, user, got>>

Exit(s) ==
  /\ proc[s] = "running"
  /\ proc' = [proc EXCEPT ![s] = "gone"]
  /\ UNCHANGED <<engine, lines, pipe, strip, scan, waiter, chan, stopped, outer,
                 user, due, got>>

\* The pipe of a command that is gone ends once it is empty, and that of a stream
\* that was stopped may end before.
Ends(s, p) == proc[s] = "gone" /\ (pipe[s][p] = 0 \/ s \in stopped)

\* stripDockerHeader: a pipe whose write waits for its reader.
StripRead(s) ==
  /\ strip[s] = "read" /\ pipe[s]["stdout"] > 0
  /\ strip' = [strip EXCEPT ![s] = "write"]
  /\ pipe' = [pipe EXCEPT ![s]["stdout"] = @ - 1]
  /\ UNCHANGED <<engine, proc, lines, scan, waiter, chan, stopped, outer, user, due,
                 got>>
StripEnd(s) ==
  /\ strip[s] = "read" /\ Ends(s, "stdout")
  /\ strip' = [strip EXCEPT ![s] = "end"]
  /\ UNCHANGED <<engine, proc, lines, pipe, scan, waiter, chan, stopped, outer, user,
                 due, got>>

\* scan: reads a line, and sends it unless the stream was stopped.
ScanRead(s, p) ==
  /\ scan[s][p] = "read"
  /\ \/ /\ strip[s] = "none" /\ pipe[s][p] > 0
        /\ pipe' = [pipe EXCEPT ![s][p] = @ - 1] /\ UNCHANGED strip
     \/ /\ strip[s] = "write"
        /\ strip' = [strip EXCEPT ![s] = "read"] /\ UNCHANGED pipe
  /\ scan' = [scan EXCEPT ![s][p] = "send"]
  /\ UNCHANGED <<engine, proc, lines, waiter, chan, stopped, outer, user, due, got>>
ScanSend(s, p) ==
  /\ scan[s][p] = "send"
  /\ \/ /\ chan[s] < Cap
        /\ chan' = [chan EXCEPT ![s] = @ + 1]
        /\ scan' = [scan EXCEPT ![s][p] = "read"]
     \/ /\ s \in stopped
        /\ scan' = [scan EXCEPT ![s][p] = "end"] /\ UNCHANGED chan
  /\ UNCHANGED <<engine, proc, lines, pipe, strip, waiter, stopped, outer, user, due,
                 got>>
ScanEnd(s, p) ==
  /\ scan[s][p] = "read"
  /\ IF strip[s] = "none" THEN Ends(s, p) ELSE strip[s] = "end"
  /\ scan' = [scan EXCEPT ![s][p] = "end"]
  /\ UNCHANGED <<engine, proc, lines, pipe, strip, waiter, chan, stopped, outer, user,
                 due, got>>

\* Mutant: the waiter waits for one of the two scanners.
ScannedOne(s) == \E p \in Pipes : scan[s][p] = "end"
Scanned(s) == \A p \in Pipes : scan[s][p] = "end"
\* The waiter: both scanners have ended and so has the command, which may have
\* failed; the error is a line of its own.
Waited(s, next) ==
  /\ waiter[s] = "wait" /\ Scanned(s) /\ proc[s] = "gone"
  /\ next \in {"error", "stop"}
  /\ waiter' = [waiter EXCEPT ![s] = next]
  /\ due' = due + (IF next = "error" THEN 1 ELSE 0)
  /\ UNCHANGED <<engine, proc, lines, pipe, strip, scan, chan, stopped, outer, user,
                 got>>
SendError(s) ==
  /\ waiter[s] = "error"
  /\ \/ chan[s] < Cap /\ chan' = [chan EXCEPT ![s] = @ + 1]
     \/ s \in stopped /\ UNCHANGED chan
  /\ waiter' = [waiter EXCEPT ![s] = "stop"]
  /\ UNCHANGED <<engine, proc, lines, pipe, strip, scan, stopped, outer, user, due,
                 got>>
CloseChannel(s) ==
  /\ waiter[s] = "stop"
  /\ waiter' = [waiter EXCEPT ![s] = "over"]
  /\ StopsAll({s})
  /\ UNCHANGED <<engine, lines, pipe, strip, scan, chan, outer, user, due, got>>

StreamStep(s) ==
  \/ StripRead(s) \/ StripEnd(s)
  \/ \E p \in Pipes : ScanRead(s, p) \/ ScanSend(s, p) \/ ScanEnd(s, p)
  \/ \E next \in {"error", "stop"} : Waited(s, next)
  \/ SendError(s) \/ CloseChannel(s)
-----------------------------------------------------------------------------
(* The goroutine of the operation. *)

N == Cardinality(Streams)
Aside == UNCHANGED <<engine, user, got>>

\* send: to the channel, or past it once done is closed.
Sends(next, given) ==
  \/ out < Cap /\ out' = out + 1 /\ at' = next
  \/ done /\ UNCHANGED out /\ at' = given
\* A line of the operation's own.
Say(from, next) ==
  /\ at = from /\ Sends(next, "end")
  /\ due' = due + 1
  /\ UNCHANGED <<inner, task, active, done, fwd>> /\ Aside
Goes(from, next) ==
  /\ at = from /\ at' = next
  /\ UNCHANGED <<inner, task, active, done, fwd, out, due>> /\ Aside

\* sshPipe: copies the file to the command, then waits for it.  Closing the file
\* ends the copy, but neither a write the host does not take nor the wait.
Upload ==
  \/ Goes("copy", "write") \/ Goes("copy", "wait")
  \/ done /\ Goes("copy", "failed")
UploadRemote ==
  \/ Goes("write", "copy") \/ Goes("write", "failed")
  \/ Goes("wait", "starting") \/ Goes("wait", "failed")

\* What follows a line about a command that failed.
AfterFailure == IF engine = "tasks" THEN "next" ELSE "end"

StartStream ==
  /\ at = "start"
  /\ \/ StartsCommand(task) /\ at' = "publish"
     \/ UNCHANGED <<proc, waiter, scan, strip>> /\ at' = "failed"
  /\ UNCHANGED <<lines, pipe, chan, stopped, task, active, done, fwd, out, due>>
  /\ Aside

\* Mutant: the restore does not look whether it was stopped meanwhile.
NotCovered == "relay"
\* After the stop function of the stream was published: the restore looks whether
\* stop has fired, nerdctl's tasks do not.
Covered == IF engine = "restore" THEN "check" ELSE "relay"
Publish ==
  /\ at = "publish" /\ active' = task /\ at' = Covered
  /\ UNCHANGED <<inner, task, done, fwd, out, due>> /\ Aside
Check ==
  /\ at = "check" /\ at' = "relay"
  /\ IF done THEN StopsAll({task}) ELSE UNCHANGED <<stopped, proc>>
  /\ UNCHANGED <<lines, pipe, strip, scan, waiter, chan, task, active, done, fwd, out,
                 due>>
  /\ Aside

Take ==
  /\ at = "relay" /\ chan[task] > 0
  /\ chan' = [chan EXCEPT ![task] = @ - 1] /\ at' = "pass"
  /\ UNCHANGED <<proc, lines, pipe, strip, scan, waiter, stopped, task, active, done,
                 fwd, out, due>>
  /\ Aside
Pass ==
  /\ at = "pass" /\ Sends("relay", "end")
  /\ IF at' = "end" THEN StopsAll({task}) ELSE UNCHANGED <<stopped, proc>>
  /\ UNCHANGED <<lines, pipe, strip, scan, waiter, chan, task, active, done, fwd, due>>
  /\ Aside
Relayed ==
  /\ at = "relay" /\ chan[task] = 0 /\ waiter[task] = "over"
  /\ IF engine = "tasks" THEN active' = 0 /\ at' = "next"
     ELSE UNCHANGED active /\ at' = "end"
  /\ UNCHANGED <<inner, task, done, fwd, out, due>> /\ Aside

\* runComposeTasks: the tasks in order, each a banner and then a command that is
\* waited for (Action) or streamed.
TaskHead ==
  /\ at = "head"
  /\ at' = IF done THEN "end" ELSE "banner"
  /\ UNCHANGED <<inner, task, active, done, fwd, out, due>> /\ Aside
Action == \/ Goes("action", "failed") \/ Goes("action", "done")
\* Mutant: one task too many.
OneMore == task <= N
More == task < N
NextTask ==
  /\ at = "next"
  /\ IF More THEN task' = task + 1 /\ at' = "head"
     ELSE at' = "last" /\ UNCHANGED task
  /\ UNCHANGED <<inner, active, done, fwd, out, due>> /\ Aside

\* ComposeLogs: a stream and a forwarder for each container; one whose log does
\* not open is left out.
OpenLog ==
  /\ at = "open"
  /\ \/ StartsCommand(task) /\ fwd' = [fwd EXCEPT ![task] = "range"]
     \/ UNCHANGED <<proc, waiter, scan, strip, fwd>>
  /\ IF More THEN task' = task + 1 /\ UNCHANGED at
     ELSE UNCHANGED task /\ at' = "gather"
  /\ UNCHANGED <<lines, pipe, chan, stopped, active, done, out, due>> /\ Aside
Forward(s) ==
  /\ \/ /\ fwd[s] = "range" /\ chan[s] > 0
        /\ chan' = [chan EXCEPT ![s] = @ - 1]
        /\ fwd' = [fwd EXCEPT ![s] = "send"] /\ UNCHANGED out
     \/ /\ fwd[s] = "send" /\ out < Cap /\ out' = out + 1
        /\ fwd' = [fwd EXCEPT ![s] = "range"] /\ UNCHANGED chan
     \/ /\ fwd[s] = "send" /\ done
        /\ fwd' = [fwd EXCEPT ![s] = "end"] /\ UNCHANGED <<chan, out>>
     \/ /\ fwd[s] = "range" /\ chan[s] = 0 /\ waiter[s] = "over"
        /\ fwd' = [fwd EXCEPT ![s] = "end"] /\ UNCHANGED <<chan, out>>
  /\ UNCHANGED <<proc, lines, pipe, strip, scan, waiter, stopped, at, task, active,
                 done, due>>
  /\ Aside
Gathered ==
  /\ at = "gather" /\ \A s \in Streams : fwd[s] = "end"
  /\ at' = "over"
  /\ UNCHANGED <<inner, task, active, done, fwd, out, due>> /\ Aside

\* Mutant: the logs end with done, as their forwarders do.
ToStopActive == {active} \ {0}
\* What stop stops: the stream that is published, or every log.
ToStop == IF engine = "logs" THEN {s \in Streams : waiter[s] # "over"}
          ELSE {active} \ {0}

\* The deferred stop, which waits for one that is under way, and close(out).
Finish ==
  /\ at = "end" /\ user # "stopping"
  /\ at' = "over" /\ done' = TRUE
  /\ IF done THEN UNCHANGED <<stopped, proc>> ELSE StopsAll(ToStop)
  /\ UNCHANGED <<lines, pipe, strip, scan, waiter, chan, task, active, fwd, out, due>>
  /\ Aside

ProducerStep ==
  \/ Say("say", "copy") \/ Upload \/ Say("starting", "start")
  \/ StartStream \/ Publish \/ Check \/ Take \/ Pass \/ Relayed
  \/ Say("failed", AfterFailure)
  \/ TaskHead \/ Say("banner", "start") \/ Say("banner", "action")
  \/ Say("done", "next") \/ NextTask \/ Say("last", "end")
  \/ OpenLog \/ Gathered \/ Finish
-----------------------------------------------------------------------------
(* The console. *)

Show ==
  /\ user = "reads" /\ out > 0
  /\ out' = out - 1 /\ got' = got + 1
  /\ UNCHANGED <<engine, inner, at, task, active, done, fwd, user, due>>

\* stop, once: closes done, then looks which stream there is to stop.
Leave ==
  /\ user = "reads" /\ at # "open"
  /\ IF done THEN user' = "left" /\ UNCHANGED done
     ELSE user' = "stopping" /\ done' = TRUE
  /\ UNCHANGED <<engine, inner, at, task, active, fwd, out, due, got>>
StopActive ==
  /\ user = "stopping" /\ user' = "left"
  /\ StopsAll(ToStop)
  /\ UNCHANGED <<engine, lines, pipe, strip, scan, waiter, chan, outer, due, got>>
-----------------------------------------------------------------------------
Remote == \E s \in Streams : Exit(s) \/ \E p \in Pipes : Write(s, p)

RelayNext ==
  \/ Remote \/ UploadRemote \/ Action
  \/ \E s \in Streams : StreamStep(s) \/ Forward(s)
  \/ ProducerStep \/ Show \/ Leave \/ StopActive

\* Every goroutine of the program runs on; the host and the user owe nothing.
RelayFairness ==
  /\ \A s \in Streams :
       /\ WF_relayVars(StripRead(s) \/ StripEnd(s)) /\ WF_relayVars(Forward(s))
       /\ WF_relayVars(\E next \in {"error", "stop"} : Waited(s, next))
       /\ WF_relayVars(SendError(s) \/ CloseChannel(s))
       /\ \A p \in Pipes :
            WF_relayVars(ScanRead(s, p) \/ ScanSend(s, p) \/ ScanEnd(s, p))
  /\ WF_relayVars(ProducerStep) /\ WF_relayVars(StopActive)
RelaySpec == RelayInit /\ [][RelayNext]_relayVars /\ RelayFairness
-----------------------------------------------------------------------------
Places == {"say", "copy", "write", "wait", "starting", "failed", "start", "publish",
           "check", "relay", "pass", "head", "banner", "action", "done", "next",
           "last", "open", "gather", "end", "over"}

RelayTypeOK ==
  /\ engine \in Engines /\ at \in Places /\ task \in Streams
  /\ active \in Streams \union {0} /\ done \in BOOLEAN
  /\ user \in {"reads", "stopping", "left"}
  /\ out \in 0..Cap /\ stopped \subseteq Streams
  /\ \A s \in Streams :
       /\ proc[s] \in {"none", "running", "gone"}
       /\ lines[s] \in 0..MaxLines /\ chan[s] \in 0..Cap
       /\ strip[s] \in {"none", "read", "write", "end"}
       /\ waiter[s] \in {"wait", "error", "stop", "over"}
       /\ fwd[s] \in {"range", "send", "end"}
       /\ \A p \in Pipes : /\ pipe[s][p] \in 0..1
                           /\ scan[s][p] \in {"read", "send", "end"}
  /\ due \in Nat /\ got \in 0..due

\* A channel closes last: no goroutine sends to one that was closed, which would
\* end the program, and that of an operation nobody stopped closes only after
\* every line of every command was shown or waits in it, so that the console
\* never ends on half of the output.
ClosesLast ==
  /\ \A s \in Streams :
       waiter[s] = "over" => \A p \in Pipes : scan[s][p] # "send"
  /\ at = "over" => \A s \in Streams : fwd[s] # "send"
  /\ (at = "over" /\ user = "reads") => due = got + out

\* No command is left behind by an operation that is over.
NothingLeftRunning ==
  (at = "over" /\ user # "stopping") => \A s \in Streams : proc[s] # "running"

\* The operation's output, in one: types, a channel that closes last and whole,
\* and no command left behind.
OutputRight == RelayTypeOK /\ ClosesLast /\ NothingLeftRunning

\* The operation waits for the host in a call that stop does not reach: a write
\* or the end of the upload, or a command of nerdctl that is not streamed.
InHostsHands == at \in {"write", "wait", "action"}

\* "stop aborts the restore: closing the backup file unblocks the extract pipe,
\* done unblocks producers, and the inner up-stream (if started) is torn down":
\* after stop the operation ends, whatever the host does, unless it is the host
\* it waits for.
StopEnds ==
  \A e \in {"restore", "logs"} :
    (engine = e /\ done) ~> (at = "over" \/ InHostsHands)

\* "The returned stop aborts the sequence (and the active streamed sub-command)"
\* (runComposeTasks): the same of nerdctl's tasks.
StopAborts == (engine = "tasks" /\ done) ~> (at = "over" \/ InHostsHands)

\* After stop the goroutines of a log end too.
StopEndsLogs ==
  \A s \in Streams : (s \in stopped) ~> (strip[s] \in {"none", "end"})
=============================================================================
