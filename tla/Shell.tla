------------------------------- MODULE Shell -------------------------------
(***************************************************************************)
(* The embedded shell (internal/ui/shell) and the interactive sessions     *)
(* behind it (internal/docker/exec.go, ssh_exec.go).                       *)
(*                                                                         *)
(* An exec is set up by a goroutine; its message opens the panel over      *)
(* whatever panel there is.  One goroutine, the pump, writes the keys      *)
(* queued for a session; another reads one chunk at a time and is started  *)
(* again by the handler of the chunk, on the session of the panel.  Chunks *)
(* and ends carry no session.                                              *)
(***************************************************************************)
EXTENDS Integers, FiniteSets, Sequences, SequencesExt

CONSTANTS Sessions,     \* the execs the user starts
          None,
          QueueCap,     \* the capacity of the input queue
          MaxChunks,    \* bound: chunks a process writes
          MaxTyped      \* bound: keys typed

ASSUME ShellAssumption ==
  /\ None \notin Sessions /\ IsFiniteSet(Sessions)
  /\ {QueueCap, MaxChunks, MaxTyped} \subseteq Nat /\ QueueCap > 0

VARIABLES
  shown,      \* whether the mode is ModeShell
  session, closed,   \* shell.Model.session and closed
  input,      \* shell.Model.input, as the session whose pump reads it
  phase,      \* of each session: "new", "starting", "failed", "open", "closed"
  exited,     \* the sessions whose process has ended
  chunks,     \* chunks its process has written
  queue,      \* keys in the input queue of each session
  inputClosed,  \* the sessions whose input queue is closed
  pump,       \* of each session: "none", "idle", "writing" or "done"
  writing,    \* the key its pump is writing
  received,   \* the keys its process has got
  readers,    \* read commands under way: [on, got], got "none", "out" or "end"
  term,       \* the sessions whose output the terminal shows
  typed       \* how many keys were typed

procVars == <<exited, chunks, received>>
pumpVars == <<queue, inputClosed, pump, writing>>
vars == <<shown, session, closed, input, phase, procVars, pumpVars, readers,
          term, typed>>

Init ==
  /\ shown = FALSE /\ session = None /\ closed = FALSE /\ input = None
  /\ phase = [s \in Sessions |-> "new"] /\ exited = {}
  /\ chunks = [s \in Sessions |-> 0]
  /\ queue = [s \in Sessions |-> <<>>] /\ inputClosed = {}
  /\ pump = [s \in Sessions |-> "none"] /\ writing = [s \in Sessions |-> 0]
  /\ received = [s \in Sessions |-> <<>>]
  /\ readers = {} /\ term = {} /\ typed = 0
-----------------------------------------------------------------------------
(* Opening. *)

\* execCmd, runInteractiveCmd: a command of the list, whose keys reach it only
\* while no panel is shown.
Exec(s) ==
  /\ phase[s] = "new" /\ ~shown
  /\ phase' = [phase EXCEPT ![s] = "starting"]
  /\ UNCHANGED <<shown, session, closed, input, procVars, pumpVars, readers, term,
                 typed>>

\* ExecInteractive, RunInteractive: no shell in the container, or a create,
\* attach or start that fails, in which case nothing of it is left.
StartFails(s) ==
  /\ phase[s] = "starting"
  /\ phase' = [phase EXCEPT ![s] = "failed"]
  /\ UNCHANGED <<shown, session, closed, input, procVars, pumpVars, readers, term,
                 typed>>

Read(s) == {[on |-> s, got |-> "none"]}

\* execMsg and Open: the panel, its terminal and its input queue are the new
\* session's, whatever becomes of the one they were of.
Open(s) ==
  /\ phase[s] = "starting"
  /\ phase' = [phase EXCEPT ![s] = "open"]
  /\ shown' = TRUE /\ session' = s /\ closed' = FALSE /\ input' = s
  /\ pump' = [pump EXCEPT ![s] = "idle"]
  /\ readers' = readers \union Read(s)
  /\ term' = {}
  /\ UNCHANGED <<procVars, queue, inputClosed, writing, typed>>
-----------------------------------------------------------------------------
(* The process. *)

Write(s) ==
  /\ phase[s] = "open" /\ s \notin exited /\ chunks[s] < MaxChunks
  /\ chunks' = [chunks EXCEPT ![s] = @ + 1]
  /\ UNCHANGED <<shown, session, closed, input, phase, exited, received, pumpVars,
                 readers, term, typed>>

Exit(s) ==
  /\ phase[s] = "open" /\ s \notin exited
  /\ exited' = exited \union {s}
  /\ UNCHANGED <<shown, session, closed, input, phase, chunks, received, pumpVars,
                 readers, term, typed>>

\* ReadCmd: what is there, or the end once there is no more.
ReadOutput(r) ==
  /\ r.got = "none" /\ phase[r.on] = "open" /\ chunks[r.on] > 0
  /\ chunks' = [chunks EXCEPT ![r.on] = @ - 1]
  /\ readers' = (readers \ {r}) \union {[r EXCEPT !.got = "out"]}
  /\ UNCHANGED <<shown, session, closed, input, phase, exited, received, pumpVars,
                 term, typed>>

\* Mutant: closing a session does not end its readers.
EndOfExitOnly(s) == s \in exited /\ chunks[s] = 0
EndOf(s) == phase[s] = "closed" \/ (s \in exited /\ chunks[s] = 0)
ReadEnd(r) ==
  /\ r.got = "none" /\ EndOf(r.on)
  /\ readers' = (readers \ {r}) \union {[r EXCEPT !.got = "end"]}
  /\ UNCHANGED <<shown, session, closed, input, phase, procVars, pumpVars, term,
                 typed>>

\* Mutant: nothing reads on.
NextReadNone == {}
NextRead == IF closed THEN {} ELSE Read(session)
\* OutputMsg: written to the terminal of the panel, whosever it is; the next read
\* is of the panel's session.  Two readers of one session that wait for the
\* same are kept as one.
Output(r) ==
  /\ r.got = "out"
  /\ term' = term \union {r.on}
  /\ readers' = (readers \ {r}) \union NextRead
  /\ UNCHANGED <<shown, session, closed, input, phase, procVars, pumpVars, typed>>

\* ClosedMsg.
Ended(r) ==
  /\ r.got = "end"
  /\ closed' = TRUE /\ readers' = readers \ {r}
  /\ UNCHANGED <<shown, session, input, phase, procVars, pumpVars, term, typed>>
-----------------------------------------------------------------------------
(* Keys. *)

\* SendKey: a key that finds the queue full is dropped.
Queued(q, k) == IF Len(q) < QueueCap THEN Append(q, k) ELSE q

Type ==
  /\ shown /\ ~closed /\ input # None /\ typed < MaxTyped
  /\ typed' = typed + 1
  /\ queue' = [queue EXCEPT ![input] = Queued(@, typed')]
  /\ UNCHANGED <<shown, session, closed, input, phase, procVars, inputClosed, pump,
                 writing, readers, term>>

\* Mutant: a key stays in the queue until it is written.
TakenLater(q) == q
Taken(q) == Tail(q)
\* The pump: takes a key, writes it, and ends when the queue is closed and empty
\* or the session is gone.
PumpTake(s) ==
  /\ pump[s] = "idle" /\ queue[s] # <<>>
  /\ writing' = [writing EXCEPT ![s] = Head(queue[s])]
  /\ queue' = [queue EXCEPT ![s] = Taken(@)]
  /\ pump' = [pump EXCEPT ![s] = "writing"]
  /\ UNCHANGED <<shown, session, closed, input, phase, procVars, inputClosed,
                 readers, term, typed>>
PumpWrite(s) ==
  /\ pump[s] = "writing"
  /\ IF phase[s] = "open" /\ s \notin exited
     THEN /\ received' = [received EXCEPT ![s] = Append(@, writing[s])]
          /\ pump' = [pump EXCEPT ![s] = "idle"]
     ELSE /\ pump' = [pump EXCEPT ![s] = "done"] /\ UNCHANGED received
  /\ UNCHANGED <<shown, session, closed, input, phase, exited, chunks, queue,
                 inputClosed, writing, readers, term, typed>>
PumpEnd(s) ==
  /\ pump[s] = "idle" /\ queue[s] = <<>> /\ s \in inputClosed
  /\ pump' = [pump EXCEPT ![s] = "done"]
  /\ UNCHANGED <<shown, session, closed, input, phase, procVars, queue, inputClosed,
                 writing, readers, term, typed>>

\* Ctrl+D, Ctrl+\ or, once the session has ended, q: closeShell, CloseSession
\* and Close of the session.
Close ==
  /\ shown /\ shown' = FALSE /\ closed' = TRUE
  /\ input' = None
  /\ inputClosed' = inputClosed \union ({input} \ {None})
  /\ phase' = [s \in Sessions |-> IF s = session THEN "closed" ELSE phase[s]]
  /\ UNCHANGED <<session, procVars, queue, pump, writing, readers, term, typed>>

\* The result of another action closes the panel on the screen and nothing of
\* the session (actionResultMsg, connectResultMsg).
TakenAway ==
  /\ shown /\ shown' = FALSE
  /\ UNCHANGED <<session, closed, input, phase, procVars, pumpVars, readers, term,
                 typed>>
-----------------------------------------------------------------------------
PumpStep(s) == PumpTake(s) \/ PumpWrite(s) \/ PumpEnd(s)
ReadStep(s) == \E r \in readers : r.on = s /\ (ReadOutput(r) \/ ReadEnd(r))
HandlerStep(s) == \E r \in readers : r.on = s /\ (Output(r) \/ Ended(r))

Next ==
  \/ \E s \in Sessions : Exec(s) \/ StartFails(s) \/ Open(s) \/ Write(s) \/ Exit(s)
  \/ \E s \in Sessions : PumpStep(s) \/ ReadStep(s) \/ HandlerStep(s)
  \/ Type \/ Close \/ TakenAway

\* Every goroutine runs on, and every message it sends is handled.
Fairness == \A s \in Sessions :
  WF_vars(PumpStep(s)) /\ WF_vars(ReadStep(s)) /\ WF_vars(HandlerStep(s))
Spec == Init /\ [][Next]_vars /\ Fairness
-----------------------------------------------------------------------------
Phases == {"new", "starting", "failed", "open", "closed"}

TypeOK ==
  /\ shown \in BOOLEAN /\ closed \in BOOLEAN
  /\ {session, input} \subseteq Sessions \union {None}
  /\ phase \in [Sessions -> Phases]
  /\ exited \union inputClosed \union term \subseteq Sessions
  /\ chunks \in [Sessions -> 0..MaxChunks]
  /\ queue \in [Sessions -> Seq(1..MaxTyped)]
  /\ \A s \in Sessions : Len(queue[s]) <= QueueCap
  /\ pump \in [Sessions -> {"none", "idle", "writing", "done"}]
  /\ writing \in [Sessions -> 0..MaxTyped]
  /\ received \in [Sessions -> Seq(1..MaxTyped)]
  /\ readers \subseteq [on : Sessions, got : {"none", "out", "end"}]
  /\ typed \in 0..MaxTyped

\* What the pump of session s has written, is writing and has yet to write.
Stream(s) == received[s]
             \o (IF pump[s] = "writing" THEN <<writing[s]>> ELSE <<>>)
             \o queue[s]

\* "A single pump preserves keystroke order" (Open): what reaches a process is
\* what was typed, in that order, each key at most once and in one session.
KeysInOrder ==
  /\ \A s \in Sessions : \A i, j \in DOMAIN Stream(s) :
       i < j => Stream(s)[i] < Stream(s)[j]
  /\ \A s, t \in Sessions :
       s # t => ToSet(Stream(s)) \intersect ToSet(Stream(t)) = {}

Live == {s \in Sessions : phase[s] = "open"}

\* The panel that takes keys, as long as no chunk of an earlier session has come
\* to it: its session is open, its keys go there, and one command reads it (two
\* would show its output out of order, none would freeze it).
PanelIsOfSession ==
  (shown /\ ~closed /\ term \subseteq {session}) =>
    /\ input = session /\ session \in Live
    /\ Cardinality({r \in readers : r.on = session}) = 1

\* The panel and its sessions, in one: types, keys in order and to one session,
\* and a panel that shows the session it writes to.
PanelRight == TypeOK /\ KeysInOrder /\ PanelIsOfSession

\* Closing a session ends its pump and its readers, whatever they are doing.
ClosedEnds ==
  \A s \in Sessions :
    phase[s] = "closed" ~> /\ \A r \in readers : r.on # s
                           /\ s \in inputClosed => pump[s] = "done"

\* "The input pump is stopped first so it can't write to a closing connection"
\* (CloseSession).
PumpStopsFirst ==
  \A s \in Sessions : phase[s] = "closed" => pump[s] # "writing"

\* A live session is the panel's, which can close it.
NoStraySession == Live \subseteq {session}
=============================================================================
