# d9c: a verification project

d9c is a terminal interface for container engines (Docker, Podman, nerdctl,
CRI), with two further ways in for programs: a command line for agents
(`d9c containers ls`, fan-out over hosts) and an MCP server (`d9c mcp`).
This directory holds TLA+ modules that model its concurrent and stateful parts,
TLC configurations that check them on small instances, and proofs that TLAPS
checks for instances of every size. `PROJECT.json` lists which lines each
definition stands for.

## 1. The system

### How it is put together

```
 keyboard ──> ui (bubbletea event loop) ──commands──> docker.Backend ──> engine
                 │   ^                                   (API, SSH, nerdctl, CRI)
                 │   └── messages (results, ticks)             ^
                 └──> portfwd.Manager ── dialer ───────────────┘
 agent CLI ──> cli ──> agent.Registry ──> docker.Backend       ^
 MCP client ─> mcpserver ─> conn ─> agent.Registry ────────────┘
                    └────────> audit log
```

* The **event loop** of the interface (`internal/ui`) takes one message at a
  time. Whatever is slow is a *command*: a goroutine whose result comes back as
  a message, at any time and in any order. State read when a command is made may
  be stale when its result is handled: most of the hazards of the program come
  from there.
* The **port-forward manager** (`internal/portfwd`) is shared by the event loop,
  by commands and by one goroutine per listener and per client connection. It is
  a mutex around a map, dropped whenever something slow is done.
* The **MCP server** serves each tool call on a goroutine; they share one
  connection.
* **Streams** (logs, events, progress of operations) are buffered channels, each
  with a producer goroutine and a stop function.

### Components

For each: its state; its operations; what is hard about it; what makes it correct.

| Component | State | Operations | Hard | Correct when | Modules |
|---|---|---|---|---|---|
| Port-forward manager (`internal/portfwd`) | tunnels with listener, state, count and connections; the dialer | Start, Stop, Resume, Toggle, Remove, CloseAll, SetDialer; serve, handle, pipe, release | locks dropped around bind and dial; closeLocked against release | no listener leaks, counts are exact, stopped tunnels cut clients off, list behaves as a list of tunnels | `PortFwd`, `Tunnels` |
| Interface session (`internal/ui` model, update, forms, readonly; `main.go`) | live config, backend, dialogs, heartbeat, reconnect flag | connect, reconnect with backoff, ping, probe, switch, background close | late answers of abandoned dials, pings, probes and calls; the config is written while a dial reads it | never waits for a retry nobody makes; one owner per connection; the heartbeat goes on | `Session` |
| Interface streams (same files, `ui/events`; producers in `internal/docker`) | channels, stop functions, log viewer, feed | open, read a batch, end, close, resubscribe, replace, switch | readers of replaced streams; producers blocked on full channels | every running stream can be stopped and ends when it is; the feed has no gaps | `Streams` |
| Lists (`update.go`, `update_dispatch.go`, `table.go`) | view, scope, rows, cursor, marks, statistics | fetch, answer, switch views, drill down, mark, act on many, reconnect | answers say nothing of the view, scope or host they are for; rows outlive their columns | the table is never read past its end, a key finds no object of another view, what is pointed at stays | `Lists` |
| Windows (`update*.go`, `cmdline`, pickers, `readonly.go`) | mode, form states, pending confirmation, catalog, pickers | commands, open, submit, result, cancel, switch | results judged by whatever window is up; a confirmation that outlives a switch of hosts | no form waits for an answer nobody sends; whatever writes was admitted | `Windows` |
| Embedded shell (`ui/shell`, `docker/exec.go`, `ssh_exec.go`) | panel, session, input queue, terminal | open, type, pump, read, exit, close | goroutines of an earlier session; chunks that carry no session | keys arrive in order and in one process; closed sessions end | `Shell` |
| Log viewer (`ui/logs`) | capped buffer, search, matches, current match | batch, search keys, follow | matches carried over batches that push old lines out | the matches are those of the buffer; the current one stays on its line | `LogView` |
| File browser (`ui/fsbrowser`, `docker/fs.go`) | container, path, entries, cursor | list, descend, ascend, download | answers late, out of order, after a close or a switch | title, entries and cursor belong together | `Files` |
| MCP session (`internal/mcpserver`) | the shared connection under its mutex, calls, audit log | tools/call, get, drop, retry, cancel, close | a call drops the connection others use; dial under the lock | one connection, writes not repeated, reads retried once, every write logged, every call answered | `Mcp` |
| Operation registry, tiers, errors, audit entries (`internal/agent`) | none of its own | Invoke, Allows, Classify, NewAuditEntry | what a refusal, a dry run and a partial result leave behind | nothing is sent by what was refused or planned; the log is true | `Mcp`, `Cli` |
| Write policy (`agent/policy.go`) | a global block, a block per host, a flag, two read-only switches | resolve a host's ceiling | a block overrides another field by field | the ceiling is what the nearest blocks say, and none with a read-only switch on | `Cli` |
| Agent command line and fan-out (`main_cli.go`, `main_fanout.go`, `internal/cli`) | one invocation; results per host | target, policy, dial, plan or run, audit, exit status; concurrent hosts | order of refusal, confirmation and audit; one host fails | no write past one of the three gates; the audit line and exit status are what was done | `Cli` |
| Lifecycle, wait, exec, deploy and maintenance operations (`agent/ops_*.go`) | targets and their outcomes | resolve, act on each, poll until a state, stream progress, prune, create | other clients of the engine; partial failure; a name that changes hands | each target is acted on and reported once, as it ended; a prune removes what its plan names | `Cli`, `Objects`, `Projects` |
| Image, compose and statistics operations, on the four backends (`ops_images.go`, `ops_compose.go`, `docker/resources.go`, `nerdctl_*.go`, `cri_*.go`, `fake.go`) | the engine's objects; the CPU baseline; the sudo verdict; backup files | resolve, remove, tag, push, build, pull, run, sample, group, up, down, backup | lookups and acts are calls of their own; engines differ | answers say what was done, requests are bounded | `Objects`, `Projects` |
| Relayed output: SSH streams, restore, compose tasks, merged logs (`ssh_exec.go`, `compose.go`, `nerdctl_compose.go`, `nerdctl_runner.go`) | channels, pipes, stop functions, the active sub-command | start, scan, wait, send, close, stop | nested goroutines; stop between the stages | a channel closes last and once; stop ends it all | `Relay` |
| Host store, settings, migration, contexts (`hosts.go`, `settings.go`, `main.go`, `dockerctx`) | one YAML file, a copy in each process | load, import, add, edit, remove, save, migrate | two processes, whole-file writes, crashes | names unique, marks kept, the old file goes last | `Store` |
| Read operations, shaping, redaction; port targets; rendering and form fields; alerts, keys, themes, plugins, translations; distribution and live-test tools | none that is shared | format, parse, draw | - | - | not modelled (section 6) |

## 2. The modules

### `Tunnels`, `PortFwd`, `PortFwdProofs`

`PortFwd` is `internal/portfwd/portfwd.go`. Each critical section is one action
(`StartCheck`, `StartInsert`, `ResumeCheck`, `ResumeInsert`, `Stop`, `Remove`,
`CloseAll`, `ServeRegister`, `MarkDial`, `RegisterRemote`, `ForgetRemote`,
`Release`), and so is each thing the code does with the lock dropped
(`ListenOk`, `ListenErr`, `Accept`, `Dial`, `Pipe`). The fields of `tunnel` are
functions on tunnel identifiers (`state`, `localPort`, `nconns`, `ln`,
`clients`, `remotes`); `call[p]` is the program counter and the locals of a
Start, Toggle or Resume, `hnd[c]` those of the goroutine of client `c`.
`closing` are the connections handed to the goroutine that `closeLocked` starts.
The operating system is one rule: a listener gets a port that no open listener
has.

`Tunnels` says what a screen may rely on, without listeners, clients or locks:
a tunnel is unborn, open, stopped or removed, returns on its own port only, and
two open ones never share a port. `ImplementsTunnels` is the refinement, with
`TunnelStatus` read off the manager's map.

### `Session`, proved in `ConnectionProofs`

The event loop's connection: `cfg` is the live `*config.Config` (host, and whose
TLS and SSH settings it holds), `conn` every connection ever dialed, `flying` the
bag of commands and messages in flight. Every message of `Update` that touches
the connection is an action (`PingDone`, `ProbeDone`, `CallDone`, `CallLost`,
`ConnectFailed`, `Connected`, `RetryDropped`, `RetryFailed`, `Reconnected`), and
every key that does (`BeginConnect`, `AuthEnter`, `ConnectAgain`, `Esc`,
`UserCall`); a dial is two steps, since it reads `cfg` on its goroutine and is
judged when its result is handled. `UserCall` with `ForwardRun` is a port-forward
started on the old host that may finish after a switch.

### `Streams`, proved in `InterfaceProofs`

`stream[s]` is a channel with its producer (`Scan`, `Send`, `Quit`,
`SourceEnds`); `logCh`, `logStop`, `eventCh`, `eventStop`, `logID` and `opTitle`
are the fields of the model; `flying` holds opens, readers and their messages.
The log viewer is shared by container logs and by the console of operations, as
in the code. The view may be closed, replaced by a late window, or left by a
switch or a reconnect at any point.

### `Mcp`, proved in `ServicesProofs`

`live` and `mu` are `conn.b` and `conn.mu`; `call[c]` is one tool call from the
check of its arguments through `get`, `Invoke`, the handler, `drop`, the delay
and the second attempt to the audit line and the answer. `Cancel` may come at
any time. What a handler returns is the engine's choice: ok, partial, failed,
lost connection.

### `Cli`, `MCCli`, `CliProofs`

One command of the command line, which is one process. `inv` is the parsed
`cli.Invocation`, `pol` the `agent.Policy`, `pc` the place in `runCLI`, `execCLI`,
`Registry.Invoke` and the handler; a step is what happens between two calls of
the engine. `FanOut`, `OpenLog`, `Resolve`, `Dial`, `Invoke` and `Finish` are the
common frame, with every early return. Behind it, one command of each shape:

| Shape | Commands of that shape | Actions |
|---|---|---|
| act on many containers | start, stop, restart, kill, rm | `ListTargets`, `Act`, `Acted` |
| follow one container | wait | `Poll` |
| act in one container | exec | `ExecTarget`, `Exec` |
| progress stream | compose up, compose down | `StartStream`, `Line`, `StreamEnd` |
| check, then create | network create | `CheckCreate`, `CreateNetwork` |
| one call of several steps | system prune | `SystemPrune` |
| read | ps, hosts ls | `Read` |
| read on several hosts | ps | `Ask`, `Answer`, `Collect` |

`OtherClient` is everyone else who uses the engine: containers start, stop, are
removed, renamed and created under a name that became free, between any two
steps. A call that loses its connection may have taken effect or not. `targets`
is `ActionData.Targets` by slot: the references of the command line first, then
whatever the filter selects. `sent`, `confirmed` and `acts` are not state of the
program: they record what the engine was asked and what it confirmed, so that
properties can compare the log with what happened.

### `Lists`, `MCLists`, proved in `InterfaceProofs`

`world` is what the daemons hold; `calls` are the list fetches under way, each
with the view, scope and connection it was made with. `Answer` takes the list,
`Deliver` is its handler: since a message says nothing of its origin, it lands in
whatever view is shown by then. `lists` is the last answer by view, `rows`,
`columns` and `cursor` the table (`SetRows`, `Relayout`, `ClampCursor`). Keys
switch views, drill down into a project, mark, and run an action on the marked or
pointed object (`RunAction`, `ActionResult`); `Reconnected` and `Connected`
change the connection. A key is one step with the handler of the message it
posts. Of a row only its object and its number of cells are kept, of two fetches
made in the same state only one.

### `Windows`, `MCWindows`, `WindowsProofs`

`posts` are messages that open a window, `calls` what windows have started; both
come back in any order and find any `mode`. `busy` are the forms that show their
spinner. The command tables (`CommandTable`, `Mutating`) are those of
`cmdline.go` and `readonly.go`, by view and name. `from` is a history variable:
the host whose rule admitted the command a window, message or call descends from.
The backup catalog (`items`, `cursor`, `armed`) and the theme and language
pickers are windows with state of their own. A command line is typed and entered
in one step.

### `Shell`

`session`, `input`, `closed` are the fields of `shell.Model`; `phase[s]` is the
life of an exec, `queue[s]` its input channel, `pump[s]` the goroutine of `Open`
that writes it, `readers` the `ReadCmd`s under way. A second `execMsg` may open
over a panel whose session still lives, and `TakenAway` is an action's result
that takes the screen. Two readers that wait for the same session are kept as
one. Emulation is the set of sessions whose output the terminal has (`term`).

### `LogView`, `Files`

`LogView` is `logs.Model` as one record, changed by pure operators (`AddLines`,
`Shifted`, `Scanned`, `Edited`, `Stepped`) under one action for each key and one
for a batch. A line is the set of queries found in it, so that any query may be
in any subset of the lines. Matches are line numbers in ascending order
(`Ascending`). `dropped` counts what was pushed out, so that a line
keeps a number of its own.

`Files` has a request for each goroutine (`Request`, `Serve`), whose answer
(`Listed`, `ListingFailed`, `Copied`) is handled whatever the browser shows by
then. A path is a sequence of names, a container a set of `[path, isDir]`, which
its processes change (`Rewrite`).

### `Panels`, `MCShell`, `PanelsProofs`

`Panels` composes the shell, the log viewer and the browser, which share nothing:
a step is one of any of them. `PanelsProofs` proves what it promises for panels
that move together in any way; `MCShell` gives the instance TLC checks, begun on
the host that has the containers.

### `Relay`, proved in `ServicesProofs`

One module for the three operations that relay the output of others, chosen by
`engine`: a restore over SSH (an upload, then `up`), nerdctl's compose tasks, and
a project's merged logs. Each command is two pipes with a scanner each, a waiter
that closes the channel (`Scanned`, `Waited`, `CloseChannel`), and, for a
container's log, the goroutine that takes headers off (`StripRead`, `StripEnd`).
The operation's own goroutine is `at`, with `done` and `active` what its stop
function closes and stops; it may be called between any two steps. Streams are
numbered, since commands of a restore and tasks of compose run in a fixed order.

### `Store`, `MCStore`, proved in `ServicesProofs`

`disk` is the file, `Torn` while it does not parse; `writes` are those that have
emptied it and not yet filled it. Each process loads (`Load`), moves the old
hosts file over (`Migrate`, `Rename`), and then changes its copy and saves the
whole: `HostChange` is add, edit, import of a context; `Removal` runs on a
goroutine beside the event loop. `Crash` may fall anywhere.

### `Facts`

Lemmas on finite sets, sequences and bags that the proofs share.

### `Objects`, `Projects`, `MCProjects`, proved in `ConnectionProofs`

`call[c]` is a command under way, of the agent or of the interface: its words,
its place (the lookup, the act, the read-back), what it found, did and answered.
Each call of the engine is a step, with its meaning for `engine` (docker,
nerdctl, crictl, the demo): images by reference, prefix and tag with the
removal rules of each, networks, volumes, `run` with its pull, the prunes and
their plans, statistics with their semaphore and CPU baseline. `Projects` adds
grouping by labels, per-container compose commands, the commands run over SSH with the
sudo verdict and its probe, nerdctl's tasks, the demo's deployments, compose files and
backups. Between any two steps a `Mishap` may happen: `OtherClient` removes a container
or moves a tag, a reply is lost after the engine did what it was asked (`Turns`), or a
prune breaks off half-way (`PruneStageFails`, `PruneBreaksOff`). An attempt at a backup
ends in four ways (`ArchiveEnds`), since `sshExecToFile` leaves a file that does not close
and does not look whether its removal worked; `did` holds "left" then.

An agent's sweep is called twice: it stands at "asked" after the first call, which answers
with the plan, until it is `Confirmed`; the handler that then runs looks at no plan.
`approved[c]`, a history variable, holds that plan for as long as nobody else has changed
the images, containers or volumes it is about. Each engine prunes by its own rule: the
demo's `SystemPrune` keeps nothing but running containers (`DemoPrunesContainers`), where
docker's keeps paused ones as well. The two rules agree, since a container of the demo is
never paused: `setContainerState` knows running and exited, a compose pause there changes
the deployment's status alone, and no sample starts paused (proved: `StatesOf`).

## 3. What TLC checks

All runs are exhaustive within their bounds.

| Run | Instance | Asks | Result |
|---|---|---|---|
| `portfwd` | two callers, one client, two tunnels, two ports | `ConnsRight`, `ListenersRight`, `CutOffClosed`, `ImplementsTunnels` | hold |
| `session` | two hosts, one with a password prompt, two connections, two keys or ticks ahead | `HeartbeatRight`, `ReconnectRight`, `OneOwner`, `OpenIsUsedOrClosed` | hold |
| `mcp` | two concurrent calls, three connections | `OneConnection`, `TriedRight`, `WritesLeaveTrail`, `EveryCallAnswered` | hold |
| `streams` | logs, a console and events, two streams, two commands ahead | `RunningIsOwned`, `ShownInOrder`, `StreamsLive` | hold |
| `cli` | 28 commands under 10 policies, two containers, other clients at any time, three hosts for two workers | `WritesAdmitted`, `LogIsTrue`, `TargetsRight`, `CommandEnds` | hold |
| `lists` | two hosts, eight objects, two fetches and two keys ahead, one change | `ListsRight`, `PointedStays`, `RowsCatchUp` | hold |
| `windows` | a writable host over SSH and a read-only one, every command of every view, three archives, five keys, two messages and two calls | `WindowsRight`, `BusyIsWaiting`, `WritesWereAdmitted` | hold |
| `shell` | two sessions, a queue of one, two keys; a buffer of three lines, batches of two, two queries; two containers on two hosts, three requests | `PanelRight`, `ViewersRight`, `ClosedEnds`, `MatchStays` | hold |
| `relay` | each of the three operations, two commands of two lines, channels of one | `OutputRight`, `StopEnds` | hold |
| `store` | two processes, two changes, two names | `HostsRight`, `NothingLost` | hold |
| `projects` | two calls at once on each of four engines and three kinds of host, one change by another client or lost reply | `ProjectsRight`, `SweepsAsPlanned` | hold |
| `projects_told` | one call on nerdctl, with a lost reply | is an agent's deployment whose tasks failed answered as failed? | no: finding 1 |

What the properties are for:

* `ListenersRight`: a Remove, CloseAll or Resume that falls between the unlock
  and the insertion of another Resume. `ConnsRight`: the same client is accounted
  for by `closeLocked` and by its handler, and `Accept` returned before a Stop and
  a Resume. `CutOffClosed`: a client of a stopped tunnel is closed whatever its
  handler is doing.
* `ReconnectRight`: while `reconnecting` is up, ticks fetch nothing and errors
  start nothing, so a lost attempt would be for good. `HeartbeatRight`: the flag
  that gates the heartbeat survives dropped pings. `OneOwner`,
  `OpenIsUsedOrClosed`: no backend leaks or is closed under the session.
* `OneConnection`, `TriedRight`, `WritesLeaveTrail`, `EveryCallAnswered`: two
  calls lose the same connection and both drop it, one of them after the other
  has redialed.
* `RunningIsOwned`, `StreamsLive` (`StoppedEnds`): no producer is left without anyone to stop it
  or blocked for ever. `ShownInOrder`, `StreamsLive` (`FeedIsLive`): readers of replaced
  subscriptions never corrupt the feed, and the live one has exactly one reader;
  the viewer that logs and consoles share shows what its title says.
* `WritesAdmitted`: the ceiling is judged in one function, the confirmation in
  another and the log is opened in a third; no way through them reaches a
  request that changes something past one of the three. `LogIsTrue` compares the
  audit line with what the engine was sent and confirmed, partial and failed
  commands included. `TargetsRight`: the same container by name, by prefix and by
  filter; and the name waited for changes hands.
* `ListsRight`: an answer for another view or layout reaches a table whose
  columns have changed, which would index past a row's cells; a key reads the row
  of the last view by the layout of the new one; batches of statistics of
  abandoned connections pile up. `PointedStays`: an unstable order of the answer
  moves the cursor to another object; marks turn up in another view.
  `RowsCatchUp`: a late answer of another view or scope is for good.
* `BusyIsWaiting`: a form that swallows every key waits for a result that another
  window took. `WritesWereAdmitted`: through however many windows a write was
  started, its command was admitted. `WindowsRight`: the deletion armed for one
  archive is confirmed for another after the catalog was read anew.
* `PanelRight`: keys overtake each other, reach two sessions, or a panel has
  two readers or none. `ClosedEnds`: a pump blocked in a write and readers of a
  closed session. `ViewersRight`: matches carried over batches against a search
  of the whole buffer, whose current one is read without a check; a browser whose
  title, entries and cursor come from different answers. `MatchStays`: the
  current match stays on its line, if that is still there.
* `OutputRight`: a send to a closed channel, which ends the program; a console
  that ends on half of the output. `StopEnds`: stop between the stages.
* `HostsRight`: a torn file is made good by the next save, renames and imports
  meet in one name. `NothingLost`: the form does not show the read-only mark and must
  not lose it (`ReadOnlyStays`); a crash between import, save and rename (`ImportedBeforeGone`).
* `ProjectsRight`: an answer that tells less or more than was done, a semaphore
  that leaks, a sudo verdict taken from a failure of the connection, an archive
  cut short that is answered as whole, a failed backup that leaves its file although it
  could be removed; a stage of `system prune` that is reported but did nothing, while one
  that failed may have done its work. `SweepsAsPlanned`: a prune removes what the plan
  made at that moment would not name; or, with the other steps of the prune and other
  calls that leave these objects alone in between, what the plan approved did not name.
  What others stop or untag after the approval is pruned too: the code does not compare,
  and the property does not ask for it.

### Bounds, and why they are enough

* Each property is about the meeting of two actors over one object; each run has
  two of whatever may meet (callers, calls, hosts, streams, sessions, processes)
  and the object twice when it may be replaced (listeners, connections, tunnels),
  three times in `mcp`, where each of the two calls may lose one. A third actor
  adds no new pair.
* One client connection suffices in `portfwd`: counts and sets of one tunnel are
  only related client by client; the proofs remove this bound and the others of
  that module.
* `MaxFlying` bounds what keys and ticks add; the answers of commands are
  never cut off. Two are enough for a command to overtake another; a switch adds
  more by itself. `MaxCalls`, `MaxPosts` and `MaxKeys` do the same in `lists` and
  `windows`: a session there is taken up in any of `FirstViews`, and five keys
  reach every window through the one that opens it.
* `BufCap = 1`, `BatchMax = 2`, `MaxLines = 2` in `streams`, and `Cap = 1`,
  `MaxLines = 2` in `relay`: a channel that is full, a batch with more than one
  line, a line behind another one. All channels of `relay` have one capacity.
* The buffer of three lines in `shell` with batches of two and five lines in all:
  a batch that pushes out the current match, all matches, or nothing. The two
  containers have a directory of the same name with other things in it, one of
  which is a file here and a directory there.
* `Ceilings = {1}` in `mcp` (one kind of write; tier 2 is treated like tier 1
  once admitted; `cli` has all three tiers).
* `cli`: two containers and two names, so that a container may be one of several
  targets and a name may pass from one to the other; `MaxRefs = 2` and a filter
  name one container up to three times; `MaxPolls = 2` and `MaxLines = 2` leave a
  change between two polls and a line after a failed one; three hosts and two
  workers fill the semaphore. `MCInvocations` has a command of each way through
  the code, `MCPolicies` a policy of each way to a decision. The engine stands
  still during a fan-out (which reads other hosts) and once the command has ended.
* `store`: processes are interchangeable (`SYMMETRY`; only invariants and action
  properties are checked there).
* `projects`: `MaxWorkers = 1` and up to two running containers fill the
  semaphore; `MaxMishaps = 1`, one change of another client or one lost reply, which
  happens between the steps of calls only; another client only removes a container or
  moves a tag; the host is fixed for engines other than docker, which do not look at
  it. The words of the commands are chosen so that each way of looking an object up and
  each of its answers occurs in the calls of the agent or of the interface; the run has
  1.3 million states.
* `HostCodes` has two codes, since what counts is which host's code is the first.
* Streams, connections, tunnels and sessions are never reused in a run: a run
  stops when they are used up. `CHECK_DEADLOCK FALSE` is set where the program may
  really come to rest or a bound of the run is used up: everywhere but in
  `session`, `streams` and `projects`.

### Fairness

* `PortFwd`: goroutines that can run do run (`WF` of each handler's steps, of
  the closing goroutine, and of the pipe once both of its connections are
  closed). Nothing makes a peer end a connection or a user act.
* `Session`: results are delivered and background closes run. A dial may take
  forever.
* `Streams`: a stopped producer quits (its context or reader is closed), the
  messages of a channel are handled. An open or a source may hang.
* `Mcp`: strong fairness of each call's steps, since the mutex may be taken by
  others in between and Go's mutex does not starve (it hands over after 1 ms);
  dials have a timeout and handlers a deadline.
* `Cli`: weak fairness of the command's own steps: a call of the engine returns
  or fails. Other clients owe nothing.
* `Lists`: the heartbeat ticks, fetches are answered and delivered (calls of the
  engine have deadlines). The user and the daemons owe nothing: `RowsCatchUp`
  asks for a time after which they are quiet.
* `Shell`: the pump and the readers run, messages are handled; an open process
  need not read or write anything. A closed connection ends both.
* `Relay`: goroutines run. Neither the host nor the user owes anything: a
  command may hang, the console need not be read; `StopEnds` leaves out only the
  calls that stop does not reach (`InHostsHands`).
* `Windows`, `Store`, `Objects`, `Projects`, `LogView`, `Files`: none, nothing
  there is about progress.

## 4. What is proved

TLAPS checks, for every value of the constants:

* `PortFwdProofs`: `TypeOK`, `ConnsRight`, `ListenersRight` and the refinement
  `ImplementsTunnels`.
* `ConnectionProofs`: of the session `TypeOK`, `OneOwner`, `HeartbeatRight`,
  `ReconnectRight`; of the commands on objects and projects `ProjectsRight` and
  `SweepsAsPlanned`, for any number of calls, workers, hosts, seconds and changes by
  other clients. What the engine keeps (its images, containers, networks, volumes,
  and the words of the commands) is the small world the definitions of `Objects` name.
* `ServicesProofs`: of the MCP session `TypeOK`, `OneConnection`, `TriedRight`,
  `WritesLeaveTrail`; of the host store `HostsRight` and `NothingLost`, for any
  number of processes, names and changes; of the relayed operations `OutputRight`,
  for any number of commands, lines and any capacity.
* `CliProofs`: `TypeOK`, `WritesAdmitted`, `LogIsTrue`, `TargetsRight`, and
  `CeilingPermits`: a ceiling that admits a write is one that the policy promises,
  for every policy. They hold for any number of containers, names, hosts and
  workers, any set of command lines and policies.
* `InterfaceProofs`: of the streams `TypeOK`, `RunningIsOwned`, `ShownInOrder`, for any
  number of streams, subjects and commands under way; of the lists `ListsRight` and
  `PointedStays`, for any number of objects, hosts, fetches and keys.
* `WindowsProofs`: `WindowsRight`, `BusyIsWaiting`, `WritesWereAdmitted`, and
  `WritersMutate`: in every view, every command whose windows may write is in
  `mutatingCmds`.
* `PanelsProofs`: `PanelRight`, `ViewersRight`, `MatchStays`, for any number of
  sessions, keys and lines, any queue and buffer, any containers and any files.
* `Facts`: what these share (the least number of a set, the ordered enumeration of a
  set of numbers, bags, induction over a set of numbers).

Assumptions are those named in the modules (`PortFwdAssumption`: ports are
positive, the set of clients is finite, the nil dialer is no dialer;
`SessionAssumption`, `McpAssumption`, `StreamsAssumption`: the sets and null
values are disjoint, bounds are numbers, a channel holds at least one line;
`CliAssumption`: the constants are of their types and the lists of references
are bounded, wait and exec taking one; `WindowsAssumption`, `CommandsAssumption`:
hosts are saved hosts and commands are those of the tables, a host's archives are
finitely many; `ShellAssumption`: the set of sessions is finite, the queue is not
empty by construction; `LogViewAssumption`: the buffer and a batch hold a line;
`ThingsAssumption`: there are finitely many objects, each of a view and a saved host;
`ProjectsAssumption`: no command is the mark for none, and a host has the fields that
are read of it; `FilesAssumption`: what is in a directory is in one that is there;
`StoreAssumption`: a theme's name is not the mark for none, a name can be taken from
somewhere; `RelayAssumption`: there are finitely many commands, numbered from one, and a
channel holds a line). TLC evaluates all of them.

The arguments:

* *Listeners.* `ListenersRight` is not inductive: that one step inserts a listener
  safely needs that nobody else holds it. `ListenerInv` says who holds which
  listener: an open one has exactly one holder (a call about to insert it, or a
  listed tunnel), a tunnel that is open listens on its own port, a removed or
  stopped one has none.
* *Connections.* `ConnInv` says whose client each connection is: a tunnel's
  clients are those whose handler is between registration and release, on the
  present listener. That gives the count and the currency of clients; the count
  needs finite sets, hence the lemmas on cardinalities.
* *Refinement.* Each action either leaves `TunnelStatus` and `localPort` alone
  or is one of `Open`, `Halt`, `Reopen`, `Drop`; `FreeFor` follows from
  `ListenerInv`, since the port of an open tunnel is that of an open listener.
* *Session.* `OneOwner` and the type invariant are inductive together. The flag
  and the generations need `HeartInv`: pings and probes carry generations not
  above `pingSeq`, and those of the present one belong to the present backend.
  Commands in flight are a bag; `Facts!Exchanged` and its like say what taking one message out and
  putting others in does to the multiplicity of every message.
* *Calls.* `ProjectsInv` has a part for each thing that outlives a step. `CallFits`
  says of a call at each place what it has found, done and tried by then, which words
  bring it there (`PlaceFits`), and how a call ends (`DoneFits`); a `run` that answers
  ok, for instance, has to have `create` behind it at `start`. Every action is shown to be
  one of a few kinds of step: one that leaves samples and archives alone
  (`QuietStep`), one of a batch of statistics (`SampleStep`), one of a backup
  (`SaveStep`), a submission (`SubmitTo`). `CacheFits` and `ArchiveFits` are then about
  those kinds only. They are needed since the samples and the archives stay when the call
  that made them has ended: whose they are is the invariant. A backup that is not at its
  file has either left one behind and knows it, or there is none (`SavedBy`); this reaches
  from the plain attempt to the one under sudo, which writes to the same name.
* *Sweeps.* A step of a prune removes images by their places in the list; the
  plan names them as `nerdctl` or the demo lists them, by rows that are not those of
  the engine. `DanglingListed` says that the engine's dangling images are in every such
  list, `RowsAtPlaces` that what remains of a list keeps every row at the other places.
  A plan fits (`PlanFits`) if it names all that is dangling and stopped at present;
  `PlansFit`: the plan made now does; `TakenFits`: one that fits names what a step takes,
  and still fits afterwards. `PlansHold`, every plan in `approved` fits, is then inductive.
* *MCP.* One invariant `IInv`: who holds the mutex, which connection is live, and
  for each position in a call what has run and what was recorded.
* *Command line.* `IInv` is `TypeOK`, `OneOutcomeEach` and what each place in the
  command has behind it: `PathInv` (which gates it has passed, hence that the log
  is open), `SentInv` (nothing was sent before the handler, or in a plan),
  `TargetInv` (there are targets only from their resolution on, and those still
  to do are containers) and `ResultInv` (how the code to be returned relates to the
  outcomes of the targets and to what was confirmed). `LogIsTrue` is not inductive
  without `ResultInv`: the audit line is written from the code long after the
  outcomes.
* *Streams.* `Ties` says what each message and viewer is about: a message of a
  channel is of that stream's subject (`MsgInv`), a viewer's channel is a stream of
  what it shows (`ViewInv`), a stream that was never made has given nothing
  (`FreshInv`). Without them a handler that compares titles could take another
  stream's lines. The order of the feed rests on the turn: the live channel has one
  reader or one message of it under way, never two, so that the next line to be
  shown is the next to be taken.
* *Lists.* An answer may land in any view, so that `AnswersInv` says of each, while it is
  on its way and once it is kept, that it is sorted, has each object once, and is of the
  view it is kept for; `TableInv` says that the table has the columns of the view shown
  and that all rows have as many, whichever view they are of. That a cursor still names no
  object of another view is then a comparison of column counts and identity cells
  (`PointedAt`). `KeepsPlace` holds since there is one way to sort objects whose names
  differ (`SameObjects`, by `Facts!OrderUniqueOn`).
* *Windows.* `WindowInv` and `CallInv` carry the admitting host along every message,
  question, window and call; that it is writable at the start of each chain is
  `WritersMutate`, a comparison of the two tables. `BusyInv` ties each spinner to a
  call; a handler that takes the call away takes the spinner away as well.
* *Shell.* For each process what it has received comes before what the pump is
  writing, and that before what is queued, all of it typed by now, and no key is
  held for two sessions (`KeyInv`); the keys of a session rise as a whole by a lemma
  on concatenation. `PanelInv`: a panel without strange output has one reader, and
  there is no reader of a session before it is open.

* *Catalog.* `FitInv` has a part for each part of the windows' state. A catalog on its way
  holds the archives of its own deployment (`PostInv`), so that whichever replaces
  `items`, under any window, replaces the deployment and disarms with it
  (`ShelfInv`); calls are few enough that the next finds a number of its own
  (`CallsInv`).
* *Log viewer.* The matches after a batch are computed from those before it,
  shifted and cut, and from a scan of the new lines; that this is a scan of the whole
  buffer (`ViewersRight`) holds because both are the ascending enumeration of one set
  of line numbers, and there is one such (`OrderUnique`). `MatchStays` follows: the
  current match is found in the shifted sequence by its line.
* *Browser.* An answer carries the container and path it was asked for; title, entries and
  cursor are replaced together. What remains is that each answer under way was a
  directory's content at the time it was served.
* *Store.* `HostsRight` is not inductive: that a file which parses holds good hosts needs
  that every copy in memory is good (`ListsGood`), a name once in every copy, and that each
  write under way was made from such a copy (`WritersInv`). `NothingLost` needs
  `AloneInv` as well: what a process that writes alone last read or wrote is on the disk.
* *Relay.* That nothing is sent to a closed channel is a count: a stream is closed after
  its waiter, the waiter ends after both scanners. That an operation which nobody
  stopped shows all of its output is a sum: for each stream, what is in its pipes,
  its scanners' hands and its channel (`StreamInv`), and over all streams what came into
  being is what is in flight and what was shown (`Accounted`). The sum over
  streams is a sequence of partial sums (`SumsTo`), so that a step of one stream changes
  it by what it changes there. `PlaceInv` relates the operation's own goroutine to the
  streams it has started.

Only model-checked: the liveness properties (`CutOffClosed`, `OpenIsUsedOrClosed`,
`EveryCallAnswered`, `StreamsLive`, `CommandEnds`, `RowsCatchUp`, `ClosedEnds`,
`StopEnds`). Liveness under fairness and `ENABLED` are out of the prover's reach. So
are the library's induction theorems, which take an operator; where a proof needs
induction, the set of numbers for which the claim holds is named and
`Facts!SetInduction` applied to it. That reaches sums and ordered enumerations, not what
a fold computes: where a proof has to know what is left of a list, the definition
enumerates the places that stay (`Objects!RowsAt`). The statements
of section 5 do not hold, and have no theorem.

## 5. Findings

1. `FailureTold` (run `projects_told`): nerdctl's compose tasks report a failure as
   `"  error: " + err` (`nerdctl_compose.go:266`, `:286`), and `collectProgress`
   (`ops_deploy.go:103`) looks for the prefix without the blanks. An agent's
   compose up, pull or down whose tasks all failed is answered `ok`.

Further disagreements between code and comments. Those with a configuration are
reproduced by `tlc -config <name>.cfg <module>`; the others are violations of the
named statement of a module by a run of it.

| Statement | Configuration | What happens |
|---|---|---|
| `NoDuplicate` | `PortFwdDuplicate` | `Start` checks for a duplicate (`portfwd.go:125`) and inserts (`:149`) in two critical sections, and `Resume` checks for none: two open tunnels forward the same container and port. |
| `TunnelsKeepHost` | `SessionTunnelsKeepHost` | `reconnectResultMsg` (`update.go:719`) is accepted whenever the session is reconnecting. A retry of host *a*, abandoned when the user went to *b*, answers while *b* is being reconnected: the session goes back to *a* with the tunnels of *b*. |
| `OwnSettings` | `SessionOwnSettings` | `reconnectCmd` (`model.go:1242`) copies the configuration after its delay, on its goroutine; a dialog opened meanwhile has written another host's TLS and SSH settings into it. |
| `ReadOnlyFollowsBackend` | `SessionReadOnlyFollowsBackend` | `handleConnectAuth` (`update_forms.go:81`) sets `cfg.Host` before the connection is made; until then, and after a failure, actions on the old backend are judged by the new host's read-only mark. |
| `DoneIsDone` | `StreamsDone` | A console's messages are matched by title (`update.go:414`): the end of an earlier run of the same operation marks the running one done. |
| `FeedNotSilent` | `StreamsSilent` | A reconnect (`update.go:734`) stops the events stream and leaves its view open without a word. |
| `EveryWriteLogged` | `CliAudit` | A write command given several hosts is refused before the audit log is opened (`main_cli.go:60`) and leaves no line. |
| `StopAborts` | `RelayTasks` | A stop that falls between the start of a sub-command and the publication of its stop function (`nerdctl_compose.go:272`) leaves it running for as long as it is silent; the restore looks again after publishing (`compose.go:645`), the tasks do not. |
| `StopEndsLogs` | `RelayLogs` | The goroutine that strips the headers of a container's log stays blocked in its pipe after stop. |
| `AlwaysKeepsPlace` | none (`Lists`) | `sortByName` keeps rows steady only where names differ: two images of one name swap with the daemon's order, under the cursor. |
| `ReadOnlyHolds` | none (`Windows`) | A form opened on a writable host is submitted after a switch to a read-only one. |
| `EditGoesHome` | none (`Windows`) | The editor's text is saved through the backend of the moment (`model.go:1166`): after a switch, into the other host's file. |
| `PumpStopsFirst` | none (`Shell`) | Closing the input queue does not wait for a write under way. |
| `NoStraySession` | none (`Shell`) | An exec that answers while a panel is open takes its place; the first session stays open. |
| `ThemeKept` | none (`Store`) | Two processes rewrite the whole file: a host edit writes back the theme of its own copy. |

The demo's `PruneVolumes` (`fake.go:750`, `DemoPruneVolumes`) removes all volumes, those
that containers mount too, where the operation says "Remove volumes no container uses"
(`ops_maintain.go:276`). It has no statement of its own: the definition says it.

Seen while modelling, without a line that promises otherwise: `crictl rmi --prune`
removes tagged images that no container uses, more than the operation's plan names
(`SweepsAsPlanned` leaves this engine out); the interface leaves the lines of failed
compose tasks on its console without a verdict, beside "done"; two `stats` at once purge each other's
CPU baseline; two `volume create` of one name both answer ok; `rmi` and `tag` answer with the
identity looked up, which is not always the one acted on; `run` that fails at its
start leaves a created container; two backups in one second share a file; compose
commands by project name also select the containers of another directory of that
name; a listing of the host that was left may still open the browser, whose next
request then fails.

## 6. Not modelled

* Formatting, translations, themes as colours, rendering, text editing in forms,
  result shaping and redaction: pure functions of one caller, without shared state.
* The parsing of engine answers, of tables and of configuration files: the models
  have what was parsed. The parsing of the command line: a line that does not parse
  ends there.
* The data of reads (`ps`, `inspect`, dashboards), port targets, alert levels, the
  key map, plugins: pure choices from one input.
* SSH host keys and agents, the tunnel below the engine's API: outside code between
  two calls of which only success or failure is visible.
* The upload wizard and the extraction of archives; the viewport of the log viewer;
  the port-forward form; the hosts form's fields beyond those `Store` has.
* Distribution and live-test tools: not part of the program.

Simplifications inside the modules, besides those in section 2: in `Store` the
theme stands for every section that is not the hosts, a key path is part of the
credentials; in `Windows` `theme <name>` and plugin commands are left out; in
`Relay` the line that reports a scan error is part of the end of a stream; in
`Objects` CPU counters are "has a sample", what a container mounts and joins is fixed,
calls are numbered in the order they are made, the two lists behind the plan of a
`system prune` are taken at one moment, and of the commands that are confirmed only the
sweeps stand at "asked" (the gate itself is in `Cli`); in `Projects` methods of the demo
engine are one step each, a pull brings at most one newer image, and the demo's second
deployment of one name is the first.

Hazards seen that no property here covers:

* `portfwd.go:241`: a connection dialed for a tunnel that was stopped meanwhile is
  registered after `closeLocked` has collected the connections. Its client is closed,
  so that the pipe half-closes it, but it stays open until its server ends it.
* `ui/portforward.go:112`: a Start that binds after a switch of hosts has closed all
  tunnels leaves a tunnel to a container of the host that was left.
* `update.go:690`: an error of a call made on the old backend, after a switch, starts a
  reconnect of the healthy one. Nothing is lost by it but the connection.
* `model.go:1259`: the backoff shifts a duration by the attempt number; two guards
  (attempts above 30, results above 30 s) keep it from overflowing. A pure function.
* `registry.go:281`: between the plan a user approves and the rerun with `--yes` a filter
  may come to select other containers; the rerun resolves anew.
