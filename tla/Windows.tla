------------------------------ MODULE Windows ------------------------------
(***************************************************************************)
(* The windows of the terminal interface (internal/ui): forms, editor,     *)
(* confirmations, pickers and the backup catalog.                          *)
(*                                                                         *)
(* A command posts a message that opens a window, and a window starts      *)
(* calls whose results come back as messages.  Messages and results arrive *)
(* in any order, whatever is on the screen by then, and tell nothing of    *)
(* the host or window they come from.  A command line is typed and entered *)
(* in one step, and of what is typed into a form only that it is complete  *)
(* matters.  "from" is the host whose read-only rule admitted a command;   *)
(* the program does not keep it.                                           *)
(***************************************************************************)
EXTENDS Integers, FiniteSets, Sequences, SequencesExt

CONSTANTS Hosts, Start,     \* the saved hosts, and that of the first connection
          ReadOnlyHosts,    \* those marked read_only
          SshHosts,         \* those reached over SSH: SupportsHostCompose
          Commands,         \* bound: the commands the user gives, [view, name]
          Archives,         \* backup files: [project, age]
          Themes,           \* the built-in themes are 1..Themes, as languages
          None,
          MaxPosts, MaxCalls, MaxKeys, MaxChanges   \* bounds

ASSUME WindowsAssumption ==
  /\ Start \in Hosts /\ ReadOnlyHosts \subseteq Hosts /\ SshHosts \subseteq Hosts
  /\ None \notin Hosts \union Archives
  /\ Themes \in Nat \ {0} /\ MaxCalls \in Nat
  /\ IsFiniteSet(Archives)

BusyForms    == {"pull", "run", "cp"}
CreateForms  == {"net", "vol"}
ConsoleForms == {"build", "push"}
Forms   == BusyForms \union CreateForms \union ConsoleForms \union {"exec"}
Pickers == {"theme", "lang"}
Modes   == Forms \union Pickers \union
           {"normal", "edit", "create", "confirm", "backups", "logs", "shell"}

VARIABLES
  backend,     \* Model.backend, as its host; Model.cfg.Host is the same
  mode,        \* Model.mode
  from, of,    \* of the window shown: the host that admitted it, and the one
               \* whose file it holds
  busy,        \* the forms whose busy flag is up
  confirm,     \* confirmPrompt and confirmAction: [does, host, from], or None
  posts,       \* messages on their way that open a window: [opens, from, ...]
  calls,       \* calls under way: [does, host, from, of, n], each its own n
  disk,        \* the backup files in the working directory
  items, project, cursor, armed,  \* backupItems, backupProject, backupCursor,
                                  \* backupConfirmDelete
  applied, original, row,  \* of each picker: what is applied, what was when it
                           \* opened, and the row of its cursor
  keys, changes

\* What handleConfirm may have to run.
Questions == [does : {"act"}, host : Hosts, from : Hosts, of : {None}]

ASSUME NoneAssumption == None \notin Questions

catalogVars == <<disk, items, project, cursor, armed>>
pickerVars  == <<applied, original, row>>
windowVars  == <<from, of, busy, confirm>>
vars == <<backend, mode, windowVars, posts, calls, catalogVars, pickerVars,
          keys, changes>>
-----------------------------------------------------------------------------
(* The command tables. *)

\* The commands of each view, by what they do: "act" on objects at once, stream
\* into the console, "show" what they read, or open a window.
ContainerCommands ==
  [act |-> {"start", "stop", "restart", "kill", "rm", "cp_dest"},
   show |-> {"logs", "files"}, session |-> {"exec"}, cp |-> {"cp"}, run |-> {"run"}]
ImageCommands ==
  [act |-> {"tag", "prune", "rm"}, show |-> {"history"},
   pull |-> {"pull"}, pulling |-> {"pull_ref"}, push |-> {"push"}, run |-> {"run"},
   exec |-> {"exec"}, build |-> {"build"}, stream |-> {"build_dir"}]
ObjectCommands ==
  [networks |-> [act |-> {"rm"}, net |-> {"create"}],
   volumes  |-> [act |-> {"rm", "prune"}, vol |-> {"create"}]]
ComposeCommands ==
  [act |-> {"start", "stop", "restart", "pause", "unpause", "remove", "rm"},
   stream |-> {"up", "down", "pull", "restore_file"}, show |-> {"config", "backup"},
   backups |-> {"backups", "restore"}, edit |-> {"edit"}, create |-> {"create"}]
GlobalCommands ==
  [show |-> {"events", "system_df"}, theme |-> {"theme"}, lang |-> {"lang"},
   confirm |-> {"system_prune"}]

CommandTable ==
  [containers |-> ContainerCommands, images |-> ImageCommands,
   networks |-> ObjectCommands.networks, volumes |-> ObjectCommands.volumes,
   compose |-> ComposeCommands]

\* A command that its view does not know is a global one.
TableOf(c) == IF c.name \in UNION Range(CommandTable[c.view]) THEN CommandTable[c.view]
              ELSE GlobalCommands
Effect(c) == CHOOSE e \in DOMAIN TableOf(c) : c.name \in TableOf(c)[e]

AllCommands ==
  (UNION {[view : {v}, name : UNION Range(CommandTable[v])] : v \in DOMAIN CommandTable})
  \union [view : {"containers"}, name : UNION Range(GlobalCommands)]

ASSUME CommandsAssumption == Commands \subseteq AllCommands

\* mutatingCmds: the commands read-only mode refuses.  A command with an
\* argument is looked up by its name.
Mutating ==
  [containers |-> {"cp", "cp_dest", "exec", "kill", "restart", "rm", "run",
                   "start", "stop"},
   images     |-> {"build", "build_dir", "exec", "tag", "push", "pull", "pull_ref",
                   "prune", "rm", "run"},
   networks   |-> {"create", "rm"},
   volumes    |-> {"create", "prune", "rm"},
   compose    |-> {"create", "up", "down", "pull", "edit", "restore",
                   "restore_file", "start", "stop", "restart", "pause", "unpause",
                   "remove", "rm"}]

\* Mutant: system prune is taken for a query.
IsMutatingLocal(c) == c.name \in Mutating[c.view]

\* IsMutating.
IsMutating(c) == c.name = "system_prune" \/ c.name \in Mutating[c.view]

\* composeHostOnly: what needs a shell on the host.
HostOnly(c) ==
  /\ c.view = "compose"
  /\ c.name \in {"create", "up", "down", "pull", "config", "edit", "backup",
                 "restore", "restore_file"}

ReadOnly(h) == h \in ReadOnlyHosts

\* guardCommand and the check of dispatchComposeCommand.
Admitted(c) == /\ ~(ReadOnly(backend) /\ IsMutating(c))
               /\ HostOnly(c) => backend \in SshHosts
-----------------------------------------------------------------------------
(* What is started. *)

\* A call under way, with a number no other has.
Numbered(c) ==
  [does |-> c.does, host |-> c.host, from |-> c.from, of |-> c.of,
   n |-> CHOOSE n \in 1..(MaxCalls + 1) : \A d \in calls : d.n # n]
Called(c) == /\ calls' = calls \union {Numbered(c)}
             /\ Cardinality(calls') <= MaxCalls
Doing(d, h, f, o) == [does |-> d, host |-> h, from |-> f, of |-> o]
Started(d, f, o) == Called(Doing(d, backend, f, o))

\* The catalogs a scan of the working directory may find: newest first, in any
\* order where two are of the same time (sort.Slice).
Catalogs(p) == {s \in SetToSeqs({a \in disk : a.project = p}) :
                  \A i, j \in DOMAIN s : i < j => s[i].age <= s[j].age}

Post(p) == /\ posts' = posts \union {p} /\ Cardinality(posts') <= MaxPosts

Key == keys < MaxKeys /\ keys' = keys + 1

\* The message by which the effect of a command opens its window.
Opener(e) == [opens |-> e, from |-> backend, project |-> None, items |-> <<>>,
              host |-> backend, read |-> e # "backups"]

Init ==
  /\ backend = Start /\ mode = "normal"
  /\ from = None /\ of = None /\ busy = {} /\ confirm = None
  /\ posts = {} /\ calls = {}
  /\ disk = Archives
  /\ items = <<>> /\ project = None /\ cursor = 1 /\ armed = None
  /\ applied = [p \in Pickers |-> 1] /\ original = applied /\ row = applied
  /\ keys = 0 /\ changes = 0

\* dispatchCommand.
Command(c) ==
  /\ Key /\ mode = "normal" /\ Admitted(c)
  /\ CASE Effect(c) \in {"act", "stream", "session"} ->
            Started(Effect(c), backend, None) /\ UNCHANGED posts
       [] Effect(c) = "show" ->
            Post(Opener("logs")) /\ UNCHANGED calls
       [] Effect(c) = "backups" ->
            /\ \E p \in {a.project : a \in Archives} :
                 Post([Opener("backups") EXCEPT !.project = p])
            /\ UNCHANGED calls
       [] OTHER -> Post(Opener(Effect(c))) /\ UNCHANGED calls
  /\ UNCHANGED <<backend, mode, windowVars, catalogVars, pickerVars, changes>>

\* r on marked images: mutatingKeyOp, handleImageSelectionKey.
RemoveImagesKey ==
  /\ Key /\ mode = "normal" /\ ~ReadOnly(backend)
  /\ Post(Opener("confirm"))
  /\ UNCHANGED <<backend, mode, windowVars, calls, catalogVars, pickerVars, changes>>
-----------------------------------------------------------------------------
(* Windows open, whatever is on the screen. *)

Shows(p, m) == mode' = m /\ from' = p.from /\ of' = p.host /\ posts' = posts \ {p}

\* openPullFormMsg, openRunFormMsg, openCpFormMsg, openNetFormMsg, ...: an
\* emptied form.
OpenForm(p) ==
  /\ p.opens \in Forms
  /\ Shows(p, p.opens) /\ busy' = busy \ {p.opens}
  /\ UNCHANGED <<backend, confirm, calls, catalogVars, pickerVars, keys, changes>>

\* openPullFormMsg with a reference: the pull begins at once.
OpenPulling(p) ==
  /\ p.opens = "pulling"
  /\ Shows(p, "pull") /\ busy' = busy \union {"pull"}
  /\ Started("pull", p.from, None)
  /\ UNCHANGED <<backend, confirm, catalogVars, pickerVars, keys, changes>>

\* openComposeEditMsg, openComposeCreateMsg, showDetailMsg, logsOpenedMsg, ...
OpenView(p) ==
  /\ p.opens \in {"edit", "create", "logs"}
  /\ Shows(p, p.opens)
  /\ UNCHANGED <<backend, busy, confirm, calls, catalogVars, pickerVars, keys,
                 changes>>

\* openConfirmMsg.  The action keeps the backend of its command.
OpenConfirm(p) ==
  /\ p.opens = "confirm"
  /\ Shows(p, "confirm")
  /\ confirm' = Doing("act", p.host, p.from, None)
  /\ UNCHANGED <<backend, busy, calls, catalogVars, pickerVars, keys, changes>>

\* Mutant: a reloaded catalog keeps the armed deletion.
DisarmedKept == armed
\* A new list, or a moved cursor, disarms the deletion.
Disarmed == None

\* listBackupsCmd.
ReadCatalog(p) ==
  /\ ~p.read
  /\ \E found \in Catalogs(p.project) :
       posts' = (posts \ {p}) \union {[p EXCEPT !.read = TRUE, !.items = found]}
  /\ UNCHANGED <<backend, mode, windowVars, calls, catalogVars, pickerVars, keys,
                 changes>>

\* backupsListedMsg.
OpenBackups(p) ==
  /\ p.opens = "backups" /\ p.read
  /\ IF p.items = <<>>
     THEN Shows(p, "normal") /\ UNCHANGED <<items, project, cursor, armed>>
     ELSE /\ Shows(p, "backups")
          /\ items' = p.items /\ project' = p.project
          /\ cursor' = IF cursor > Len(p.items) THEN 1 ELSE cursor
          /\ armed' = Disarmed
  /\ UNCHANGED <<backend, busy, confirm, calls, disk, pickerVars, keys, changes>>

\* openThemePicker, openLangPicker.
OpenPicker(p) ==
  /\ p.opens \in Pickers
  /\ Shows(p, p.opens)
  /\ original' = [original EXCEPT ![p.opens] = applied[p.opens]]
  /\ row' = [row EXCEPT ![p.opens] = applied[p.opens]]
  /\ UNCHANGED <<backend, busy, confirm, calls, catalogVars, applied, keys, changes>>
-----------------------------------------------------------------------------
(* Keys in a window. *)

\* Enter in the pull, run and upload forms: nothing while the form is busy.
Submit ==
  /\ Key /\ mode \in BusyForms \ busy
  /\ busy' = busy \union {mode}
  /\ Started(mode, from, None)
  /\ UNCHANGED <<backend, mode, from, of, confirm, posts, catalogVars, pickerVars,
                 changes>>

\* Enter in the forms of a network and a volume, which wait for the result, and
\* in those of a build and a push, which go on in the console.
SubmitCreate ==
  /\ Key /\ mode \in CreateForms
  /\ Started(mode, from, None)
  /\ UNCHANGED <<backend, mode, windowVars, posts, catalogVars, pickerVars, changes>>
SubmitConsole ==
  /\ Key /\ mode \in ConsoleForms /\ mode' = "normal"
  /\ Started("stream", from, None)
  /\ UNCHANGED <<backend, windowVars, posts, catalogVars, pickerVars, changes>>
\* Enter in the form of a one-off container, and Ctrl+S on a new compose file.
SubmitExec ==
  /\ Key /\ mode = "exec"
  /\ Started("session", from, None)
  /\ UNCHANGED <<backend, mode, windowVars, posts, catalogVars, pickerVars, changes>>
CreateFile ==
  /\ Key /\ mode = "create"
  /\ Started("stream", from, None)
  /\ UNCHANGED <<backend, mode, windowVars, posts, catalogVars, pickerVars, changes>>

\* Ctrl+S in the editor: composeSaveCmd, on the backend of this moment.
SaveFile ==
  /\ Key /\ mode = "edit"
  /\ Started("save", from, of)
  /\ UNCHANGED <<backend, mode, windowVars, posts, catalogVars, pickerVars, changes>>

\* handleConfirm.
Confirm ==
  /\ Key /\ mode = "confirm" /\ mode' = "normal" /\ confirm' = None
  /\ Called(confirm)
  /\ UNCHANGED <<backend, from, of, busy, posts, catalogVars, pickerVars, changes>>

\* Esc, and the keys that close: a confirmation is dropped and a preview rolled
\* back; a call under way goes on.
Esc ==
  /\ Key /\ mode \notin {"normal", "shell"}
  /\ mode' = "normal"
  /\ confirm' = IF mode = "confirm" THEN None ELSE confirm
  /\ applied' = IF mode \in Pickers THEN [applied EXCEPT ![mode] = original[mode]]
                ELSE applied
  /\ UNCHANGED <<backend, from, of, busy, posts, calls, catalogVars, original, row,
                 changes>>

\* closeShell.
CloseShell ==
  /\ Key /\ mode = "shell" /\ mode' = "normal"
  /\ UNCHANGED <<backend, windowVars, posts, calls, catalogVars, pickerVars, changes>>

\* applyThemeAt, applyLangAt.
Preview(p, r) == [applied EXCEPT ![p] = r]

\* Mutant: the cursor leaves the list.
BesideAny(r) == {r - 1, r + 1}
\* The rows next to row r.
Beside(r) == {r - 1, r + 1} \intersect 1..Themes

MovePicker ==
  /\ Key /\ mode \in Pickers
  /\ \E r \in Beside(row[mode]) :
       row' = [row EXCEPT ![mode] = r] /\ applied' = Preview(mode, r)
  /\ UNCHANGED <<backend, mode, windowVars, posts, calls, catalogVars, original,
                 changes>>

\* Enter in the theme and language pickers.
Choose ==
  /\ Key /\ mode \in Pickers /\ mode' = "normal"
  /\ UNCHANGED <<backend, windowVars, posts, calls, catalogVars, pickerVars, changes>>
-----------------------------------------------------------------------------
(* The backup catalog. *)

MoveBackup ==
  /\ Key /\ mode = "backups"
  /\ \E d \in {-1, 0, 1} : cursor + d \in DOMAIN items /\ cursor' = cursor + d
  /\ armed' = Disarmed
  /\ UNCHANGED <<backend, mode, windowVars, posts, calls, disk, items, project,
                 pickerVars, changes>>

\* Enter: over SSH and on a host that may be changed only.
Restore ==
  /\ Key /\ mode = "backups"
  /\ armed' = None
  /\ IF backend \in SshHosts /\ ~ReadOnly(backend)
     THEN mode' = "normal" /\ Started("stream", backend, None)
     ELSE UNCHANGED <<mode, calls>>
  /\ UNCHANGED <<backend, windowVars, posts, disk, items, project, cursor,
                 pickerVars, changes>>

\* d: the first press arms, the second deletes, if the file is still there, and
\* reads the catalog again.
ArmBackup ==
  /\ Key /\ mode = "backups" /\ armed # items[cursor]
  /\ armed' = items[cursor]
  /\ UNCHANGED <<backend, mode, windowVars, posts, calls, disk, items, project,
                 cursor, pickerVars, changes>>
DeleteBackup ==
  /\ Key /\ mode = "backups" /\ armed = items[cursor]
  /\ armed' = None
  /\ IF armed \in disk
     THEN /\ disk' = disk \ {armed} /\ UNCHANGED mode
          /\ Post([Opener("backups") EXCEPT !.project = project])
     ELSE mode' = "normal" /\ UNCHANGED <<disk, posts>>
  /\ UNCHANGED <<backend, windowVars, calls, items, project, cursor, pickerVars,
                 changes>>

\* Another process removes an archive.
LoseArchive ==
  /\ changes < MaxChanges /\ changes' = changes + 1
  /\ \E a \in disk : disk' = disk \ {a}
  /\ UNCHANGED <<backend, mode, windowVars, posts, calls, items, project, cursor,
                 armed, pickerVars, keys>>
-----------------------------------------------------------------------------
(* Results. *)

\* Mutant: an error leaves the form waiting.
FreedNot(m) == busy
\* SetError of the form on the screen.
Freed(m) == busy \ {m}

Ends(c) == calls' = calls \ {c}
ResultFrame == UNCHANGED <<backend, from, of, confirm, posts, catalogVars, applied,
                           original, row, keys, changes>>

\* actionResultMsg: a success, or a target that is gone, closes what is on the
\* screen; an error is shown in the form on the screen, whose call it may not be.
ActionSucceeds(c) ==
  /\ c.does \notin {"stream", "session"}
  /\ Ends(c) /\ mode' = "normal" /\ UNCHANGED busy /\ ResultFrame
ActionFails(c) ==
  /\ c.does \notin {"stream", "session", "save"}
  /\ Ends(c) /\ busy' = Freed(mode) /\ UNCHANGED mode /\ ResultFrame

\* opStartedMsg, execMsg: the console, the shell.
StreamStarts(c) ==
  /\ c.does \in {"stream", "session"}
  /\ mode' = (IF c.does = "stream" THEN "logs" ELSE "shell")
  /\ Ends(c) /\ UNCHANGED busy /\ ResultFrame
\* errMsg, and a composeSavedMsg with an error: the window stays.
CallFails(c) ==
  /\ c.does \in {"stream", "session", "save"}
  /\ Ends(c) /\ UNCHANGED <<busy, mode>> /\ ResultFrame

\* connectResultMsg: another host is in use, and no window is left open.
Connected ==
  /\ changes < MaxChanges /\ changes' = changes + 1
  /\ \E h \in Hosts \ {backend} : backend' = h
  /\ mode' = "normal"
  /\ UNCHANGED <<windowVars, posts, calls, catalogVars, pickerVars, keys>>
-----------------------------------------------------------------------------
User == \/ \E c \in Commands : Command(c)
        \/ RemoveImagesKey \/ Submit \/ SubmitCreate \/ SubmitConsole
        \/ SubmitExec \/ CreateFile \/ SaveFile \/ Confirm \/ Esc
        \/ CloseShell \/ MovePicker \/ Choose
        \/ MoveBackup \/ Restore \/ ArmBackup \/ DeleteBackup

Next ==
  \/ User \/ Connected \/ LoseArchive
  \/ \E p \in posts : \/ OpenForm(p) \/ OpenPulling(p) \/ OpenView(p)
                      \/ OpenConfirm(p) \/ ReadCatalog(p) \/ OpenBackups(p)
                      \/ OpenPicker(p)
  \/ \E c \in calls : \/ ActionSucceeds(c) \/ ActionFails(c)
                      \/ StreamStarts(c) \/ CallFails(c)

Spec == Init /\ [][Next]_vars
-----------------------------------------------------------------------------
Writes == {"act", "stream", "session", "save"} \union BusyForms \union CreateForms

TypeOK ==
  /\ backend \in Hosts /\ mode \in Modes
  /\ {from, of} \subseteq Hosts \union {None}
  /\ busy \subseteq BusyForms
  /\ calls \subseteq [does : Writes, host : Hosts, from : Hosts,
                       of : Hosts \union {None}, n : 1..(MaxCalls + 1)]
  /\ disk \subseteq Archives /\ items \in Seq(Archives)
  /\ cursor \in Nat \ {0}
  /\ \A p \in Pickers : {applied[p], original[p], row[p]} \subseteq 1..Themes

\* No form waits for ever: one that shows its spinner, swallowing every key but
\* Esc, has a call under way whose result takes the spinner away.
BusyIsWaiting ==
  mode \in busy => \E c \in calls : c.does = mode

\* Whatever writes on a host descends from a command the read-only rule admitted
\* on the host in use when it was given, through however many windows.
WritesWereAdmitted ==
  \A c \in calls \union ({confirm} \ {None}) :
    c.does \in Writes => ~ReadOnly(c.from)

\* The catalog is never read past its end, a deletion is armed for the archive
\* under the cursor only, and a picker previews the row it highlights.
WindowsFit ==
  /\ mode = "backups" => /\ cursor \in DOMAIN items
                         /\ armed \in {None, items[cursor]}
                         /\ \A i \in DOMAIN items : items[i].project = project
  /\ mode = "confirm" => confirm # None
  /\ mode \in Pickers => applied[mode] = row[mode]

\* The windows' state, in one: its types, and windows that fit what they show.
WindowsRight == TypeOK /\ WindowsFit

\* "Read-only mode forbids every action that changes state on the Docker host
\* ... while connected to a saved host marked read_only" (readonly.go).
ReadOnlyHolds == \A c \in calls : c.does \in Writes => ~ReadOnly(c.host)

\* "composeSaveCmd writes edited content back to the project's compose file"
\* (model.go): to the file it was read from.
EditGoesHome == \A c \in calls : c.does = "save" => c.host = c.of
=============================================================================
