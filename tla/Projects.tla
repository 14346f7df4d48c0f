------------------------------ MODULE Projects ------------------------------
(***************************************************************************)
(* The compose commands, beside those on objects: deployments are grouped  *)
(* from the labels of containers (src/internal/docker/compose.go,          *)
(* nerdctl_compose.go, fake.go), named in commands of the agent            *)
(* (src/internal/agent/ops_compose.go, ops_deploy.go), and acted on one    *)
(* container after the other through the engine, or by one command run     *)
(* over SSH.  The streams of such commands are modelled in Relay.          *)
(***************************************************************************)
EXTENDS Objects

CONSTANTS
  HostKinds,   \* hosts to look at: [shell, sudo, dir], whether there is SSH to it,
               \* whether the engine's command line needs sudo there, and the
               \* directory on the labels of the project's second container
  Stamps       \* seconds a backup may be taken in: they name its file

\* A path is told from a project name by its separator.
Dirs == {"/srv", "/opt"}
Project == "shop"
DisplayName(dir) == IF dir = "/srv" THEN "srv" ELSE "opt"

VARIABLES
  host,     \* the host behind the connection
  composes, \* composes[i]: the status the demo engine shows for a deployment
  sudo,     \* the cached verdict of sshNeedsSudo
  archive,  \* archive[s]: the local backup file of that second
  file,     \* the compose file on the host
  approved  \* history: approved[c] holds the plan an agent's sweep c was
            \* approved by, while no one else has changed what it is about

hostVars == <<host, composes, sudo, archive, file>>
projectsVars == <<objectVars, hostVars, approved>>

Identities == Dirs \cup {Project}
Lifecycle == {"start", "stop", "restart", "pause", "unpause", "rmproject"}
Engined == {"up", "down", "pullproject"}
HostOps == Engined \cup {"config", "backup", "read", "write", "newproject"}
AgentProjectOps ==
       {Op("restart", r, None, FALSE) : r \in {"shop", "srv"}}
  \cup {Op("backup", "srv", None, FALSE)}
  \cup {Op(n, "shop", None, FALSE) : n \in Engined \cup {"config"}}
InterfaceProjectOps ==
       {Op(n, "shop", None, FALSE) : n \in (Lifecycle \ {"restart"}) \cup {"down"}}
  \cup {Op(n, "/srv", None, FALSE) : n \in {"rmproject", "up", "backup", "read", "write", "newproject"}}
Ops == AgentOps \cup InterfaceOps \cup AgentProjectOps \cup InterfaceProjectOps

ASSUME ProjectsAssumption ==
  /\ None \notin Ops /\ Stamps \subseteq Nat
  /\ HostKinds \subseteq [shell : BOOLEAN, sudo : BOOLEAN, dir : Dirs \cup {None}]
-----------------------------------------------------------------------------
Members == {n \in Ctrs : ctrs[n].project # None}
Identity(n) == IF ctrs[n].dir # None THEN ctrs[n].dir ELSE ctrs[n].project
\* groupComposeProjects: the deployments there are.
GroupComposeProjects == {Identity(n) : n \in Members}
ListComposeProjects ==
  CASE engine = "demo" -> {i \in Identities : composes[i] # "none"}
    [] engine = "cri"  -> {}
    [] OTHER           -> GroupComposeProjects

\* An identity, else a project or display name that one deployment has.
ByName(ref) == {i \in ListComposeProjects : ref = Project \/ (i \in Dirs /\ ref = DisplayName(i))}
ResolveCompose(ref) ==
  IF ref \in ListComposeProjects THEN [code |-> "ok", id |-> ref]
  ELSE IF ByName(ref) = {} THEN [code |-> "not_found", id |-> None]
  ELSE IF Cardinality(ByName(ref)) = 1 THEN [code |-> "ok", id |-> CHOOSE i \in ByName(ref) : TRUE]
  ELSE [code |-> "usage", id |-> None]

\* composeFilter: by the label of the directory when the identity is a path,
\* by that of the project otherwise.
ComposeFilter(id) ==
  IF id \in Dirs THEN {n \in Members : ctrs[n].dir = id} ELSE {n \in Members : ctrs[n].project = id}
\* nerdctl compares the identities themselves.  Its compose does not put the
\* directory on a label, nor keep where the file is.
ProjectContainers(id) == {n \in Members : Identity(n) = id}
SupportsHostCompose == engine \in {"nerdctl", "demo"} \/ (engine = "docker" /\ host.shell)
-----------------------------------------------------------------------------
ProjectsInit ==
  /\ ObjectsInit
  /\ host \in HostKinds \* the others use no command on it
  /\ engine # "docker" => host = CHOOSE h \in HostKinds : TRUE
  /\ ctrs = [n \in Ctrs |->
       LET In(id, state, dir) ==
             [image |-> id, state |-> state, project |-> Project, dir |-> IF engine = "nerdctl" THEN None ELSE dir]
       IN  CASE n = "web" -> In("a", "running", "/srv") [] n = "db" -> In("b", "exited", host.dir)
             [] OTHER -> [image |-> "b", state |-> "running", project |-> None, dir |-> None]]
  /\ composes = [i \in Identities |-> IF engine = "demo" /\ i = "/srv" THEN "running" ELSE "none"]
  /\ sudo = "unknown"
  /\ archive = [s \in Stamps |-> "none"]
  /\ file = "old"
  /\ approved = [c \in Calls |-> {}]

Steps(c, to) == Goes(c, to) /\ UNCHANGED hostVars
Ends(c, code) == Answer(c, code) /\ UNCHANGED hostVars

\* The interface passes on the identity its list shows.
SubmitProject(c) ==
  /\ MaySubmit(c)
  /\ \/ \E op \in AgentProjectOps : front = "agent" /\ Steps(c, [Idle EXCEPT !.op = op, !.at = "resolve"])
     \/ \E op \in InterfaceProjectOps :
          /\ front = "interface"
          /\ Steps(c, [Idle EXCEPT !.op = op, !.found = op.ref,
                                   !.at = IF op.name \in Lifecycle THEN "members" ELSE "meta"])

\* resolveCompose; then a command on the host must be possible there.
Resolve(c, names, possible, next) ==
  LET hit == ResolveCompose(call[c].op.ref)
  IN  /\ call[c].at = "resolve" /\ call[c].op.name \in names
      /\ IF hit.code # "ok" THEN Ends(c, hit.code)
         ELSE IF ~possible THEN Ends(c, "usage")
         ELSE Steps(c, [call[c] EXCEPT !.found = hit.id, !.at = next])
ComposeStreamOp(c) == Resolve(c, Engined, SupportsHostCompose, "meta")
ComposeConfigOp(c) == Resolve(c, {"config"}, SupportsHostCompose, "meta")
ComposeBackupOp(c) == Resolve(c, {"backup"}, SupportsHostCompose, "meta")
ComposeRestartOp(c) == Resolve(c, {"restart"}, TRUE, "members")
-----------------------------------------------------------------------------
(* composeForEach: list the deployment's containers, then act on one after *)
(* the other, and stop at the first failure.                               *)

ListMembers(c, list) ==
  /\ call[c].at = "members"
  /\ IF list = {} THEN Ends(c, "error") ELSE Steps(c, [call[c] EXCEPT !.at = "each", !.todo = list, !.got = list])
ComposeForEach(c) == engine = "docker" /\ ListMembers(c, ComposeFilter(call[c].found))
NerdctlForEach(c) == engine = "nerdctl" /\ ListMembers(c, ProjectContainers(call[c].found))

\* The state the engine leaves a container in; None when it refuses.
Acted(name, state) ==
  CASE name = "start"     -> IF state = "paused" THEN None ELSE "running"
    [] name = "stop"      -> IF state \in {"running", "paused"} THEN "exited" ELSE state
    [] name = "restart"   -> "running"
    [] name = "pause"     -> IF state = "running" THEN "paused" ELSE None
    [] name = "unpause"   -> IF state = "paused" THEN "running" ELSE None
    [] name = "rmproject" -> "none"
ActOnMember(c) ==
  /\ call[c].at = "each" /\ engine \in {"docker", "nerdctl"}
  /\ \E n \in call[c].todo :
       LET to == IF Exists(n) THEN Acted(call[c].op.name, ctrs[n].state) ELSE None
       IN  \/ /\ to # None
              /\ ctrs' = IF to = "none" THEN Emptied({n}) ELSE [ctrs EXCEPT ![n].state = to]
              /\ Turns(c, [call[c] EXCEPT !.todo = @ \ {n}, !.out = @ \cup {n}])
              /\ UNCHANGED <<engine, front, images, nets, vols, cache, hostVars>>
           \/ Ends(c, "error")
AllActedOne(c) == call[c].out # {} \* mutant
AllActed(c) == call[c].todo = {}
EndEach(c) == call[c].at = "each" /\ AllActed(c) /\ Ends(c, "ok")

\* The demo engine keeps a status of its own, and no more than that.
StatusOf(name) ==
  CASE name \in {"start", "restart", "unpause"} -> "running" [] name = "stop" -> "stopped" [] OTHER -> "paused"
SetComposeState(c, status) ==
  LET i == call[c].found
  IN  IF composes[i] = "none" THEN Ends(c, "error")
      ELSE composes' = [composes EXCEPT ![i] = status] /\ Answer(c, "ok") /\ UNCHANGED <<host, sudo, archive, file>>
Demo(c, at, name) == engine = "demo" /\ call[c].at = at /\ call[c].op.name = name
DemoLifecycle(c) ==
  \E name \in Lifecycle \ {"rmproject"} : Demo(c, "members", name) /\ SetComposeState(c, StatusOf(name))
DemoRemoveProject(c) == Demo(c, "members", "rmproject") /\ SetComposeState(c, "none")
DemoUp(c) == Demo(c, "meta", "up") /\ SetComposeState(c, "running")
DemoDown(c) == Demo(c, "meta", "down") /\ SetComposeState(c, "stopped")
\* A project the demo has already is listed twice; that is kept as one here.
DemoCreate(c) ==
  /\ Demo(c, "meta", "newproject")
  /\ composes' = [composes EXCEPT ![call[c].found] = "running"] /\ file' = "new"
  /\ Answer(c, "ok") /\ UNCHANGED <<host, sudo, archive>>
\* Commands that change no more than files, or nothing.
DemoFiles(c, kept, text) ==
  IF composes[call[c].found] = "none" THEN Ends(c, "error")
  ELSE archive' \in kept /\ file' = text /\ Answer(c, "ok") /\ UNCHANGED <<host, composes, sudo>>
DemoPullProject(c) == Demo(c, "meta", "pullproject") /\ DemoFiles(c, {archive}, file)
DemoConfig(c) == Demo(c, "meta", "config") /\ DemoFiles(c, {archive}, file)
DemoRead(c) == Demo(c, "meta", "read") /\ DemoFiles(c, {archive}, file)
DemoWrite(c) == Demo(c, "meta", "write") /\ DemoFiles(c, {archive}, "new")
DemoBackup(c) == Demo(c, "meta", "backup") /\ DemoFiles(c, {[archive EXCEPT ![s] = "whole"] : s \in Stamps}, file)
CriCompose(c) == engine = "cri" /\ call[c].at \in {"members", "meta"} /\ Ends(c, "unsupported")
-----------------------------------------------------------------------------
(* nerdctl: up, pull and down are a list of tasks, made from the labels,   *)
(* the networks of the project last.  A task that fails says so in a line, *)
(* and the next one runs.                                                  *)

ProjectNetworks == nets \cap {"n1"}
Tasks(c, name, more) ==
  /\ engine = "nerdctl" /\ call[c].at = "meta" /\ call[c].op.name = name
  /\ Steps(c, [call[c] EXCEPT !.at = "tasks", !.todo = ProjectContainers(call[c].found) \cup more])
NerdctlUp(c) == Tasks(c, "up", {})
NerdctlPullProject(c) == Tasks(c, "pullproject", {})
NerdctlDown(c) == Tasks(c, "down", ProjectNetworks)
NerdctlFiles(c) ==
  engine = "nerdctl" /\ call[c].at = "meta" /\ call[c].op.name \in HostOps \ Engined /\ Ends(c, "error")

ImagesOf(S) == UNION {images[i].tags : i \in {j \in DOMAIN images : \E n \in S : ctrs[n].image = images[j].id}}
PullsFor(S) == {images} \cup UNION {Pulled(images, t) : t \in ImagesOf(S)}
\* What a task does, when it works: on containers, networks and images.
TaskDoes(c, n) ==
  LET name == call[c].op.name
  IN  IF n \in Nets THEN n \in PrunesNetworks /\ nets' = nets \ {n} /\ UNCHANGED <<ctrs, images>>
      ELSE /\ Exists(n) /\ UNCHANGED nets
           /\ images' \in IF name = "pullproject" THEN PullsFor({n}) ELSE {images}
           /\ ctrs' = CASE name = "up" -> [ctrs EXCEPT ![n].state = "running"] [] name = "down" -> Emptied({n}) [] OTHER -> ctrs
RunTask(c) ==
  /\ call[c].at = "tasks"
  /\ \E n \in call[c].todo :
       LET left == [call[c] EXCEPT !.todo = @ \ {n}]
           failed == [left EXCEPT !.got = @ \cup {n}]
       IN  /\ n \in Nets => call[c].todo \subseteq Nets
           /\ \/ /\ TaskDoes(c, n) /\ UNCHANGED <<engine, front, vols, cache, hostVars>>
                 /\ \/ call' = [call EXCEPT ![c] = left] /\ UNCHANGED mishaps
                    \/ call' = [call EXCEPT ![c] = failed] /\ Mishap
              \/ Steps(c, failed)
TasksEnd(c, who) == front = who /\ call[c].at = "tasks" /\ call[c].todo = {}
\* progress.result: the lines of failed tasks begin with blanks, so that the
\* agent's answer is "ok".  The interface leaves them on its console.
EndTasks(c) == TasksEnd(c, "agent") /\ Ends(c, "ok")
OpDone(c) == TasksEnd(c, "interface") /\ Ends(c, "shown")
-----------------------------------------------------------------------------
(* Commands on the host, over SSH (docker).                                *)

AfterMeta(name) ==
  CASE name \in Engined -> "probe" [] name = "backup" -> "create" [] name = "write" -> "tee" [] OTHER -> "remote"
\* The labels of the first container listed.
ComposeProjectMeta(c) ==
  LET list == ComposeFilter(call[c].found)
  IN  /\ call[c].at = "meta" /\ engine = "docker" /\ call[c].op.name # "newproject"
      /\ IF ~SupportsHostCompose \/ list = {} THEN Ends(c, "error")
         ELSE \E n \in list :
                IF call[c].op.name = "backup" /\ ctrs[n].dir = None THEN Ends(c, "error")
                ELSE Steps(c, [call[c] EXCEPT !.found = ctrs[n].dir, !.at = AfterMeta(call[c].op.name)])
\* The directory of a new project is made, with sudo if need be.
CreateComposeFile(c) ==
  /\ call[c].at = "meta" /\ engine = "docker" /\ call[c].op.name = "newproject"
  /\ IF host.shell THEN Ends(c, "error") \/ Steps(c, [call[c] EXCEPT !.at = "tee"]) ELSE Ends(c, "error")

Plain == ~host.sudo
VerdictFailed(plain, sudoRan) == IF ~plain /\ sudoRan THEN "yes" ELSE "no" \* mutant
\* sshNeedsSudo: a verdict is kept, an attempt that fails both ways is not.
Verdict(plain, sudoRan) == CASE plain -> "no" [] ~plain /\ sudoRan -> "yes" [] OTHER -> "unknown"
ProbeSudo(c) ==
  /\ call[c].at = "probe"
  /\ \E plain \in {FALSE, Plain}, sudoRan \in BOOLEAN :
       sudo' = IF sudo = "unknown" THEN Verdict(plain, sudoRan) ELSE sudo
  /\ Goes(c, [call[c] EXCEPT !.at = "remote"]) /\ UNCHANGED <<host, composes, archive, file>>

\* `compose --project-name <project>` on the host: up starts the containers of
\* the directory, down removes those of the project's services, which another
\* directory may have containers of as well; or the command fails.  config and
\* a read are tried again under sudo.
Works(asRoot) == asRoot \/ Plain
RunRemote(c) ==
  LET op == call[c].op.name
      here == {n \in Members : ctrs[n].dir = call[c].found}
      asRoot == op \in {"config", "read"} \/ sudo # "no"
  IN  /\ call[c].at = "remote"
      /\ \/ /\ Works(asRoot)
            /\ ctrs' \in CASE op \in {"up", "newproject"} -> {[n \in Ctrs |-> IF n \in here THEN [ctrs[n] EXCEPT !.state = "running"] ELSE ctrs[n]]}
                           [] op = "down" -> {Emptied(here), Emptied(Members)} [] OTHER -> {ctrs}
            /\ images' \in IF op = "pullproject" THEN PullsFor(here) ELSE {images}
            /\ Changed(c, "remote") /\ UNCHANGED <<nets, vols, hostVars>>
         \/ Ends(c, "error")

(* BackupComposeProject: the archive is made plainly, then, if that fails, *)
(* under sudo, in one and the same file.  An attempt may fail before its   *)
(* file is made; the file of a command that failed is removed.             *)
Failed(r) == IF r.tries = 1 THEN [r EXCEPT !.at = "create"] ELSE [r EXCEPT !.at = "done", !.code = "error"]
CreateArchive(c) ==
  /\ call[c].at = "create"
  /\ \E s \in IF call[c].tries = 0 THEN Stamps ELSE {call[c].round} :
       LET tried == [call[c] EXCEPT !.round = s, !.tries = @ + 1]
       IN  \/ archive' = [archive EXCEPT ![s] = "part"] /\ Goes(c, [tried EXCEPT !.at = "tar"])
           \/ UNCHANGED archive /\ Goes(c, Failed(tried))
  /\ UNCHANGED <<host, composes, sudo, file>>
\* How an attempt ends: the command fails, and its file may withstand removal
\* ("stuck"); or the file does not close, and stays ("unclosed").
KeptPart(end) == IF end = "ok" THEN "whole" ELSE "part" \* mutant
Kept(end) == CASE end = "ok" -> "whole" [] end = "failed" -> "none" [] OTHER -> "part"
ArchiveEnds(c) ==
  /\ call[c].at = "tar"
  /\ \E end \in {"ok", "failed", "stuck", "unclosed"} :
       /\ archive' = [archive EXCEPT ![call[c].round] = Kept(end)]
       /\ Goes(c, IF end = "ok" THEN [call[c] EXCEPT !.at = "done", !.code = "ok"]
                  ELSE Failed([call[c] EXCEPT !.did = IF end = "failed" THEN @ ELSE {"left"}]))
  /\ UNCHANGED <<host, composes, sudo, file>>

(* WriteComposeFile: tee, then sudo tee.  A plain tee may be refused, and  *)
(* any may break off.                                                      *)
WriteFile(c) ==
  /\ call[c].at \in {"tee", "sudotee"}
  /\ \/ /\ file' = "new"
        /\ Goes(c, IF call[c].op.name = "newproject" THEN [call[c] EXCEPT !.at = "probe"] ELSE Did(c, "write"))
     \/ /\ file' \in {file, "torn", "new"}
        /\ Goes(c, IF call[c].at = "tee" THEN [call[c] EXCEPT !.at = "sudotee"]
                   ELSE [call[c] EXCEPT !.at = "done", !.code = "error"])
  /\ UNCHANGED <<host, composes, sudo, archive>>
-----------------------------------------------------------------------------
Step(c) ==
  \/ ObjectStep(c) /\ UNCHANGED hostVars
  \/ ComposeStreamOp(c) \/ ComposeConfigOp(c) \/ ComposeBackupOp(c) \/ ComposeRestartOp(c)
  \/ ComposeForEach(c) \/ NerdctlForEach(c) \/ ActOnMember(c) \/ EndEach(c) \/ CriCompose(c)
  \/ DemoLifecycle(c) \/ DemoRemoveProject(c) \/ DemoUp(c) \/ DemoDown(c) \/ DemoCreate(c)
  \/ DemoPullProject(c) \/ DemoConfig(c) \/ DemoRead(c) \/ DemoWrite(c) \/ DemoBackup(c)
  \/ NerdctlUp(c) \/ NerdctlPullProject(c) \/ NerdctlDown(c) \/ NerdctlFiles(c) \/ RunTask(c)
  \/ EndTasks(c) \/ OpDone(c)
  \/ ComposeProjectMeta(c) \/ CreateComposeFile(c) \/ ProbeSudo(c) \/ RunRemote(c)
  \/ CreateArchive(c) \/ ArchiveEnds(c) \/ WriteFile(c)

\* The plan of a sweep is made when it is first called.  It counts no more
\* when someone else changes the engine, which the sweep does not look at.
Foreign(c) == call'[c] = call[c] /\ <<images, ctrs, vols>>' # <<images, ctrs, vols>>
Plans ==
  approved' = [c \in Calls |->
    CASE call[c].at = "idle" /\ call'[c].at = "asked" -> {PlanOf(call'[c].op.name)}
      [] call'[c].at = "done" \/ Foreign(c) -> {}
      [] OTHER -> approved[c]]

Done == (\A c \in Calls : call[c].at = "done") /\ UNCHANGED projectsVars
ProjectsNext ==
  \/ (\E c \in Calls : (Submit(c) /\ UNCHANGED hostVars) \/ SubmitProject(c) \/ Step(c)) /\ Plans
  \/ OtherClient /\ UNCHANGED hostVars /\ Plans
  \/ Done
ProjectsSpec == ProjectsInit /\ [][ProjectsNext]_projectsVars
-----------------------------------------------------------------------------
Ended(c, name) == call[c].at = "done" /\ call[c].op.name = name

(* What a call has answered is what it did: a call that is told its words  *)
(* are wrong has changed nothing; `system prune` reports no stage that did *)
(* not run, and every one if it succeeds; run creates at most twice; a     *)
(* compose command that succeeded has acted on every container it listed.  *)
AnswersTrue ==
  \A c \in Calls :
    /\ call[c].at = "done" /\ call[c].code \in {"usage", "not_found", "unsupported"} => call[c].did = {}
    /\ Ended(c, "sysprune") => /\ call[c].out \subseteq call[c].did
                               /\ call[c].code = "ok" => call[c].out = call[c].did
    /\ Ended(c, "run") /\ call[c].code = "ok" => {"create", "start"} \subseteq call[c].did
    /\ call[c].tries <= 2
    /\ (\E name \in Lifecycle : Ended(c, name)) /\ engine # "demo" /\ call[c].code = "ok" =>
         call[c].out = call[c].got /\ call[c].got # {}

(* Statistics: no more requests are out at once than allowed; only what    *)
(* was listed is sampled; and once no batch is under way, the backend      *)
(* keeps samples of the containers of one request at most.                 *)
StatsRight ==
  /\ \A c \in Calls : call[c].at = "batch" => /\ Cardinality(call[c].out) <= MaxWorkers
                                              /\ call[c].got \subseteq call[c].found
  /\ engine = "docker" /\ cache # {} /\ (\A c \in Calls : call[c].at \notin {"batch", "window"}) =>
       \E c \in Calls : Ended(c, "stats") /\ call[c].round > 0 /\ cache \subseteq call[c].found

(* The verdict that a host needs no sudo is kept only where that holds, so *)
(* that no connection is stuck with commands that cannot run.              *)
SudoRight == sudo = "no" => Plain

(* An archive a backup answered with is on disk whole, and a failed backup *)
(* leaves none, but for one it could not close or remove; unless two       *)
(* backups of one second write the same file.                              *)
Alone(c) == \A k \in Calls \ {c} : call[k].op = None \/ call[k].op.name # "backup"
BackupWhole ==
  \A c \in Calls : Ended(c, "backup") /\ engine = "docker" /\ Alone(c) =>
    IF call[c].code = "ok" THEN archive[call[c].round] = "whole"
    ELSE "left" \in call[c].did \/ \A s \in Stamps : archive[s] = "none"

(* The safety of the calls, in one: their types, true answers, bounded     *)
(* statistics, the sudo verdict and whole archives.                        *)
ProjectsRight == ObjectsTypeOK /\ AnswersTrue /\ StatsRight /\ SudoRight /\ BackupWhole

(* A sweep removes only what its plan would name at that moment, and, if   *)
(* no other call or client has changed anything since the user approved    *)
(* it, only what that very plan named (docker, nerdctl and the demo:       *)
(* crictl's prune takes tagged images too).                                *)
Sweeping(c) == call'[c] # call[c] /\ call[c].op # None /\ call[c].op.name \in Sweeps
ImageIds(rows) == {rows[i].id : i \in DOMAIN rows}
Covers(plan) ==
  /\ ImageIds(images) \ ImageIds(images') \subseteq plan.images
  /\ {n \in Ctrs : Exists(n) /\ ctrs'[n].state = "none"} \subseteq plan.ctrs
  /\ vols \ vols' \subseteq plan.vols
PlansCover ==
  \A c \in Calls : Sweeping(c) => \A plan \in approved[c] \cup {PlanOf(call[c].op.name)} : Covers(plan)
SweepsAsPlanned == [][engine # "cri" => PlansCover]_projectsVars

(* An agent's compose command is answered as done only when nothing of it  *)
(* failed ("marks the line a backend progress stream sends when the        *)
(* operation fails", ops_deploy.go).                                       *)
FailureTold ==
  front = "agent" => \A c \in Calls : (\E name \in Engined : Ended(c, name)) /\ call[c].code = "ok" => call[c].got = {}
=============================================================================
