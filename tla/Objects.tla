------------------------------ MODULE Objects ------------------------------
(***************************************************************************)
(* Commands on images, networks, volumes and statistics, over the engines  *)
(* d9c speaks to: the agent operations of src/internal/agent/ops_images.go *)
(* ops_maintain.go, ops_containers.go and ops_deploy.go, and the calls the *)
(* interface makes, on the backends of src/internal/docker (docker,        *)
(* nerdctl, cri and the demo).                                             *)
(*                                                                         *)
(* One process serves several calls at a time (tool calls of an MCP        *)
(* session, or commands of the interface).  An agent operation looks its   *)
(* object up, acts on it by the words it was given, and may read it back:  *)
(* each is a call of the engine of its own, and other calls and other      *)
(* clients come in between.  Projects adds the compose commands.           *)
(***************************************************************************)
EXTENDS Naturals, FiniteSets, Sequences, SequencesExt

CONSTANTS
  Calls,      \* the calls the process serves, numbered
  Engines,    \* the engines to look at: "docker", "nerdctl", "cri", "demo"
  MaxWorkers, \* statistics requests a batch has out at a time: maxStatsConcurrency
  MaxMishaps, \* bound: changes of other clients, and replies that are lost
  None        \* no value

ASSUME BoundsAssumption == Calls \subseteq Nat /\ MaxWorkers \in Nat \ {0} /\ MaxMishaps \in Nat

Tags == {"app", "myapp", "cold"}
\* The demo engine finds "app" within "myapp" (strings.Contains).
Within(ref, tag) == ref = tag \/ <<ref, tag>> = <<"app", "myapp">>
Ids == {"a", "b", "d", "built"}
\* A prefix that the identities of "a" and "d" share.
Prefix == "prefix"
Prefixed(id) == id \in {"a", "d"}
Ctrs == {"web", "db", "job"}
States == {"none", "created", "running", "exited", "paused"}
BuiltIn == {"bridge"}
Nets == BuiltIn \cup {"n1", "n2"}
Vols == {"v1", "v2"}
\* What a container mounts and joins for as long as it exists.
Mounts(n) == IF n = "db" THEN {"v1"} ELSE {}
Joins(n) == IF n = "web" THEN {"bridge"} ELSE {"n1"}

\* "shown": the lines of a command are left on the screen, without a verdict.
Codes == {"none", "ok", "usage", "not_found", "unsupported", "error", "shown"}
Stages == {"containers", "networks", "images", "cache"}
Sweeps == {"prune", "volprune", "sysprune"}

VARIABLES
  engine,    \* the engine behind the connection
  front,     \* who calls: "agent" (MCP session) or "interface"
  images,    \* the engine's images, in the order of the list: [id, tags]
  ctrs,      \* ctrs[n]: the container of that name, [image, state, project, dir]
  nets, vols,\* the engine's networks and volumes
  mishaps,   \* changes of other clients and lost replies, so far
  cache,     \* containers the backend keeps a CPU sample of: dockerBackend.statsPrev
  call       \* the calls

engineVars == <<images, ctrs, nets, vols>>
objectVars == <<engine, front, engineVars, mishaps, cache, call>>

Absent == [image |-> None, state |-> "none", project |-> None, dir |-> None]
(***************************************************************************)
(* The words of a command.  A field a command lacks is None.               *)
(***************************************************************************)
Op(name, ref, to, force) == [name |-> name, ref |-> ref, to |-> to, force |-> force]
AgentOps ==
       {Op("tag", "app", "myapp", FALSE), Op("tag", Prefix, "app", FALSE)}
  \cup {Op("rmi", "app", None, f) : f \in BOOLEAN}
  \cup {Op("push", "d", None, FALSE), Op("history", "app", None, FALSE), Op("pull", "cold", None, FALSE)}
  \cup {Op("build", None, t, FALSE) : t \in {"app", None}}
  \cup {Op("net", "n2", None, FALSE), Op("vol", "v2", None, FALSE)}
  \cup {Op(p, None, None, FALSE) : p \in Sweeps}
  \cup {Op("stats", "web", None, FALSE)}
InterfaceOps ==
       {Op("run", "app", "db", FALSE), Op("run", "cold", "web", FALSE)}
  \cup {Op("rmi", "a", None, f) : f \in BOOLEAN}
  \cup {Op("netrm", n, None, FALSE) : n \in {"bridge", "n1"}}
  \cup {Op("volrm", "v1", None, FALSE)}
  \cup {Op(p, None, None, FALSE) : p \in {"prune", "sysprune", "stats"}}

Idle == [op |-> None, at |-> "idle", found |-> None, did |-> {}, code |-> "none",
         tries |-> 0, round |-> 0, todo |-> {}, out |-> {}, got |-> {}]
-----------------------------------------------------------------------------
(* What the lists say. *)

Exists(n) == ctrs[n].state # "none"
Running(n) == ctrs[n].state = "running"
Used(id) == \E n \in Ctrs : Exists(n) /\ ctrs[n].image = id

\* nerdctl lists an image once for each of its tags; in which order does not
\* matter, since a tag there is on one image.
NerdctlRows ==
  SetToSeq({images[i] : i \in {j \in DOMAIN images : images[j].tags = {}}} \cup
           UNION {{[id |-> images[i].id, tags |-> {t}] : t \in images[i].tags} : i \in DOMAIN images})
\* criImageTags: the first tag alone.
CriImageTags(tags) == IF tags = {} THEN {} ELSE {CHOOSE t \in tags : TRUE}
CriRows == [i \in DOMAIN images |-> [images[i] EXCEPT !.tags = CriImageTags(@)]]
ListImages ==
  CASE engine = "nerdctl" -> NerdctlRows [] engine = "cri" -> CriRows [] OTHER -> images

First(S) == CHOOSE i \in S : \A j \in S : i <= j
\* The rows at the places S, in their order.
RowsAt(rows, S) ==
  [n \in 1..Cardinality(S) |-> rows[CHOOSE i \in S : Cardinality({j \in S : j <= i}) = n]]
ImagesWithout(S) == RowsAt(images, DOMAIN images \ S)
\* An exact tag, else an exact ID, else a prefix of one row's ID.
ResolveImage(rows, ref) ==
  LET tagged == {i \in DOMAIN rows : ref \in rows[i].tags}
      exact  == {i \in DOMAIN rows : rows[i].id = ref}
      hits   == IF ref = Prefix THEN {i \in DOMAIN rows : Prefixed(rows[i].id)} ELSE {}
      Hit(code, id) == [code |-> code, id |-> id]
  IN  IF tagged # {} THEN Hit("ok", rows[First(tagged)].id)
      ELSE IF exact # {} THEN Hit("ok", ref)
      ELSE IF hits = {} THEN Hit("not_found", None)
      ELSE IF Cardinality(hits) = 1 THEN Hit("ok", rows[First(hits)].id)
      ELSE Hit("usage", None)

\* crictl has no networks and no volumes to list.
ListNetworks == IF engine = "cri" THEN {} ELSE nets
ListVolumes == IF engine = "cri" THEN {} ELSE vols
-----------------------------------------------------------------------------
ObjectsInit ==
  /\ engine \in Engines
  /\ front \in {"agent", "interface"}
  /\ images = <<[id |-> "b", tags |-> {"myapp"}], [id |-> "a", tags |-> {"app"}], [id |-> "d", tags |-> {}]>>
  /\ nets = {"bridge", "n1"}
  /\ vols = {"v1"}
  /\ mishaps = 0
  /\ cache = {}
  /\ call = [c \in Calls |-> Idle]

\* The call goes on, or is answered; the engine stays as it is.
Goes(c, to) == call' = [call EXCEPT ![c] = to] /\ UNCHANGED <<engine, front, engineVars, mishaps, cache>>
Answer(c, code) == Goes(c, [call[c] EXCEPT !.at = "done", !.code = code])
Fails(c) == Answer(c, "error")
\* The engine did what it was asked; k is what the call has changed.  The
\* reply to it may be lost: the call is told of an error then.
Did(c, k) == [call[c] EXCEPT !.did = @ \cup {k}, !.at = "done", !.code = "ok"]
Mishap == engine # "demo" /\ mishaps < MaxMishaps /\ mishaps' = mishaps + 1
Turns(c, r) ==
  \/ call' = [call EXCEPT ![c] = r] /\ UNCHANGED mishaps
  \/ Mishap /\ call' = [call EXCEPT ![c] = [r EXCEPT !.at = "done", !.code = "error"]]
Changed(c, k) == Turns(c, Did(c, k)) /\ UNCHANGED <<engine, front, cache>>

(* Where the handler of a command begins: most agent commands list first,  *)
(* and the destructive ones that sweep are called twice, for their plan    *)
(* and, once that is approved, to be carried out.                          *)
Handled(op) ==
  CASE front = "agent" /\ op.name \in {"tag", "rmi", "push", "history", "build", "net", "vol"} -> "lookup"
    [] op.name = "stats" -> "list"
    [] op.name = "sysprune" /\ engine = "docker" -> "containers"
    [] OTHER -> "act"
Begins(op) == IF front = "agent" /\ op.name \in Sweeps THEN "asked" ELSE Handled(op)
\* Calls are numbered in the order they are made.
MaySubmit(c) == call[c].at = "idle" /\ \A k \in Calls : k < c => call[k].at # "idle"
Submit(c) ==
  \E op \in IF front = "agent" THEN AgentOps ELSE InterfaceOps :
    MaySubmit(c) /\ Goes(c, [Idle EXCEPT !.op = op, !.at = Begins(op)])

\* Invoke, confirmed: the handler runs, whatever the plan was.
Confirmed(c) == call[c].at = "asked" /\ Goes(c, [call[c] EXCEPT !.at = Handled(call[c].op)])

LookupImage(c, name) ==
  LET hit == ResolveImage(ListImages, call[c].op.ref)
  IN  /\ call[c].at = "lookup" /\ call[c].op.name = name
      /\ IF hit.code = "ok" THEN Goes(c, [call[c] EXCEPT !.at = "act", !.found = hit.id])
         ELSE Answer(c, hit.code)
ImageTagOp(c) == LookupImage(c, "tag")
ImageRmOp(c) == LookupImage(c, "rmi")
ImagePushOp(c) == LookupImage(c, "push")
ImageHistoryOp(c) == LookupImage(c, "history")

\* A directory without a Dockerfile is not built from.
CheckBuildContext(c) ==
  /\ call[c].at = "lookup" /\ call[c].op.name = "build"
  /\ Goes(c, [call[c] EXCEPT !.at = "act"]) \/ Answer(c, "not_found")

\* A name that is taken is refused.
CheckNew(c, name, list) ==
  /\ call[c].at = "lookup" /\ call[c].op.name = name
  /\ IF call[c].op.ref \in list THEN Answer(c, "usage") ELSE Goes(c, [call[c] EXCEPT !.at = "act"])
CheckNetworkCreate(c) == CheckNew(c, "net", ListNetworks)
CheckVolumeCreate(c) == CheckNew(c, "vol", ListVolumes)

\* The engine, or the connection, fails a call that has not begun to act.
Refused(c) ==
  /\ engine # "demo"
  /\ \/ call[c].at \in {"asked", "lookup", "act", "list", "resolve", "members", "meta"}
     \/ call[c].at = "batch" /\ engine # "docker"
  /\ Fails(c)
-----------------------------------------------------------------------------
(* Images, on the engine. *)

Acts(c, name) == call[c].at = "act" /\ call[c].op.name = name
On(c, e, name) == engine = e /\ Acts(c, name)
Unsupported(c) ==
  /\ engine = "cri" /\ call[c].at = "act"
  /\ call[c].op.name \in {"tag", "push", "build", "history", "net", "vol", "netrm", "volrm", "volprune"}
  /\ Answer(c, "unsupported")
CriRunContainer(c) == On(c, "cri", "run") /\ Answer(c, "unsupported")

\* A change of the images alone, that k stands for.
NewImages(c, k, rows) == images' = rows /\ Changed(c, k) /\ UNCHANGED <<ctrs, nets, vols>>

\* A tag sits on one image: it is taken off the one that has it.
Untagged(rows, t) == [i \in DOMAIN rows |-> [rows[i] EXCEPT !.tags = @ \ {t}]]
Tagged(rows, id, t) ==
  [i \in DOMAIN rows |-> IF rows[i].id = id THEN [rows[i] EXCEPT !.tags = @ \cup {t}] ELSE rows[i]]
Moved(rows, id, t) == Tagged(Untagged(rows, t), id, t)
TagBy(c) ==
  LET op == call[c].op  hit == ResolveImage(images, op.ref)
  IN  IF hit.code # "ok" THEN Answer(c, "not_found") ELSE NewImages(c, "tag", Moved(images, hit.id, op.to))
TagImage(c) == On(c, "docker", "tag") /\ TagBy(c)
NerdctlTag(c) == On(c, "nerdctl", "tag") /\ TagBy(c)
\* The rows the demo engine takes a reference for: the ID, or part of a tag.
DemoRows(ref) == {i \in DOMAIN images : images[i].id = ref \/ \E t \in images[i].tags : Within(ref, t)}
\* The demo's tag is a row of its own, and stays where it was as well.
DemoTag(c) ==
  LET op == call[c].op  rows == DemoRows(op.ref)
  IN  /\ On(c, "demo", "tag")
      /\ IF rows = {} THEN Fails(c)
         ELSE NewImages(c, "tag", Append(images, [id |-> images[First(rows)].id, tags |-> {op.to}]))

\* A tag beside others goes alone; an image in use is refused unless forced.
RemoveBy(c) ==
  LET op == call[c].op  hit == ResolveImage(images, op.ref)
      tags == UNION {images[i].tags : i \in {j \in DOMAIN images : images[j].id = hit.id}}
  IN  CASE hit.code # "ok" -> Answer(c, "not_found")
        [] hit.code = "ok" /\ op.ref \in tags /\ tags # {op.ref} -> NewImages(c, "rm", Untagged(images, op.ref))
        [] OTHER -> IF Used(hit.id) /\ ~op.force THEN Fails(c)
                    ELSE NewImages(c, "rm", ImagesWithout({i \in DOMAIN images : images[i].id = hit.id}))
RemoveImage(c) == On(c, "docker", "rmi") /\ RemoveBy(c)
NerdctlRemove(c) == On(c, "nerdctl", "rmi") /\ RemoveBy(c)
\* crictl's rmi takes the whole image, also from under stopped containers.
CriRemove(c) ==
  LET hit == ResolveImage(images, call[c].op.ref)
  IN  /\ On(c, "cri", "rmi")
      /\ IF hit.code # "ok" THEN Answer(c, "not_found")
         ELSE \/ NewImages(c, "rm", ImagesWithout({i \in DOMAIN images : images[i].id = hit.id}))
              \/ (\E n \in Ctrs : ctrs[n].image = hit.id /\ ctrs[n].state \in {"running", "paused"}) /\ Fails(c)
\* The demo engine drops the first row it takes the reference for; "a" stands
\* for the samples it does not remove without force.
DemoRemove(c) ==
  LET op == call[c].op  rows == DemoRows(op.ref)
  IN  /\ On(c, "demo", "rmi")
      /\ IF rows = {} \/ (images[First(rows)].id = "a" /\ ~op.force) THEN Fails(c)
         ELSE NewImages(c, "rm", ImagesWithout({First(rows)}))

\* The stream's last line tells success from failure.  nerdctl logs in first.
PushImage(c) == On(c, "docker", "push") /\ Goes(c, Did(c, "push"))
NerdctlPush(c) == On(c, "nerdctl", "push") /\ (Goes(c, Did(c, "push")) \/ Fails(c))
DemoPush(c) == On(c, "demo", "push") /\ Goes(c, Did(c, "push"))
ImageHistory(c) ==
  /\ On(c, "docker", "history") \/ On(c, "nerdctl", "history")
  /\ \E code \in {"ok", "not_found"} : Answer(c, code)
DemoHistory(c) == On(c, "demo", "history") /\ IF DemoRows(call[c].op.ref) = {} THEN Fails(c) ELSE Answer(c, "ok")

\* A pull, or a build, brings an image that takes its tag over; a pull may
\* find that the image is here already.
Brings(rows, t) ==
  IF \E i \in DOMAIN rows : rows[i].id = "built" THEN Moved(rows, "built", t)
  ELSE Append(Untagged(rows, t), [id |-> "built", tags |-> {t}])
Pulled(rows, t) == {Brings(rows, t)} \cup (IF \E i \in DOMAIN rows : t \in rows[i].tags THEN {rows} ELSE {})
PullBy(c) == \E rows \in Pulled(images, call[c].op.ref) : NewImages(c, "pull", rows)
PullImage(c) == On(c, "docker", "pull") /\ PullBy(c)
NerdctlPull(c) == On(c, "nerdctl", "pull") /\ PullBy(c)
CriPull(c) == On(c, "cri", "pull") /\ PullBy(c)
DemoPull(c) == On(c, "demo", "pull") /\ NewImages(c, "pull", images)

NewBuild(t) == Append(images, [id |-> "built", tags |-> IF t = None THEN {} ELSE {t}])
BuildBy(c) ==
  LET t == call[c].op.to IN NewImages(c, "build", IF t = None THEN NewBuild(t) ELSE Brings(images, t))
BuildImage(c) == On(c, "docker", "build") /\ BuildBy(c)
NerdctlBuild(c) == On(c, "nerdctl", "build") /\ BuildBy(c)
DemoBuild(c) == On(c, "demo", "build") /\ NewImages(c, "build", NewBuild(call[c].op.to))
-----------------------------------------------------------------------------
(* Prunes: what each engine removes, and what the agent's plan names. *)

Dangling(rows) == {i \in DOMAIN rows : rows[i].tags = {}}
Unused == {i \in DOMAIN images : ~Used(images[i].id)}
PrunesImagesUnused == Unused \* mutant
PrunesImages == Dangling(images) \cap Unused
\* crictl's rmi --prune takes every image no container uses.
CriPrunesImages == Unused
\* The demo does not look whether a container uses the image.
DemoPrunesImages == Dangling(images)
\* The demo keeps what is running, and nothing else.
DemoPrunesContainers == {n \in Ctrs : Exists(n) /\ ~Running(n)}
PrunesContainersPaused == DemoPrunesContainers \* mutant
PrunesContainers == {n \in Ctrs : ctrs[n].state \in {"created", "exited"}}
PrunesNetworks == {n \in nets \ BuiltIn : ~\E k \in Ctrs : Exists(k) /\ n \in Joins(k)}
UnusedVolumes == {v \in vols : ~\E n \in Ctrs : Exists(n) /\ v \in Mounts(n)}

\* What the plan of a sweep names: the dangling images, the containers that
\* have stopped; every volume is a candidate of a prune of volumes, and the
\* other sweeps keep them.
DanglingImageSteps == {ListImages[i].id : i \in Dangling(ListImages)}
SystemPruneSteps == {n \in Ctrs : Exists(n) /\ ctrs[n].state \notin {"running", "paused"}}
PlanOf(name) ==
  [images |-> IF name = "volprune" THEN {} ELSE DanglingImageSteps,
   ctrs   |-> IF name = "sysprune" THEN SystemPruneSteps ELSE {},
   vols   |-> IF name = "volprune" THEN ListVolumes ELSE {}]

Emptied(S) == [n \in Ctrs |-> IF n \in S THEN Absent ELSE ctrs[n]]
PruneImages(c) == On(c, "docker", "prune") /\ NewImages(c, "prune", ImagesWithout(PrunesImages))
NerdctlPruneImages(c) == On(c, "nerdctl", "prune") /\ NewImages(c, "prune", ImagesWithout(PrunesImages))
CriPruneImages(c) == On(c, "cri", "prune") /\ NewImages(c, "prune", ImagesWithout(CriPrunesImages))
DemoPruneImages(c) == On(c, "demo", "prune") /\ NewImages(c, "prune", ImagesWithout(DemoPrunesImages))

\* Docker 23 and later prune anonymous volumes only; the demo prunes all.
NewVolumes(c, k, set) == vols' = set /\ Changed(c, k) /\ UNCHANGED <<images, ctrs, nets>>
PruneVolumes(c) == On(c, "docker", "volprune") /\ \E S \in SUBSET UnusedVolumes : NewVolumes(c, "prune", vols \ S)
NerdctlPruneVolumes(c) ==
  On(c, "nerdctl", "volprune") /\ \E S \in SUBSET UnusedVolumes : NewVolumes(c, "prune", vols \ S)
DemoPruneVolumes(c) == On(c, "demo", "volprune") /\ NewVolumes(c, "prune", {})

Prunes(gone, freed, rows) ==
  ctrs' = Emptied(gone) /\ nets' = nets \ freed /\ images' = ImagesWithout(rows) /\ UNCHANGED vols
Of(stages, stage, S) == IF stage \in stages THEN S ELSE {}
\* The stages prune all they may, or, if they are broken off, a part of it.
PrunesAll(stages, gone, rows) ==
  Prunes(Of(stages, "containers", gone), Of(stages, "networks", PrunesNetworks), Of(stages, "images", rows))
PrunesPart(stages, gone, rows) ==
  \E g \in SUBSET Of(stages, "containers", gone), f \in SUBSET Of(stages, "networks", PrunesNetworks),
     r \in SUBSET Of(stages, "images", rows) : Prunes(g, f, r)
Following(stage) ==
  CASE stage = "containers" -> "networks" [] stage = "networks" -> "images"
    [] stage = "images" -> "cache" [] OTHER -> "done"

(* dockerBackend.SystemPrune runs every stage even when one fails, and     *)
(* returns the summary of those that did beside the first error; the agent *)
(* puts that summary (here: out) into its answer either way.               *)
AfterStageTold(c, ok) == \* mutant
  LET stage == call[c].at
  IN  [call[c] EXCEPT !.at = Following(stage), !.out = @ \cup {stage}, !.code = IF ok THEN "ok" ELSE "error"]
AfterStage(c, ok) ==
  LET stage == call[c].at
  IN  [call[c] EXCEPT !.at = Following(stage),
                      !.out = IF ok THEN @ \cup {stage} ELSE @,
                      !.code = CASE ~ok -> "error" [] ok /\ @ = "none" /\ stage = "cache" -> "ok" [] OTHER -> @]
\* A stage that fails may have done all or part of its work: its reply was
\* lost, or the time that all of them share ran out.
PruneStage(c) ==
  /\ call[c].at \in Stages
  /\ PrunesAll({call[c].at}, PrunesContainers, PrunesImages)
  /\ call' = [call EXCEPT ![c] = [AfterStage(c, TRUE) EXCEPT !.did = @ \cup {call[c].at}]]
  /\ UNCHANGED <<engine, front, mishaps, cache>>
PruneStageFails(c) ==
  /\ call[c].at \in Stages
  /\ \/ Goes(c, AfterStage(c, FALSE))
     \/ /\ Mishap /\ PrunesPart({call[c].at}, PrunesContainers, PrunesImages)
        /\ call' = [call EXCEPT ![c] = [AfterStage(c, FALSE) EXCEPT !.did = @ \cup {call[c].at}]]
        /\ UNCHANGED <<engine, front, cache>>

\* The others prune by one command, or at once; a command that fails on the
\* way has no summary of what it did.
PruneAtOnce(c, stages, gone, rows) ==
  /\ PrunesAll(stages, gone, rows)
  /\ call' = [call EXCEPT ![c] = [call[c] EXCEPT !.did = stages, !.out = stages, !.at = "done", !.code = "ok"]]
  /\ UNCHANGED <<engine, front, mishaps, cache>>
PruneBreaksOff(c, stages, rows) ==
  /\ Mishap /\ PrunesPart(stages, PrunesContainers, rows)
  /\ call' = [call EXCEPT ![c] = [call[c] EXCEPT !.did = stages, !.at = "done", !.code = "error"]]
  /\ UNCHANGED <<engine, front, cache>>
NerdctlSystemPrune(c) ==
  /\ On(c, "nerdctl", "sysprune")
  /\ PruneAtOnce(c, Stages, PrunesContainers, PrunesImages) \/ PruneBreaksOff(c, Stages, PrunesImages)
CriSystemPrune(c) ==
  /\ On(c, "cri", "sysprune")
  /\ PruneAtOnce(c, {"images"}, {}, CriPrunesImages) \/ PruneBreaksOff(c, {"images"}, CriPrunesImages)
DemoSystemPrune(c) ==
  On(c, "demo", "sysprune") /\ PruneAtOnce(c, {"containers", "images"}, DemoPrunesContainers, DemoPrunesImages)
-----------------------------------------------------------------------------
(* Networks and volumes. *)

\* The engine's own check of the name comes after d9c's.
NewNetwork(c) ==
  IF call[c].op.ref \in nets THEN Fails(c)
  ELSE /\ nets' = nets \cup {call[c].op.ref}
       /\ Turns(c, [Did(c, "net") EXCEPT !.at = "readback", !.code = "none"])
       /\ UNCHANGED <<engine, front, images, ctrs, vols, cache>>
CreateNetwork(c) == On(c, "docker", "net") /\ NewNetwork(c)
NerdctlCreateNetwork(c) == On(c, "nerdctl", "net") /\ NewNetwork(c)
DemoCreateNetwork(c) == On(c, "demo", "net") /\ NewNetwork(c)

\* docker and nerdctl answer a volume that exists already as created; the
\* demo refuses it.
NewVolume(c) ==
  LET v == call[c].op.ref
  IN  /\ vols' = vols \cup {v}
      /\ Turns(c, [call[c] EXCEPT !.did = IF v \in vols THEN {} ELSE {"vol"}, !.at = "readback"])
      /\ UNCHANGED <<engine, front, images, ctrs, nets, cache>>
CreateVolume(c) == On(c, "docker", "vol") /\ NewVolume(c)
NerdctlCreateVolume(c) == On(c, "nerdctl", "vol") /\ NewVolume(c)
DemoCreateVolume(c) == On(c, "demo", "vol") /\ IF call[c].op.ref \in vols THEN Fails(c) ELSE NewVolume(c)

\* "a failed read-back still reports the network as created": found is the
\* object's own row, if it was read.
ReadBack(c, name, list) ==
  /\ call[c].at = "readback" /\ call[c].op.name = name
  /\ \E seen \in {TRUE, engine = "demo"} :
       Goes(c, [call[c] EXCEPT !.at = "done", !.code = "ok",
                               !.found = IF seen /\ call[c].op.ref \in list THEN call[c].op.ref ELSE None])
NetworkCreated(c) == ReadBack(c, "net", ListNetworks)
VolumeCreated(c) == ReadBack(c, "vol", ListVolumes)

Drops(c, k, free, rest) ==
  IF call[c].op.ref \notin free THEN Fails(c) ELSE rest /\ Changed(c, k) /\ UNCHANGED <<images, ctrs>>
RemoveNetworkBy(c, free) == Drops(c, "net", free, nets' = nets \ {call[c].op.ref} /\ UNCHANGED vols)
RemoveNetwork(c) == On(c, "docker", "netrm") /\ RemoveNetworkBy(c, PrunesNetworks)
NerdctlRemoveNetwork(c) == On(c, "nerdctl", "netrm") /\ RemoveNetworkBy(c, PrunesNetworks)
DemoRemoveNetwork(c) == On(c, "demo", "netrm") /\ RemoveNetworkBy(c, nets \ BuiltIn)
RemoveVolumeBy(c, free) == Drops(c, "vol", free, vols' = vols \ {call[c].op.ref} /\ UNCHANGED nets)
RemoveVolume(c) == On(c, "docker", "volrm") /\ RemoveVolumeBy(c, UnusedVolumes)
NerdctlRemoveVolume(c) == On(c, "nerdctl", "volrm") /\ RemoveVolumeBy(c, UnusedVolumes)
DemoRemoveVolume(c) == On(c, "demo", "volrm") /\ RemoveVolumeBy(c, vols)
-----------------------------------------------------------------------------
(* RunContainer: create; on a missing image pull it and create once more;  *)
(* start.  nerdctl and the demo do it at once.                             *)

HasImage(t) == \E i \in DOMAIN images : t \in images[i].tags
NewContainer(id, state) == [Absent EXCEPT !.image = id, !.state = state]

MayPullAgain(c) == call[c].op # None \* mutant
MayPull(c) == call[c].at = "act"
CreateContainer(c) ==
  LET op == call[c].op
      tried == [call[c] EXCEPT !.tries = @ + 1]
  IN  /\ On(c, "docker", "run") \/ call[c].at = "again"
      /\ IF ~HasImage(op.ref)
         THEN IF MayPull(c) THEN Goes(c, [tried EXCEPT !.at = "fetch"])
              ELSE Goes(c, [tried EXCEPT !.at = "done", !.code = "error"])
         ELSE IF Exists(op.to) THEN Goes(c, [tried EXCEPT !.at = "done", !.code = "error"])
         ELSE /\ ctrs' = [ctrs EXCEPT ![op.to] = NewContainer(ResolveImage(images, op.ref).id, "created")]
              /\ Turns(c, [tried EXCEPT !.did = @ \cup {"create"}, !.at = "start"])
              /\ UNCHANGED <<engine, front, images, nets, vols, cache>>

PullForRun(c) ==
  /\ call[c].at = "fetch"
  /\ \/ /\ images' \in Pulled(images, call[c].op.ref)
        /\ Turns(c, [call[c] EXCEPT !.did = @ \cup {"pull"}, !.at = "again"])
        /\ UNCHANGED <<engine, front, ctrs, nets, vols, cache>>
     \/ Fails(c)

StartContainer(c) ==
  /\ call[c].at = "start"
  /\ \/ /\ ctrs[call[c].op.to].state = "created"
        /\ ctrs' = [ctrs EXCEPT ![call[c].op.to].state = "running"]
        /\ Changed(c, "start") /\ UNCHANGED <<images, nets, vols>>
     \/ Fails(c)

\* rows: the images with the one asked for; id: the one the container runs.
RunAtOnce(c, rows, id) ==
  LET n == call[c].op.to
  IN  /\ images' = rows
      /\ IF Exists(n)
         THEN ctrs' = ctrs /\ call' = [call EXCEPT ![c] = [call[c] EXCEPT !.at = "done", !.code = "error"]] /\ UNCHANGED mishaps
         ELSE /\ ctrs' = [ctrs EXCEPT ![n] = NewContainer(id, "running")]
              /\ Turns(c, [Did(c, "start") EXCEPT !.did = @ \cup {"create"}])
      /\ UNCHANGED <<engine, front, nets, vols, cache>>
NerdctlRun(c) ==
  LET t == call[c].op.ref
  IN  /\ On(c, "nerdctl", "run")
      /\ \E rows \in IF HasImage(t) THEN {images} ELSE Pulled(images, t) :
           RunAtOnce(c, rows, ResolveImage(rows, t).id)
\* The demo adds a missing image before it looks at the name.
DemoRun(c) ==
  LET rows == DemoRows(call[c].op.ref)
  IN  /\ On(c, "demo", "run")
      /\ IF rows # {} THEN RunAtOnce(c, images, images[First(rows)].id)
         ELSE RunAtOnce(c, NewBuild(call[c].op.ref), "built")
-----------------------------------------------------------------------------
(* Statistics.  The agent samples twice: the first batch gives the engine  *)
(* a CPU sample to compare with, the second is reported.                   *)

\* pickContainers: the running containers the call names.
Picked(c) == {n \in Ctrs : Running(n) /\ (call[c].op.ref = None \/ n = call[c].op.ref)}
StatsList(c) ==
  /\ call[c].at = "list"
  /\ IF Picked(c) = {} THEN Answer(c, IF call[c].op.ref = None THEN "ok" ELSE "not_found")
     ELSE Goes(c, [call[c] EXCEPT !.at = "batch", !.round = IF front = "agent" THEN 1 ELSE 2,
                                  !.todo = Picked(c), !.found = Picked(c)])

MayStartAlways(c) == call[c].op # None \* mutant
MayStart(c) == Cardinality(call[c].out) < MaxWorkers
StartWorker(c) ==
  /\ call[c].at = "batch" /\ engine = "docker" /\ MayStart(c)
  /\ \E n \in call[c].todo : Goes(c, [call[c] EXCEPT !.todo = @ \ {n}, !.out = @ \cup {n}])

\* containerStat: a container that cannot be read is left out of the batch.
Sample(c) ==
  /\ call[c].at = "batch"
  /\ \E n \in call[c].out :
       /\ call' = [call EXCEPT ![c] = [call[c] EXCEPT !.out = @ \ {n}, !.got = IF Running(n) THEN @ \cup {n} ELSE @]]
       /\ cache' = IF Running(n) THEN cache \cup {n} ELSE cache
  /\ UNCHANGED <<engine, front, engineVars, mishaps>>

\* Samples of containers that were not asked for are dropped.
Purged(c) == cache \cap call[c].found
BatchEnds(c) ==
  IF call[c].round = 2 THEN [call[c] EXCEPT !.at = "done", !.code = "ok"]
  ELSE [call[c] EXCEPT !.at = "window"]
EndBatch(c) ==
  /\ call[c].at = "batch" /\ engine = "docker"
  /\ call[c].todo = {} /\ call[c].out = {}
  /\ cache' = Purged(c)
  /\ call' = [call EXCEPT ![c] = BatchEnds(c)]
  /\ UNCHANGED <<engine, front, engineVars, mishaps>>

\* The others sample all at once: nerdctl and crictl by one command for every
\* running container, of which crictl's CPU counters are kept.  The demo's
\* samples are canned.
BatchAtOnce(c, seen, kept) ==
  /\ call[c].at = "batch" /\ cache' = kept
  /\ call' = [call EXCEPT ![c] = [BatchEnds(c) EXCEPT !.got = seen, !.todo = {}]]
  /\ UNCHANGED <<engine, front, engineVars, mishaps>>
NerdctlStats(c) == engine = "nerdctl" /\ BatchAtOnce(c, call[c].found \cap {n \in Ctrs : Running(n)}, cache)
CriStats(c) ==
  LET up == {n \in Ctrs : Running(n)} IN engine = "cri" /\ BatchAtOnce(c, call[c].found \cap up, cache \cup up)
DemoStats(c) == engine = "demo" /\ BatchAtOnce(c, call[c].found, cache)

\* The window between the batches, which the end of the call may cut short.
SleepCtx(c) ==
  /\ call[c].at = "window"
  /\ \/ Goes(c, [call[c] EXCEPT !.at = "batch", !.round = 2, !.todo = call[c].found, !.got = {}])
     \/ Fails(c)
-----------------------------------------------------------------------------
\* Other clients of the engine (the demo has none) come in between the steps
\* of the calls under way: they remove a container, or move a tag away.
UnderWay == {c \in Calls : call[c].at \notin {"idle", "done"}}
OtherClient ==
  /\ UnderWay # {} /\ Mishap
  /\ \/ /\ \E n \in {k \in Ctrs : Exists(k)} : ctrs' = Emptied({n})
        /\ UNCHANGED images
     \/ HasImage("cold") /\ images' = Untagged(images, "cold") /\ UNCHANGED ctrs
  /\ UNCHANGED <<engine, front, nets, vols, cache, call>>

ImageStep(c) ==
  \/ ImageTagOp(c) \/ ImageRmOp(c) \/ ImagePushOp(c) \/ ImageHistoryOp(c) \/ CheckBuildContext(c)
  \/ TagImage(c) \/ NerdctlTag(c) \/ DemoTag(c)
  \/ RemoveImage(c) \/ NerdctlRemove(c) \/ CriRemove(c) \/ DemoRemove(c)
  \/ PushImage(c) \/ NerdctlPush(c) \/ DemoPush(c) \/ ImageHistory(c) \/ DemoHistory(c)
  \/ PullImage(c) \/ NerdctlPull(c) \/ CriPull(c) \/ DemoPull(c)
  \/ BuildImage(c) \/ NerdctlBuild(c) \/ DemoBuild(c)
  \/ PruneImages(c) \/ NerdctlPruneImages(c) \/ CriPruneImages(c) \/ DemoPruneImages(c)
NetworkStep(c) ==
  \/ CheckNetworkCreate(c) \/ CreateNetwork(c) \/ NerdctlCreateNetwork(c) \/ DemoCreateNetwork(c) \/ NetworkCreated(c)
  \/ RemoveNetwork(c) \/ NerdctlRemoveNetwork(c) \/ DemoRemoveNetwork(c)
VolumeStep(c) ==
  \/ CheckVolumeCreate(c) \/ CreateVolume(c) \/ NerdctlCreateVolume(c) \/ DemoCreateVolume(c) \/ VolumeCreated(c)
  \/ RemoveVolume(c) \/ NerdctlRemoveVolume(c) \/ DemoRemoveVolume(c)
  \/ PruneVolumes(c) \/ NerdctlPruneVolumes(c) \/ DemoPruneVolumes(c)
ObjectStep(c) ==
  \/ ImageStep(c) \/ NetworkStep(c) \/ VolumeStep(c) \/ Confirmed(c) \/ Refused(c) \/ Unsupported(c)
  \/ PruneStage(c) \/ PruneStageFails(c) \/ NerdctlSystemPrune(c) \/ CriSystemPrune(c) \/ DemoSystemPrune(c)
  \/ CreateContainer(c) \/ PullForRun(c) \/ StartContainer(c) \/ NerdctlRun(c) \/ DemoRun(c) \/ CriRunContainer(c)
  \/ StatsList(c) \/ StartWorker(c) \/ Sample(c) \/ EndBatch(c) \/ SleepCtx(c)
  \/ NerdctlStats(c) \/ CriStats(c) \/ DemoStats(c)
-----------------------------------------------------------------------------
ObjectsTypeOK ==
  /\ engine \in Engines /\ front \in {"agent", "interface"}
  /\ \A i \in DOMAIN images : images[i].id \in Ids /\ images[i].tags \subseteq Tags
  /\ \A n \in Ctrs : ctrs[n].state \in States /\ ctrs[n].image \in Ids \cup {None}
  /\ nets \subseteq Nets /\ vols \subseteq Vols /\ cache \subseteq Ctrs
  /\ \A c \in Calls : call[c].code \in Codes /\ (call[c].at = "done" => call[c].code # "none")
=============================================================================
