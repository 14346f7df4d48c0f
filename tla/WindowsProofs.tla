---------------------------- MODULE WindowsProofs ----------------------------
(***************************************************************************)
(* Proofs about the windows (Windows.tla): what writes was admitted, what  *)
(* shows a spinner is waiting, and windows fit what they show.             *)
(***************************************************************************)
EXTENDS Windows, Facts, TLAPS

----------------------------------------------------------------------------
(* The tables. *)

\* Every command is in the table of its view, or global.
LEMMA CommandListed ==
  ASSUME NEW c \in AllCommands
  PROVE /\ c.view \in DOMAIN CommandTable
        /\ c.name \in UNION Range(CommandTable[c.view]) \/ c.name \in UNION Range(GlobalCommands)
  <1>1. ASSUME NEW v \in DOMAIN CommandTable, c \in [view : {v}, name : UNION Range(CommandTable[v])]
        PROVE c.view \in DOMAIN CommandTable /\ c.name \in UNION Range(CommandTable[c.view])
    BY <1>1
  <1>2. CASE c \in [view : {"containers"}, name : UNION Range(GlobalCommands)]
    <2>1. "containers" \in DOMAIN CommandTable
      BY DEF CommandTable
    <2> QED BY <1>2, <2>1
  <1>3. \/ \E v \in DOMAIN CommandTable : c \in [view : {v}, name : UNION Range(CommandTable[v])]
        \/ c \in [view : {"containers"}, name : UNION Range(GlobalCommands)]
    BY Zenon DEF AllCommands
  <1> QED BY <1>1, <1>2, <1>3

\* What a command does is what its table says (dispatchCommand).
LEMMA EffectListed ==
  ASSUME NEW c \in AllCommands
  PROVE Effect(c) \in DOMAIN TableOf(c) /\ c.name \in TableOf(c)[Effect(c)]
  <1>1. \E e \in DOMAIN TableOf(c) : c.name \in TableOf(c)[e]
    <2>1. c.name \in UNION Range(TableOf(c))
      BY CommandListed DEF TableOf
    <2> QED BY <2>1 DEF Range
  <1> QED BY <1>1 DEF Effect

\* The effects that write, or open a window whose keys do.
Writing == {"act", "stream", "session", "pulling", "edit", "create", "confirm"} \union Forms

\* The effects there are.
LEMMA EffectsKnown ==
  ASSUME NEW c \in AllCommands
  PROVE Effect(c) \in Writing \union Pickers \union {"show", "backups"}
  <1> USE DEF Writing, Forms, BusyForms, CreateForms, ConsoleForms, Pickers
  <1>1. c.view \in {"containers", "images", "networks", "volumes", "compose"}
    BY CommandListed DEF CommandTable
  <1>2. Effect(c) \in DOMAIN TableOf(c)
    BY EffectListed
  <1>3. TableOf(c) \in {GlobalCommands, ContainerCommands, ImageCommands,
                       ObjectCommands.networks, ObjectCommands.volumes, ComposeCommands}
    BY <1>1 DEF TableOf, CommandTable
  <1>4. DOMAIN GlobalCommands = {"show", "theme", "lang", "confirm"}
    BY DEF GlobalCommands
  <1>5. DOMAIN ContainerCommands = {"act", "show", "session", "cp", "run"}
    BY DEF ContainerCommands
  <1>6. DOMAIN ImageCommands = {"act", "show", "pull", "pulling", "push", "run", "exec", "build",
                               "stream"}
    BY DEF ImageCommands
  <1>7. DOMAIN ObjectCommands.networks = {"act", "net"} /\ DOMAIN ObjectCommands.volumes = {"act", "vol"}
    BY DEF ObjectCommands
  <1>8. DOMAIN ComposeCommands = {"act", "stream", "show", "backups", "edit", "create"}
    BY DEF ComposeCommands
  <1> HIDE DEF Writing, Forms, BusyForms, CreateForms, ConsoleForms, Pickers
  <1>9. {"act", "show", "session", "cp", "run", "pull", "pulling", "push", "exec", "build", "stream",
         "net", "vol", "backups", "edit", "create", "theme", "lang", "confirm"}
          \subseteq Writing \union Pickers \union {"show", "backups"}
    BY DEF Writing, Forms, BusyForms, CreateForms, ConsoleForms, Pickers
  <1> QED BY <1>2, <1>3, <1>4, <1>5, <1>6, <1>7, <1>8, <1>9

\* The command tables and mutatingCmds agree: a command that may come to write is
\* one that read-only mode refuses.
LEMMA WritersMutate ==
  ASSUME NEW c \in AllCommands, Effect(c) \in Writing
  PROVE IsMutating(c)
  <1> USE DEF Writing, Forms, BusyForms, CreateForms, ConsoleForms
  <1>1. c.view \in {"containers", "images", "networks", "volumes", "compose"}
    BY CommandListed DEF CommandTable
  <1>e. Effect(c) \in DOMAIN TableOf(c) /\ c.name \in TableOf(c)[Effect(c)]
    BY EffectListed
  <1>2. CASE TableOf(c) = GlobalCommands
    <2>1. DOMAIN GlobalCommands = {"show", "theme", "lang", "confirm"}
      BY DEF GlobalCommands
    <2>2. Effect(c) = "confirm"
      BY <1>2, <1>e, <2>1
    <2>3. c.name = "system_prune"
      BY <1>2, <1>e, <2>2 DEF GlobalCommands
    <2> QED BY <2>3 DEF IsMutating
  <1>3. CASE TableOf(c) = CommandTable[c.view]
    <2>1. CASE c.view = "containers"
      <3>1. TableOf(c) = ContainerCommands
        BY <1>3, <2>1 DEF CommandTable
      <3>2. DOMAIN ContainerCommands = {"act", "show", "session", "cp", "run"}
        BY DEF ContainerCommands
      <3>3. Effect(c) \in {"act", "show", "session", "cp", "run"} /\ c.name \in ContainerCommands[Effect(c)]
        BY <1>e, <3>1, <3>2
      <3> QED BY <2>1, <3>3 DEF ContainerCommands, IsMutating, Mutating
    <2>2. CASE c.view = "images"
      <3>1. TableOf(c) = ImageCommands
        BY <1>3, <2>2 DEF CommandTable
      <3>2. DOMAIN ImageCommands = {"act", "show", "pull", "pulling", "push", "run", "exec", "build", "stream"}
        BY DEF ImageCommands
      <3>3. Effect(c) \in {"act", "show", "pull", "pulling", "push", "run", "exec", "build", "stream"} /\ c.name \in ImageCommands[Effect(c)]
        BY <1>e, <3>1, <3>2
      <3> QED BY <2>2, <3>3 DEF ImageCommands, IsMutating, Mutating
    <2>3. CASE c.view = "networks"
      <3>1. TableOf(c) = ObjectCommands.networks
        BY <1>3, <2>3 DEF CommandTable
      <3>2. DOMAIN ObjectCommands.networks = {"act", "net"}
        BY DEF ObjectCommands
      <3>3. Effect(c) \in {"act", "net"} /\ c.name \in ObjectCommands.networks[Effect(c)]
        BY <1>e, <3>1, <3>2
      <3> QED BY <2>3, <3>3 DEF ObjectCommands, IsMutating, Mutating
    <2>4. CASE c.view = "volumes"
      <3>1. TableOf(c) = ObjectCommands.volumes
        BY <1>3, <2>4 DEF CommandTable
      <3>2. DOMAIN ObjectCommands.volumes = {"act", "vol"}
        BY DEF ObjectCommands
      <3>3. Effect(c) \in {"act", "vol"} /\ c.name \in ObjectCommands.volumes[Effect(c)]
        BY <1>e, <3>1, <3>2
      <3> QED BY <2>4, <3>3 DEF ObjectCommands, IsMutating, Mutating
    <2>5. CASE c.view = "compose"
      <3>1. TableOf(c) = ComposeCommands
        BY <1>3, <2>5 DEF CommandTable
      <3>2. DOMAIN ComposeCommands = {"act", "stream", "show", "backups", "edit", "create"}
        BY DEF ComposeCommands
      <3>3. Effect(c) \in {"act", "stream", "show", "backups", "edit", "create"} /\ c.name \in ComposeCommands[Effect(c)]
        BY <1>e, <3>1, <3>2
      <3> QED BY <2>5, <3>3 DEF ComposeCommands, IsMutating, Mutating
    <2> QED BY <1>1, <2>1, <2>2, <2>3, <2>4, <2>5
  <1> QED BY <1>2, <1>3 DEF TableOf

\* A command given on a read-only host has no writing effect (guardCommand).
LEMMA AdmittedWriters ==
  ASSUME NEW c \in Commands, Admitted(c), Effect(c) \in Writing
  PROVE ~ReadOnly(backend)
  BY CommandsAssumption, WritersMutate DEF Admitted

----------------------------------------------------------------------------
(* What writes was admitted. *)

\* The windows whose keys write, and the messages that open them.
WritingModes == Forms \union {"edit", "create"}
WritingPosts == WritingModes \union {"pulling", "confirm"}

\* Who admitted a window, a message and a question: a host that may be changed.
WindowInv ==
  /\ mode \in WritingModes => ~ReadOnly(from)
  /\ \A p \in posts : p.opens \in WritingPosts => ~ReadOnly(p.from)
  /\ confirm # None => ~ReadOnly(confirm.from)
  /\ mode = "confirm" => ~ReadOnly(confirm.from)

CallInv == \A c \in calls : ~ReadOnly(c.from)

\* Nothing is under way at the start.
LEMMA InitAdmitted == Init => WindowInv /\ CallInv
  BY DEF Init, WindowInv, CallInv, WritingModes, Forms, BusyForms, CreateForms, ConsoleForms

\* A call keeps the host that admitted it.
LEMMA CalledAdmitted ==
  ASSUME CallInv, NEW c, Called(c), ~ReadOnly(c.from)
  PROVE CallInv'
  <1>1. Numbered(c).from = c.from
    BY DEF Numbered
  <1>2. \A d \in calls' : d \in calls \/ d = Numbered(c)
    BY DEF Called
  <1>3. \A d \in calls' : ~ReadOnly(d.from)
    BY <1>1, <1>2 DEF CallInv
  <1> QED BY <1>3 DEF CallInv, ReadOnly

\* So does one started on the host in use.
LEMMA StartedAdmitted ==
  ASSUME CallInv, NEW d, NEW f, NEW o, Started(d, f, o), ~ReadOnly(f)
  PROVE CallInv'
  BY CalledAdmitted DEF Started, Doing

\* Every message, key and result keeps that.
LEMMA StepAdmitted == WindowInv /\ CallInv /\ [Next]_vars => WindowInv' /\ CallInv'
  <1> SUFFICES ASSUME WindowInv, CallInv, [Next]_vars PROVE WindowInv' /\ CallInv'
    OBVIOUS
  <1> USE WindowsAssumption
  <1> USE DEF windowVars, catalogVars, pickerVars, ReadOnly
  <1>r. {"logs", "shell", "normal", "confirm", "backups", "theme", "lang"} \intersect WritingModes = {}
    BY DEF WritingModes, Forms, BusyForms, CreateForms, ConsoleForms
  <1>f. Forms \subseteq WritingModes /\ BusyForms \union CreateForms \union ConsoleForms \subseteq Forms
        /\ "exec" \in Forms /\ "pull" \in WritingModes /\ WritingModes \subseteq WritingPosts
        /\ {"pulling", "confirm"} \subseteq WritingPosts
        /\ "edit" \in WritingModes /\ "create" \in WritingModes
    BY DEF WritingPosts, WritingModes, Forms, BusyForms, CreateForms, ConsoleForms
  <1>g. WritingPosts \subseteq Writing /\ {"act", "stream", "session"} \subseteq Writing
    BY DEF WritingPosts, WritingModes, Writing
  <1>c. ASSUME UNCHANGED <<calls>> PROVE CallInv'
    BY <1>c DEF CallInv
  <1>0. CASE UNCHANGED vars
    BY <1>0 DEF vars, WindowInv, CallInv
  <1>1. ASSUME NEW c \in Commands, Command(c) PROVE WindowInv' /\ CallInv'
    <2>1. Effect(c) \in Writing => ~ReadOnly(backend)
      BY <1>1, AdmittedWriters DEF Command
    <2>2. UNCHANGED <<mode, from, confirm>>
      BY <1>1 DEF Command
    <2>3. CASE Effect(c) \in {"act", "stream", "session"}
      <3>1. Started(Effect(c), backend, None) /\ UNCHANGED posts
        BY <1>1, <2>3 DEF Command
      <3>2. CallInv'
        BY <2>1, <2>3, <3>1, <1>g, StartedAdmitted
      <3> QED BY <2>2, <3>1, <3>2 DEF WindowInv
    <2>4. CASE Effect(c) \notin {"act", "stream", "session"}
      <3>1. UNCHANGED calls
        BY <1>1, <2>4 DEF Command
      <3>2. \A p \in posts' : p \in posts \/ (p.from = backend /\ p.opens \in {Effect(c), "logs", "backups"})
        <4>1. CASE Effect(c) = "show"
          BY <1>1, <4>1 DEF Command, Post, Opener
        <4>2. CASE Effect(c) = "backups"
          BY <1>1, <4>2 DEF Command, Post, Opener
        <4>3. CASE Effect(c) \notin {"show", "backups"}
          BY <1>1, <2>4, <4>3 DEF Command, Post, Opener
        <4> QED BY <4>1, <4>2, <4>3
      <3>3. "logs" \notin WritingPosts /\ "backups" \notin WritingPosts
        BY <1>r DEF WritingPosts
      <3>4. \A p \in posts' : p.opens \in WritingPosts => ~ReadOnly(p.from)
        BY <2>1, <3>2, <3>3, <1>g DEF WindowInv
      <3> QED BY <2>2, <3>1, <3>4, <1>c DEF WindowInv
    <2> QED BY <2>3, <2>4
  <1>2. CASE RemoveImagesKey
    <2>1. \A p \in posts' : p \in posts \/ (p.from = backend)
      BY <1>2 DEF RemoveImagesKey, Post, Opener
    <2>2. ~ReadOnly(backend) /\ UNCHANGED <<mode, from, confirm, calls>>
      BY <1>2 DEF RemoveImagesKey
    <2> QED BY <2>1, <2>2, <1>c DEF WindowInv
  <1>3. ASSUME NEW p \in posts, OpenForm(p) \/ OpenView(p) PROVE WindowInv' /\ CallInv'
    <2>1. /\ mode' = p.opens /\ from' = p.from /\ posts' = posts \ {p}
          /\ UNCHANGED <<confirm, calls>> /\ p.opens \in Forms \union {"edit", "create", "logs"}
      BY <1>3 DEF OpenForm, OpenView, Shows
    <2>2. mode' # "confirm"
      BY <2>1, <1>r, <1>f
    <2>3. mode' \in WritingModes => ~ReadOnly(from')
      BY <2>1, <1>f DEF WindowInv
    <2> QED BY <2>1, <2>2, <2>3, <1>c DEF WindowInv
  <1>4. ASSUME NEW p \in posts, OpenPulling(p) PROVE WindowInv' /\ CallInv'
    <2>1. /\ mode' = "pull" /\ from' = p.from /\ posts' = posts \ {p} /\ UNCHANGED confirm
          /\ p.opens = "pulling" /\ Started("pull", p.from, None)
      BY <1>4 DEF OpenPulling, Shows
    <2>2. ~ReadOnly(p.from)
      BY <2>1, <1>f DEF WindowInv
    <2>3. CallInv'
      BY <2>1, <2>2, StartedAdmitted
    <2> QED BY <2>1, <2>2, <2>3 DEF WindowInv
  <1>5. ASSUME NEW p \in posts, OpenConfirm(p) PROVE WindowInv' /\ CallInv'
    <2>1. /\ mode' = "confirm" /\ posts' = posts \ {p} /\ UNCHANGED calls
          /\ p.opens = "confirm" /\ confirm' = Doing("act", p.host, p.from, None)
      BY <1>5 DEF OpenConfirm, Shows
    <2>2. ~ReadOnly(p.from)
      BY <2>1, <1>f DEF WindowInv
    <2>3. ~ReadOnly(confirm'.from)
      BY <2>1, <2>2 DEF Doing
    <2>4. mode' \notin WritingModes
      BY <2>1, <1>r
    <2>5. \A q \in posts' : q.opens \in WritingPosts => ~ReadOnly(q.from)
      BY <2>1 DEF WindowInv
    <2>6. CallInv'
      BY <2>1, <1>c
    <2>7. WindowInv'
      BY <2>3, <2>4, <2>5 DEF WindowInv
    <2> QED BY <2>6, <2>7
  <1>6. ASSUME NEW p \in posts, ReadCatalog(p) PROVE WindowInv' /\ CallInv'
    <2>1. PICK found : \A q \in posts' : q \in posts \/ q = [p EXCEPT !.read = TRUE, !.items = found]
      BY <1>6 DEF ReadCatalog
    <2>2. UNCHANGED <<mode, from, confirm, calls>>
      BY <1>6 DEF ReadCatalog
    <2>3. LET q == [p EXCEPT !.read = TRUE, !.items = found]
          IN q.opens = p.opens /\ q.from = p.from
      OBVIOUS
    <2> QED BY <2>1, <2>2, <2>3, <1>c DEF WindowInv
  <1>7. ASSUME NEW p \in posts, OpenBackups(p) \/ OpenPicker(p) PROVE WindowInv' /\ CallInv'
    <2>1. mode' \in {"normal", "backups"} \union Pickers /\ posts' = posts \ {p} /\ UNCHANGED <<confirm, calls>>
      BY <1>7 DEF OpenBackups, OpenPicker, Shows
    <2>2. mode' \notin WritingModes /\ mode' # "confirm"
      BY <2>1, <1>r DEF Pickers
    <2> QED BY <2>1, <2>2, <1>c DEF WindowInv
  <1>8. CASE Submit \/ SubmitCreate \/ SubmitConsole \/ SubmitExec \/ CreateFile \/ SaveFile
    <2>1. mode \in WritingModes /\ UNCHANGED <<from, confirm, posts>> /\ mode' \in {mode, "normal"}
      BY <1>8, <1>f DEF Submit, SubmitCreate, SubmitConsole, SubmitExec, CreateFile, SaveFile
    <2>2. \E d, o : Started(d, from, o)
      BY <1>8 DEF Submit, SubmitCreate, SubmitConsole, SubmitExec, CreateFile, SaveFile
    <2>3. ~ReadOnly(from)
      BY <2>1 DEF WindowInv
    <2>4. CallInv'
      BY <2>2, <2>3, StartedAdmitted
    <2>5. mode' # "confirm"
      BY <2>1, <1>r
    <2> QED BY <2>1, <2>3, <2>4, <2>5 DEF WindowInv
  <1>9. CASE Confirm
    <2>1. /\ mode = "confirm" /\ mode' = "normal" /\ confirm' = None /\ Called(confirm)
          /\ UNCHANGED <<from, posts>>
      BY <1>9 DEF Confirm
    <2>2. ~ReadOnly(confirm.from)
      BY <2>1 DEF WindowInv
    <2>3. CallInv'
      BY <2>1, <2>2, CalledAdmitted
    <2> QED BY <2>1, <2>3, <1>r DEF WindowInv
  <1>10. CASE Esc \/ CloseShell \/ Choose \/ Connected
    <2>1. mode' = "normal" /\ confirm' \in {confirm, None} /\ UNCHANGED <<from, posts, calls>>
      BY <1>10 DEF Esc, CloseShell, Choose, Connected
    <2> QED BY <2>1, <1>r, <1>c DEF WindowInv
  <1>11. CASE MovePicker \/ MoveBackup \/ ArmBackup \/ LoseArchive
    <2>1. UNCHANGED <<mode, confirm, from, posts, calls>>
      BY <1>11 DEF MovePicker, MoveBackup, ArmBackup, LoseArchive
    <2> QED BY <2>1, <1>c DEF WindowInv
  <1>12. CASE Restore
    <2>1. mode = "backups" /\ mode' \in {mode, "normal"} /\ UNCHANGED <<confirm, from, posts>>
      BY <1>12 DEF Restore
    <2>2. CASE UNCHANGED calls
      BY <2>1, <2>2, <1>r, <1>c DEF WindowInv
    <2>3. CASE ~ReadOnly(backend) /\ Started("stream", backend, None)
      <3>1. CallInv'
        BY <2>3, StartedAdmitted
      <3> QED BY <2>1, <3>1, <1>r DEF WindowInv
    <2> QED BY <1>12, <2>2, <2>3 DEF Restore
  <1>13. CASE DeleteBackup
    <2>1. mode = "backups" /\ mode' \in {mode, "normal"} /\ UNCHANGED <<confirm, from, calls>>
      BY <1>13 DEF DeleteBackup
    <2>2. \A p \in posts' : p \in posts \/ p.opens = "backups"
      BY <1>13 DEF DeleteBackup, Post, Opener
    <2>3. "backups" \notin WritingPosts
      BY <1>r DEF WritingPosts
    <2> QED BY <2>1, <2>2, <2>3, <1>r, <1>c DEF WindowInv
  <1>14. ASSUME NEW c \in calls,
                ActionSucceeds(c) \/ ActionFails(c) \/ StreamStarts(c) \/ CallFails(c)
         PROVE WindowInv' /\ CallInv'
    <2>1. mode' \in {mode, "normal", "logs", "shell"} /\ UNCHANGED <<from, confirm, posts>>
      BY <1>14 DEF ActionSucceeds, ActionFails, StreamStarts, CallFails, ResultFrame
    <2>2. calls' \subseteq calls
      BY <1>14 DEF ActionSucceeds, ActionFails, StreamStarts, CallFails, Ends
    <2>3. CallInv'
      BY <2>2 DEF CallInv
    <2> QED BY <2>1, <2>3, <1>r DEF WindowInv
  <1> QED BY <1>0, <1>1, <1>2, <1>3, <1>4, <1>5, <1>6, <1>7, <1>8, <1>9, <1>10, <1>11,
             <1>12, <1>13, <1>14 DEF Next, User

\* Whatever writes on a host descends, through windows, forms and questions, from
\* a command that the read-only rule admitted (guardCommand, mutatingKeyOp).
THEOREM WritesAdmitted == Spec => []WritesWereAdmitted
  <1>1. WindowInv /\ CallInv => WritesWereAdmitted
    BY DEF WindowInv, CallInv, WritesWereAdmitted
  <1> QED BY <1>1, InitAdmitted, StepAdmitted, PTL DEF Spec

----------------------------------------------------------------------------
(* What waits. *)

BusyInv == BusyIsWaiting /\ busy \subseteq BusyForms

\* A call that starts is under way, besides those that were.
LEMMA CalledWaits ==
  ASSUME NEW c, Called(c)
  PROVE calls \subseteq calls' /\ \E d \in calls' : d.does = c.does
  <1>1. Numbered(c).does = c.does
    BY DEF Numbered
  <1>2. calls' = calls \union {Numbered(c)}
    BY DEF Called
  <1> QED BY <1>1, <1>2

\* So is one started on the host in use.
LEMMA StartedWaits ==
  ASSUME NEW d, NEW f, NEW o, Started(d, f, o)
  PROVE calls \subseteq calls' /\ \E c \in calls' : c.does = d
  BY CalledWaits DEF Started, Doing

\* Every step that leaves or makes a form busy leaves a call for it.
LEMMA StepBusy == BusyInv /\ [Next]_vars => BusyInv'
  <1> SUFFICES ASSUME BusyInv, [Next]_vars PROVE BusyInv'
    OBVIOUS
  <1> USE DEF windowVars, catalogVars, pickerVars
  <1>k. ASSUME UNCHANGED <<mode, busy>>, calls \subseteq calls' PROVE BusyInv'
    BY <1>k DEF BusyInv, BusyIsWaiting
  <1>n. ASSUME mode' \notin BusyForms, busy' \subseteq busy PROVE BusyInv'
    BY <1>n DEF BusyInv, BusyIsWaiting
  <1>b. {"normal", "logs", "shell", "confirm", "backups", "edit", "create", "theme", "lang"}
          \intersect BusyForms = {}
    BY DEF BusyForms
  <1>0. CASE UNCHANGED vars
    BY <1>0, <1>k DEF vars
  <1>1. ASSUME NEW c \in Commands, Command(c) PROVE BusyInv'
    <2>1. calls \subseteq calls'
      <3>1. CASE Effect(c) \in {"act", "stream", "session"}
        BY <1>1, <3>1, StartedWaits DEF Command
      <3>2. CASE Effect(c) \notin {"act", "stream", "session"}
        BY <1>1, <3>2 DEF Command
      <3> QED BY <3>1, <3>2
    <2> QED BY <1>1, <2>1, <1>k DEF Command
  <1>2. CASE RemoveImagesKey
    BY <1>2, <1>k DEF RemoveImagesKey
  <1>3. ASSUME NEW p \in posts, OpenForm(p) PROVE BusyInv'
    BY <1>3 DEF OpenForm, Shows, BusyInv, BusyIsWaiting
  <1>4. ASSUME NEW p \in posts, OpenPulling(p) PROVE BusyInv'
    BY <1>4, StartedWaits DEF OpenPulling, Shows, BusyInv, BusyIsWaiting, BusyForms
  <1>5. ASSUME NEW p \in posts, OpenView(p) \/ OpenConfirm(p) \/ OpenBackups(p) \/ OpenPicker(p)
        PROVE BusyInv'
    <2>1. mode' \in {"normal", "edit", "create", "logs", "confirm", "backups", "theme", "lang"} /\ UNCHANGED busy
      BY <1>5 DEF OpenView, OpenConfirm, OpenBackups, OpenPicker, Pickers, Shows
    <2> QED BY <2>1, <1>b, <1>n
  <1>6. ASSUME NEW p \in posts, ReadCatalog(p) PROVE BusyInv'
    BY <1>6, <1>k DEF ReadCatalog
  <1>7. CASE Submit
    <2>1. Started(mode, from, None) /\ mode \in BusyForms /\ busy' = busy \union {mode} /\ UNCHANGED mode
      BY <1>7 DEF Submit
    <2>2. \E d \in calls' : d.does = mode
      BY <2>1, StartedWaits
    <2> QED BY <2>1, <2>2 DEF BusyInv, BusyIsWaiting
  <1>8. CASE SubmitCreate \/ SubmitExec \/ CreateFile \/ SaveFile
    <2>1. \E d, o : Started(d, from, o)
      BY <1>8 DEF SubmitCreate, SubmitExec, CreateFile, SaveFile
    <2>2. calls \subseteq calls'
      BY <2>1, StartedWaits
    <2> QED BY <1>8, <2>2, <1>k DEF SubmitCreate, SubmitExec, CreateFile, SaveFile
  <1>9. CASE SubmitConsole \/ Confirm \/ Esc \/ CloseShell \/ Choose \/ Connected
    <2>1. mode' = "normal" /\ UNCHANGED busy
      BY <1>9 DEF SubmitConsole, Confirm, Esc, CloseShell, Choose, Connected
    <2> QED BY <2>1, <1>b, <1>n
  <1>10. CASE MovePicker \/ MoveBackup \/ ArmBackup \/ LoseArchive
    BY <1>10, <1>k DEF MovePicker, MoveBackup, ArmBackup, LoseArchive
  <1>11. CASE Restore \/ DeleteBackup
    <2>1. mode' \in {"backups", "normal"} /\ UNCHANGED busy
      BY <1>11 DEF Restore, DeleteBackup
    <2> QED BY <2>1, <1>b, <1>n
  <1>12. ASSUME NEW c \in calls, ActionSucceeds(c) PROVE BusyInv'
    BY <1>12, <1>b, <1>n DEF ActionSucceeds
  <1>13. ASSUME NEW c \in calls, ActionFails(c) PROVE BusyInv'
    BY <1>13 DEF ActionFails, Freed, BusyInv, BusyIsWaiting
  <1>14. ASSUME NEW c \in calls, StreamStarts(c) PROVE BusyInv'
    BY <1>14, <1>b, <1>n DEF StreamStarts
  <1>15. ASSUME NEW c \in calls, CallFails(c) PROVE BusyInv'
    <2>1. c.does \in {"stream", "session", "save"} /\ calls' = calls \ {c} /\ UNCHANGED <<busy, mode>>
      BY <1>15 DEF CallFails, Ends
    <2>2. c.does \notin BusyForms
      BY <2>1 DEF BusyForms
    <2> QED BY <2>1, <2>2 DEF BusyInv, BusyIsWaiting
  <1> QED BY <1>0, <1>1, <1>2, <1>3, <1>4, <1>5, <1>6, <1>7, <1>8, <1>9, <1>10, <1>11,
             <1>12, <1>13, <1>14, <1>15 DEF Next, User

\* A form that shows its spinner has a call under way whose result ends it
\* (Busy, SetError, actionResultMsg).
THEOREM SpinnersEnd == Spec => []BusyIsWaiting
  <1>1. Init => BusyInv
    BY DEF Init, BusyInv, BusyIsWaiting
  <1>2. BusyInv => BusyIsWaiting
    BY DEF BusyInv
  <1> QED BY <1>1, <1>2, StepBusy, PTL DEF Spec

----------------------------------------------------------------------------
(* What windows show. *)

Deployments == {a.project : a \in Archives} \union {None}

\* The messages that open windows, and the calls under way.
PostSet == [opens : Writing \union Pickers \union {"logs", "backups"}, from : Hosts,
            project : Deployments, items : Seq(Archives), host : Hosts, read : BOOLEAN]
CallSet == [does : Writes, host : Hosts, from : Hosts, of : Hosts \union {None},
            n : 1..(MaxCalls + 1)]

OfProject(s, p) == \A i \in DOMAIN s : s[i].project = p

\* The conjuncts of WindowsRight with what they rest on, one for each part of the
\* state: the calls are few enough for the next to find a number of its own, a
\* catalog on its way is of its deployment, and a window whose keys write knows
\* who admitted it.
PlaceInv == /\ backend \in Hosts /\ mode \in Modes
            /\ {from, of} \subseteq Hosts \union {None}
            /\ mode \in WritingModes => from \in Hosts
            /\ busy \subseteq BusyForms
AskInv   == /\ confirm \in Questions \union {None}
            /\ mode = "confirm" => confirm # None
PostInv  == /\ posts \subseteq PostSet
            /\ \A p \in posts : /\ p.read => OfProject(p.items, p.project)
                                /\ ~p.read => p.opens = "backups"
CallsInv == /\ calls \subseteq CallSet
            /\ IsFiniteSet(calls) /\ Cardinality(calls) <= MaxCalls
ShelfInv == /\ disk \subseteq Archives /\ items \in Seq(Archives)
            /\ project \in Deployments /\ cursor \in Nat \ {0}
            /\ mode = "backups" => /\ cursor \in DOMAIN items
                                   /\ armed \in {None, items[cursor]}
                                   /\ OfProject(items, project)
PickInv  == /\ applied \in [Pickers -> 1..Themes] /\ original \in [Pickers -> 1..Themes]
            /\ row \in [Pickers -> 1..Themes]
            /\ mode \in Pickers => applied[mode] = row[mode]

FitInv == PlaceInv /\ AskInv /\ PostInv /\ CallsInv /\ ShelfInv /\ PickInv

LEMMA FitSuffices == FitInv => WindowsRight
  BY DEF FitInv, PlaceInv, AskInv, PostInv, CallsInv, ShelfInv, PickInv, CallSet,
         WindowsRight, TypeOK, WindowsFit, OfProject

LEMMA FitInit == Init => FitInv
  <1> SUFFICES ASSUME Init PROVE FitInv
    OBVIOUS
  <1> USE WindowsAssumption, NoneAssumption DEF Init
  <1>1. PlaceInv
    BY DEF PlaceInv, Modes, WritingModes, Forms, BusyForms, CreateForms, ConsoleForms
  <1>2. AskInv
    BY DEF AskInv
  <1>3. PostInv
    BY DEF PostInv
  <1>4. CallsInv
    BY FS_EmptySet DEF CallsInv
  <1>5. ShelfInv
    BY DEF ShelfInv, Deployments
  <1>6. PickInv
    BY DEF PickInv, Pickers
  <1> QED BY <1>1, <1>2, <1>3, <1>4, <1>5, <1>6 DEF FitInv

\* A new call finds a number that no other has.
LEMMA NumberLeft ==
  ASSUME CallsInv
  PROVE \E n \in 1..(MaxCalls + 1) : \A d \in calls : d.n # n
  <1> USE WindowsAssumption
  <1> DEFINE N == {n \in 1..(MaxCalls + 1) : \E d \in calls : d.n = n}
             f == [d \in calls |-> d.n]
  <1>1. \A d \in calls : d.n \in 1..(MaxCalls + 1)
    BY DEF CallsInv, CallSet
  <1>2. f \in [calls -> N]
    BY <1>1
  <1>3. \A n \in N : \E d \in calls : f[d] = n
    OBVIOUS
  <1>4. f \in Surjection(calls, N)
    BY <1>2, <1>3, Fun_IsSurj
  <1>5. IsFiniteSet(N) /\ Cardinality(N) <= Cardinality(calls)
    BY <1>4, FS_Surjection DEF CallsInv
  <1>6. IsFiniteSet(1..(MaxCalls + 1)) /\ Cardinality(1..(MaxCalls + 1)) = MaxCalls + 1
    BY FS_Interval
  <1>7. Cardinality(N) \in Nat /\ Cardinality(calls) \in Nat
    BY <1>5, FS_CardinalityType DEF CallsInv
  <1>8. N # 1..(MaxCalls + 1)
    <2>1. Cardinality(calls) <= MaxCalls
      BY DEF CallsInv
    <2> HIDE DEF N
    <2> QED BY <1>5, <1>6, <1>7, <2>1
  <1> QED BY <1>8

\* So the calls under way stay typed and few.
LEMMA CalledFits ==
  ASSUME CallsInv, NEW c, Called(c),
         c.does \in Writes, c.host \in Hosts, c.from \in Hosts, c.of \in Hosts \union {None}
  PROVE CallsInv'
  <1> DEFINE new == Numbered(c)
  <1>1. (CHOOSE n \in 1..(MaxCalls + 1) : \A d \in calls : d.n # n) \in 1..(MaxCalls + 1)
    BY NumberLeft
  <1>2. new \in CallSet
    BY <1>1 DEF Numbered, CallSet
  <1>3. calls' = calls \union {new} /\ Cardinality(calls') <= MaxCalls
    BY DEF Called
  <1>4. IsFiniteSet(calls')
    BY <1>3, FS_AddElement DEF CallsInv
  <1>5. calls' \subseteq CallSet
    BY <1>2, <1>3 DEF CallsInv
  <1> QED BY <1>3, <1>4, <1>5 DEF CallsInv, CallSet

LEMMA StartedFits ==
  ASSUME CallsInv, backend \in Hosts, NEW d \in Writes, NEW f \in Hosts,
         NEW o \in Hosts \union {None}, Started(d, f, o)
  PROVE CallsInv'
  BY CalledFits DEF Started, Doing

LEMMA EndsFits ==
  ASSUME CallsInv, calls' \subseteq calls
  PROVE CallsInv'
  <1>1. IsFiniteSet(calls') /\ Cardinality(calls') <= Cardinality(calls)
    BY FS_Subset DEF CallsInv
  <1>2. Cardinality(calls') \in Nat /\ Cardinality(calls) \in Nat
    BY <1>1, FS_CardinalityType DEF CallsInv
  <1> QED BY <1>1, <1>2, WindowsAssumption DEF CallsInv, CallSet

\* Every call that starts is of a host that is known.
LEMMA CallsStep ==
  ASSUME FitInv, [Next]_vars
  PROVE CallsInv'
  <1> USE DEF windowVars, catalogVars, pickerVars
  <1>a. CallsInv /\ backend \in Hosts /\ None \in Hosts \union {None}
    BY DEF FitInv, PlaceInv
  <1>w. {"act", "stream", "session", "save", "pull"} \union BusyForms \union CreateForms \subseteq Writes
    BY DEF Writes, BusyForms
  <1>m. BusyForms \union CreateForms \union ConsoleForms \union {"exec", "create", "edit"} \subseteq WritingModes
    BY DEF WritingModes, Forms
  <1>0. CASE calls' \subseteq calls
    BY <1>0, <1>a, EndsFits
  <1>1. ASSUME NEW c \in Commands, Command(c) PROVE CallsInv'
    <2>1. CASE Effect(c) \in {"act", "stream", "session"}
      <3>1. Started(Effect(c), backend, None)
        BY <1>1, <2>1 DEF Command
      <3> QED BY <3>1, <2>1, <1>a, <1>w, StartedFits
    <2>2. CASE Effect(c) \notin {"act", "stream", "session"}
      <3>1. UNCHANGED calls
        BY <1>1, <2>2 DEF Command
      <3> QED BY <3>1, <1>0
    <2> QED BY <2>1, <2>2
  <1>2. ASSUME NEW p \in posts, OpenPulling(p) PROVE CallsInv'
    <2>1. p.from \in Hosts
      BY DEF FitInv, PostInv, PostSet
    <2>2. Started("pull", p.from, None)
      BY <1>2 DEF OpenPulling
    <2> QED BY <2>1, <2>2, <1>a, <1>w, StartedFits
  <1>3. ASSUME NEW d \in Writes, NEW o \in {None, of}, mode \in WritingModes, Started(d, from, o)
        PROVE CallsInv'
    <2>1. from \in Hosts /\ o \in Hosts \union {None}
      BY <1>3 DEF FitInv, PlaceInv
    <2> QED BY <1>3, <2>1, <1>a, StartedFits
  <1>4. CASE Submit
    BY <1>4, <1>3, <1>m, <1>w DEF Submit
  <1>5. CASE SubmitCreate
    BY <1>5, <1>3, <1>m, <1>w DEF SubmitCreate
  <1>6. CASE SubmitConsole \/ SubmitExec \/ CreateFile \/ SaveFile
    BY <1>6, <1>3, <1>m, <1>w DEF SubmitConsole, SubmitExec, CreateFile, SaveFile
  <1>7. CASE Confirm
    <2>1. confirm \in Questions /\ Called(confirm)
      BY <1>7 DEF Confirm, FitInv, AskInv
    <2> QED BY <2>1, <1>a, <1>w, CalledFits DEF Questions
  <1>8. CASE Restore
    BY <1>8, <1>0, <1>a, <1>w, StartedFits DEF Restore
  <1>9. CASE RemoveImagesKey \/ Esc \/ CloseShell \/ MovePicker \/ Choose \/ MoveBackup
             \/ ArmBackup \/ DeleteBackup \/ Connected \/ LoseArchive \/ UNCHANGED vars
    BY <1>9, <1>0 DEF RemoveImagesKey, Esc, CloseShell, MovePicker, Choose, MoveBackup,
                     ArmBackup, DeleteBackup, Connected, LoseArchive, vars
  <1>10. ASSUME NEW p \in posts, OpenForm(p) \/ OpenView(p) \/ OpenConfirm(p)
                                \/ ReadCatalog(p) \/ OpenBackups(p) \/ OpenPicker(p)
         PROVE CallsInv'
    BY <1>10, <1>0 DEF OpenForm, OpenView, OpenConfirm, ReadCatalog, OpenBackups, OpenPicker
  <1>11. ASSUME NEW c \in calls,
                ActionSucceeds(c) \/ ActionFails(c) \/ StreamStarts(c) \/ CallFails(c)
         PROVE CallsInv'
    BY <1>11, <1>0 DEF ActionSucceeds, ActionFails, StreamStarts, CallFails, Ends
  <1> QED BY <1>1, <1>2, <1>4, <1>5, <1>6, <1>7, <1>8, <1>9, <1>10, <1>11 DEF Next, User

\* What a window may be opened by, and whom it is of.
LEMMA ShownFits ==
  ASSUME FitInv, NEW p \in posts, NEW m \in Modes, Shows(p, m), UNCHANGED backend,
         busy' \subseteq BusyForms
  PROVE PlaceInv'
  <1>1. p.from \in Hosts /\ p.host \in Hosts
    BY DEF FitInv, PostInv, PostSet
  <1> QED BY <1>1 DEF FitInv, PlaceInv, Shows, Modes, WritingModes

LEMMA PlaceStep ==
  ASSUME FitInv, [Next]_vars
  PROVE PlaceInv'
  <1> USE DEF windowVars, catalogVars, pickerVars
  <1>a. PlaceInv /\ CallsInv
    BY DEF FitInv
  <1>m. /\ Forms \union Pickers \union {"normal", "edit", "create", "confirm", "backups",
                                          "logs", "shell"} \subseteq Modes
        /\ "pull" \in BusyForms /\ "pull" \in Forms
    BY DEF Modes, Forms, BusyForms
  <1>n. {"normal", "logs", "shell"} \intersect WritingModes = {}
    BY DEF WritingModes, Forms, BusyForms, CreateForms, ConsoleForms
  <1>b. busy \subseteq BusyForms
    BY <1>a DEF PlaceInv
  <1>0. ASSUME UNCHANGED <<backend, from, of>>, mode' \in {mode, "normal", "logs", "shell"},
               busy' \subseteq BusyForms
        PROVE PlaceInv'
    <2>1. mode' \in Modes /\ (mode' \in WritingModes => mode \in WritingModes)
      BY <1>0, <1>a, <1>m, <1>n DEF PlaceInv
    <2> QED BY <1>0, <1>a, <2>1 DEF PlaceInv, Modes, WritingModes
  <1>1. ASSUME NEW p \in posts, OpenForm(p) PROVE PlaceInv'
    BY <1>1, <1>a, <1>m, ShownFits DEF OpenForm, PlaceInv
  <1>2. ASSUME NEW p \in posts, OpenPulling(p) PROVE PlaceInv'
    BY <1>2, <1>a, <1>m, ShownFits DEF OpenPulling, PlaceInv
  <1>3. ASSUME NEW p \in posts, OpenView(p) \/ OpenConfirm(p) \/ OpenPicker(p) PROVE PlaceInv'
    <2>1. \E m \in Modes : Shows(p, m)
      BY <1>3, <1>m DEF OpenView, OpenConfirm, OpenPicker
    <2>2. UNCHANGED <<backend, busy>>
      BY <1>3 DEF OpenView, OpenConfirm, OpenPicker
    <2> QED BY <2>1, <2>2, <1>b, ShownFits
  <1>4. ASSUME NEW p \in posts, OpenBackups(p) PROVE PlaceInv'
    <2>1. \E m \in Modes : Shows(p, m)
      BY <1>4, <1>m DEF OpenBackups
    <2>2. UNCHANGED <<backend, busy>>
      BY <1>4 DEF OpenBackups
    <2> QED BY <2>1, <2>2, <1>b, ShownFits
  <1>5. ASSUME NEW p \in posts, ReadCatalog(p) PROVE PlaceInv'
    BY <1>5, <1>0, <1>b DEF ReadCatalog
  <1>6. CASE Submit
    BY <1>6, <1>0, <1>b DEF Submit
  <1>7. CASE RemoveImagesKey \/ SubmitCreate \/ SubmitConsole \/ SubmitExec \/ CreateFile
             \/ SaveFile \/ Confirm \/ Esc \/ CloseShell \/ MovePicker \/ Choose
    BY <1>7, <1>0, <1>b DEF RemoveImagesKey, SubmitCreate, SubmitConsole, SubmitExec, CreateFile,
                     SaveFile, Confirm, Esc, CloseShell, MovePicker, Choose
  <1>8. CASE MoveBackup \/ Restore \/ ArmBackup \/ DeleteBackup \/ LoseArchive \/ UNCHANGED vars
    BY <1>8, <1>0, <1>b DEF MoveBackup, Restore, ArmBackup, DeleteBackup, LoseArchive, vars
  <1>9. ASSUME NEW c \in Commands, Command(c) PROVE PlaceInv'
    BY <1>9, <1>0, <1>b DEF Command
  <1>10. CASE Connected
    BY <1>10, <1>a, <1>m, <1>n DEF Connected, PlaceInv, Modes, WritingModes
  <1>11. ASSUME NEW c \in calls,
                ActionSucceeds(c) \/ ActionFails(c) \/ StreamStarts(c) \/ CallFails(c)
         PROVE PlaceInv'
    BY <1>11, <1>0, <1>b DEF ActionSucceeds, ActionFails, StreamStarts, CallFails, Freed, ResultFrame
  <1> QED BY <1>1, <1>2, <1>3, <1>4, <1>5, <1>6, <1>7, <1>8, <1>9, <1>10, <1>11 DEF Next, User

\* A question on the screen has an action to run.
LEMMA AskStep ==
  ASSUME FitInv, [Next]_vars
  PROVE AskInv'
  <1> USE DEF windowVars, catalogVars, pickerVars
  <1>a. AskInv
    BY DEF FitInv
  <1>m. "confirm" \notin Forms \union Pickers \union {"normal", "edit", "create", "logs",
                                                    "pull", "backups", "shell"}
    BY DEF Forms, Pickers, BusyForms, CreateForms, ConsoleForms
  <1>0. ASSUME UNCHANGED confirm, mode' # "confirm" \/ mode' = mode
        PROVE AskInv'
    BY <1>0, <1>a DEF AskInv, Questions
  <1>1. ASSUME NEW p \in posts, OpenForm(p) \/ OpenView(p) \/ OpenPicker(p) PROVE AskInv'
    BY <1>1, <1>0, <1>m DEF OpenForm, OpenView, OpenPicker, Shows
  <1>2. ASSUME NEW p \in posts, OpenPulling(p) \/ OpenBackups(p) PROVE AskInv'
    BY <1>2, <1>0, <1>m DEF OpenPulling, OpenBackups, Shows
  <1>3. ASSUME NEW p \in posts, OpenConfirm(p) PROVE AskInv'
    <2>1. p.from \in Hosts /\ p.host \in Hosts
      BY DEF FitInv, PostInv, PostSet
    <2>2. confirm' = Doing("act", p.host, p.from, None)
      BY <1>3 DEF OpenConfirm
    <2>3. confirm' \in Questions
      BY <2>1, <2>2 DEF Doing, Questions
    <2> QED BY <2>3, NoneAssumption DEF AskInv, Questions
  <1>4. ASSUME NEW p \in posts, ReadCatalog(p) PROVE AskInv'
    BY <1>4, <1>0 DEF ReadCatalog
  <1>5. CASE Confirm
    BY <1>5, <1>m DEF Confirm, AskInv
  <1>6. CASE Esc
    BY <1>6, <1>a DEF Esc, AskInv, Questions
  <1>7. CASE RemoveImagesKey \/ Submit \/ SubmitCreate \/ SubmitConsole \/ SubmitExec \/ CreateFile
             \/ SaveFile \/ CloseShell \/ MovePicker \/ Choose
    BY <1>7, <1>0 DEF RemoveImagesKey, Submit, SubmitCreate, SubmitConsole, SubmitExec,
                     CreateFile, SaveFile, CloseShell, MovePicker, Choose
  <1>8. CASE MoveBackup \/ Restore \/ ArmBackup \/ DeleteBackup \/ LoseArchive \/ Connected
             \/ UNCHANGED vars
    BY <1>8, <1>0 DEF MoveBackup, Restore, ArmBackup, DeleteBackup, LoseArchive, Connected, vars
  <1>9. ASSUME NEW c \in Commands, Command(c) PROVE AskInv'
    BY <1>9, <1>0 DEF Command
  <1>10. ASSUME NEW c \in calls,
                ActionSucceeds(c) \/ ActionFails(c) \/ StreamStarts(c) \/ CallFails(c)
         PROVE AskInv'
    BY <1>10, <1>0 DEF ActionSucceeds, ActionFails, StreamStarts, CallFails, ResultFrame
  <1> QED BY <1>1, <1>2, <1>3, <1>4, <1>5, <1>6, <1>7, <1>8, <1>9, <1>10 DEF Next, User

\* A catalog read is of the archives of its deployment.
LEMMA CatalogFits ==
  ASSUME disk \subseteq Archives, NEW p, NEW found \in Catalogs(p)
  PROVE found \in Seq(Archives) /\ OfProject(found, p)
  <1> DEFINE A == {a \in disk : a.project = p}
  <1>1. IsFiniteSet(A)
    BY FS_Subset, WindowsAssumption
  <1>2. found \in SetToSeqs(A)
    BY DEF Catalogs
  <1>3. found \in Seq(A)
    BY <1>1, <1>2, SetToSeqsAll
  <1>4. \A i \in DOMAIN found : found[i] \in A
    BY <1>3
  <1>5. found \in Seq(Archives)
    BY <1>3, <1>4
  <1> QED BY <1>4, <1>5 DEF OfProject

\* The message of a command, and that of a deletion.
LEMMA OpenerFits ==
  ASSUME backend \in Hosts, NEW e \in Writing \union Pickers \union {"logs", "backups"},
         NEW d \in Deployments
  PROVE /\ Opener(e) \in PostSet
        /\ [Opener(e) EXCEPT !.project = d] \in PostSet
        /\ Opener(e).opens = e /\ Opener(e).read = (e # "backups") /\ Opener(e).items = <<>>
        /\ LET q == [Opener(e) EXCEPT !.project = d]
           IN q.opens = e /\ q.read = (e # "backups") /\ q.items = <<>>
  <1>1. Opener(e) = [opens |-> e, from |-> backend, project |-> None, items |-> <<>>,
                     host |-> backend, read |-> e # "backups"]
    BY DEF Opener
  <1>2. <<>> \in Seq(Archives) /\ None \in Deployments /\ (e # "backups") \in BOOLEAN
    BY DEF Deployments
  <1>3. [Opener(e) EXCEPT !.project = d] =
          [opens |-> e, from |-> backend, project |-> d, items |-> <<>>,
           host |-> backend, read |-> e # "backups"]
    BY <1>1
  <1>4. \A x \in Deployments :
          [opens |-> e, from |-> backend, project |-> x, items |-> <<>>,
           host |-> backend, read |-> e # "backups"] \in PostSet
    BY <1>2 DEF PostSet
  <1>5. Opener(e) \in PostSet /\ [Opener(e) EXCEPT !.project = d] \in PostSet
    BY <1>1, <1>2, <1>3, <1>4
  <1>6. Opener(e).opens = e /\ Opener(e).read = (e # "backups") /\ Opener(e).items = <<>>
    BY <1>1
  <1>7. LET q == [Opener(e) EXCEPT !.project = d]
        IN q.opens = e /\ q.read = (e # "backups") /\ q.items = <<>>
    BY <1>3
  <1> QED BY <1>5, <1>6, <1>7

\* A message more.
LEMMA PostedFits ==
  ASSUME PostInv, NEW q \in PostSet, q.read => OfProject(q.items, q.project),
         ~q.read => q.opens = "backups", posts' \subseteq posts \union {q}
  PROVE PostInv'
  BY DEF PostInv, PostSet, Writing, Pickers, Forms, BusyForms, CreateForms, ConsoleForms,
         OfProject, Deployments

LEMMA PostStep ==
  ASSUME FitInv, [Next]_vars
  PROVE PostInv'
  <1> USE DEF windowVars, catalogVars, pickerVars
  <1>a. PostInv /\ backend \in Hosts /\ project \in Deployments /\ disk \subseteq Archives
    BY DEF FitInv, PlaceInv, ShelfInv
  <1>e. \A d : OfProject(<<>>, d)
    BY DEF OfProject
  <1>w. {"confirm", "logs", "backups"} \subseteq Writing \union Pickers \union {"logs", "backups"}
    BY DEF Writing
  <1>n. None \in Deployments
    BY DEF Deployments
  <1>0. ASSUME posts' \subseteq posts PROVE PostInv'
    BY <1>0, <1>a DEF PostInv, PostSet, Writing, Pickers, Forms, BusyForms, CreateForms,
                     ConsoleForms, OfProject, Deployments
  <1>p. ASSUME NEW e \in Writing \union Pickers \union {"logs", "backups"}, Post(Opener(e))
        PROVE PostInv'
    <2> DEFINE q == Opener(e)
    <2>1. posts' = posts \union {q}
      BY <1>p DEF Post
    <2>2. q \in PostSet /\ q.opens = e /\ q.read = (e # "backups") /\ q.items = <<>>
      BY <1>a, <1>n, OpenerFits
    <2> HIDE DEF q
    <2>3. q.read => OfProject(q.items, q.project)
      BY <2>2, <1>e
    <2>4. ~q.read => q.opens = "backups"
      BY <2>2
    <2> QED BY <2>1, <2>2, <2>3, <2>4, <1>a, PostedFits
  <1>q. ASSUME NEW d \in Deployments, Post([Opener("backups") EXCEPT !.project = d])
        PROVE PostInv'
    <2> DEFINE q == [Opener("backups") EXCEPT !.project = d]
    <2>1. posts' = posts \union {q}
      BY <1>q DEF Post
    <2>2. q \in PostSet /\ q.opens = "backups" /\ q.items = <<>>
      BY <1>a, <1>w, OpenerFits
    <2> HIDE DEF q
    <2> QED BY <2>1, <2>2, <1>a, <1>e, PostedFits
  <1>1. ASSUME NEW c \in Commands, Command(c) PROVE PostInv'
    <2>1. CASE Effect(c) \in {"act", "stream", "session"}
      BY <1>1, <2>1, <1>0 DEF Command
    <2>2. CASE Effect(c) = "show"
      BY <1>1, <2>2, <1>p DEF Command
    <2>3. CASE Effect(c) = "backups"
      <3>1. \E d \in {a.project : a \in Archives} :
               Post([Opener("backups") EXCEPT !.project = d])
        BY <1>1, <2>3 DEF Command
      <3> QED BY <3>1, <1>q DEF Deployments
    <2>4. CASE Effect(c) \notin {"act", "stream", "session", "show", "backups"}
      <3>1. Post(Opener(Effect(c)))
        BY <1>1, <2>4 DEF Command
      <3>2. Effect(c) \in Writing \union Pickers
        BY <2>4, CommandsAssumption, EffectsKnown
      <3> QED BY <3>1, <3>2, <1>p
    <2> QED BY <2>1, <2>2, <2>3, <2>4
  <1>2. CASE RemoveImagesKey
    BY <1>2, <1>p, <1>w DEF RemoveImagesKey
  <1>3. CASE DeleteBackup
    <2>1. UNCHANGED posts \/ Post([Opener("backups") EXCEPT !.project = project])
      BY <1>3 DEF DeleteBackup
    <2> QED BY <2>1, <1>0, <1>a, <1>q
  <1>4. ASSUME NEW p \in posts, ReadCatalog(p) PROVE PostInv'
    <2>1. PICK found \in Catalogs(p.project) :
             posts' = (posts \ {p}) \union {[p EXCEPT !.read = TRUE, !.items = found]}
      BY <1>4 DEF ReadCatalog
    <2>2. found \in Seq(Archives) /\ OfProject(found, p.project)
      BY <1>a, CatalogFits
    <2> DEFINE q == [p EXCEPT !.read = TRUE, !.items = found]
    <2>3. p \in PostSet
      BY <1>a DEF PostInv
    <2>4. q \in PostSet /\ q.read /\ q.items = found /\ q.project = p.project
      BY <2>2, <2>3 DEF PostSet
    <2>5. posts' \subseteq posts \union {q}
      BY <2>1
    <2> HIDE DEF q
    <2> QED BY <2>2, <2>4, <2>5, <1>a, PostedFits
  <1>5. ASSUME NEW p \in posts, OpenForm(p) \/ OpenPulling(p) \/ OpenView(p) \/ OpenConfirm(p)
                                \/ OpenPicker(p) \/ OpenBackups(p)
        PROVE PostInv'
    <2>1. posts' = posts \ {p}
      BY <1>5 DEF OpenForm, OpenPulling, OpenView, OpenConfirm, OpenPicker, OpenBackups, Shows
    <2> QED BY <2>1, <1>0
  <1>6. CASE Submit \/ SubmitCreate \/ SubmitConsole \/ SubmitExec \/ CreateFile \/ SaveFile
             \/ Confirm \/ Esc \/ CloseShell \/ MovePicker \/ Choose
    BY <1>6, <1>0 DEF Submit, SubmitCreate, SubmitConsole, SubmitExec, CreateFile, SaveFile,
                     Confirm, Esc, CloseShell, MovePicker, Choose
  <1>7. CASE MoveBackup \/ Restore \/ ArmBackup \/ LoseArchive \/ Connected \/ UNCHANGED vars
    BY <1>7, <1>0 DEF MoveBackup, Restore, ArmBackup, LoseArchive, Connected, vars
  <1>8. ASSUME NEW c \in calls,
                ActionSucceeds(c) \/ ActionFails(c) \/ StreamStarts(c) \/ CallFails(c)
         PROVE PostInv'
    BY <1>8, <1>0 DEF ActionSucceeds, ActionFails, StreamStarts, CallFails, ResultFrame
  <1> QED BY <1>1, <1>2, <1>3, <1>4, <1>5, <1>6, <1>7, <1>8 DEF Next, User

\* The cursor stays on an archive, and only the one under it is armed.
LEMMA ShelfStep ==
  ASSUME FitInv, [Next]_vars
  PROVE ShelfInv'
  <1> USE DEF windowVars, catalogVars, pickerVars
  <1>a. ShelfInv
    BY DEF FitInv
  <1>m. "backups" \notin Forms \union Pickers \union {"normal", "edit", "create", "logs",
                                                    "pull", "confirm", "shell"}
    BY DEF Forms, Pickers, BusyForms, CreateForms, ConsoleForms
  <1>0. ASSUME UNCHANGED <<items, project, cursor>>, disk' \subseteq disk,
               mode' = "backups" => mode = "backups" /\ armed' \in {None, armed}
        PROVE ShelfInv'
    BY <1>0, <1>a DEF ShelfInv, OfProject, Deployments
  <1>1. ASSUME NEW p \in posts, OpenForm(p) \/ OpenPulling(p) \/ OpenView(p) \/ OpenConfirm(p)
                                \/ OpenPicker(p)
        PROVE ShelfInv'
    BY <1>1, <1>0, <1>m DEF OpenForm, OpenPulling, OpenView, OpenConfirm, OpenPicker, Shows
  <1>2. ASSUME NEW p \in posts, OpenBackups(p) PROVE ShelfInv'
    <2>1. CASE p.items = <<>>
      BY <1>2, <2>1, <1>0, <1>m DEF OpenBackups, Shows
    <2>2. CASE p.items # <<>>
      <3>1. p.items \in Seq(Archives) /\ p.project \in Deployments /\ OfProject(p.items, p.project)
        BY <1>2 DEF OpenBackups, FitInv, PostInv, PostSet
      <3>2. /\ items' = p.items /\ project' = p.project /\ armed' = None /\ UNCHANGED disk
            /\ cursor' = IF cursor > Len(p.items) THEN 1 ELSE cursor
        BY <1>2, <2>2 DEF OpenBackups, Disarmed
      <3>3. Len(p.items) \in Nat \ {0} /\ DOMAIN p.items = 1..Len(p.items)
        BY <2>2, <3>1
      <3>4. cursor' \in Nat \ {0} /\ cursor' \in DOMAIN p.items
        BY <1>a, <3>2, <3>3 DEF ShelfInv
      <3> QED BY <1>a, <3>1, <3>2, <3>4 DEF ShelfInv, OfProject, Deployments
    <2> QED BY <2>1, <2>2
  <1>3. ASSUME NEW p \in posts, ReadCatalog(p) PROVE ShelfInv'
    BY <1>3, <1>0 DEF ReadCatalog
  <1>4. CASE MoveBackup
    <2>1. cursor' \in DOMAIN items /\ armed' = None /\ UNCHANGED <<mode, items, project, disk>>
      BY <1>4 DEF MoveBackup, Disarmed
    <2>2. DOMAIN items \subseteq Nat \ {0}
      BY <1>a DEF ShelfInv
    <2> QED BY <1>a, <2>1, <2>2 DEF ShelfInv, OfProject, Deployments
  <1>5. CASE ArmBackup
    BY <1>5, <1>a DEF ArmBackup, ShelfInv, OfProject, Deployments
  <1>6. CASE Restore
    BY <1>6, <1>0 DEF Restore
  <1>7. CASE DeleteBackup
    BY <1>7, <1>0 DEF DeleteBackup
  <1>8. CASE LoseArchive
    BY <1>8, <1>0 DEF LoseArchive
  <1>9. CASE RemoveImagesKey \/ Submit \/ SubmitCreate \/ SubmitConsole \/ SubmitExec \/ CreateFile
             \/ SaveFile \/ Confirm \/ Esc \/ CloseShell \/ MovePicker \/ Choose
    BY <1>9, <1>0 DEF RemoveImagesKey, Submit, SubmitCreate, SubmitConsole, SubmitExec, CreateFile,
                     SaveFile, Confirm, Esc, CloseShell, MovePicker, Choose
  <1>10. CASE Connected \/ UNCHANGED vars
    BY <1>10, <1>0 DEF Connected, vars
  <1>11. ASSUME NEW c \in Commands, Command(c) PROVE ShelfInv'
    BY <1>11, <1>0 DEF Command
  <1>12. ASSUME NEW c \in calls,
                ActionSucceeds(c) \/ ActionFails(c) \/ StreamStarts(c) \/ CallFails(c)
         PROVE ShelfInv'
    BY <1>12, <1>0 DEF ActionSucceeds, ActionFails, StreamStarts, CallFails, ResultFrame
  <1> QED BY <1>1, <1>2, <1>3, <1>4, <1>5, <1>6, <1>7, <1>8, <1>9, <1>10, <1>11, <1>12
          DEF Next, User

\* A picker previews the row it is on.
LEMMA PickStep ==
  ASSUME FitInv, [Next]_vars
  PROVE PickInv'
  <1> USE DEF windowVars, catalogVars, pickerVars
  <1>a. PickInv
    BY DEF FitInv
  <1>m. Pickers \intersect (Forms \union {"normal", "edit", "create", "logs", "pull", "backups",
                                       "confirm", "shell"}) = {}
    BY DEF Forms, Pickers, BusyForms, CreateForms, ConsoleForms
  <1>0. ASSUME UNCHANGED <<applied, original, row>>, mode' \notin Pickers \/ mode' = mode
        PROVE PickInv'
    BY <1>0, <1>a DEF PickInv, Pickers
  <1>1. ASSUME NEW p \in posts, OpenForm(p) \/ OpenPulling(p) \/ OpenView(p) \/ OpenConfirm(p)
                                \/ OpenBackups(p)
        PROVE PickInv'
    BY <1>1, <1>0, <1>m DEF OpenForm, OpenPulling, OpenView, OpenConfirm, OpenBackups, Shows
  <1>2. ASSUME NEW p \in posts, OpenPicker(p) PROVE PickInv'
    <2>1. /\ p.opens \in Pickers /\ mode' = p.opens /\ UNCHANGED applied
          /\ original' = [original EXCEPT ![p.opens] = applied[p.opens]]
          /\ row' = [row EXCEPT ![p.opens] = applied[p.opens]]
      BY <1>2 DEF OpenPicker, Shows
    <2>2. row'[p.opens] = applied[p.opens] /\ applied[p.opens] \in 1..Themes
      BY <2>1, <1>a DEF PickInv
    <2> QED BY <1>a, <2>1, <2>2 DEF PickInv, Pickers
  <1>3. ASSUME NEW p \in posts, ReadCatalog(p) PROVE PickInv'
    BY <1>3, <1>0 DEF ReadCatalog
  <1>4. CASE MovePicker
    <2>1. PICK r \in 1..Themes : /\ row' = [row EXCEPT ![mode] = r]
                                 /\ applied' = [applied EXCEPT ![mode] = r]
      BY <1>4 DEF MovePicker, Beside, Preview
    <2>2. mode \in Pickers /\ UNCHANGED <<mode, original>>
      BY <1>4 DEF MovePicker
    <2> QED BY <1>a, <2>1, <2>2 DEF PickInv, Pickers
  <1>5. CASE Esc
    <2>1. applied' \in [Pickers -> 1..Themes] /\ mode' = "normal" /\ UNCHANGED <<original, row>>
      BY <1>5, <1>a DEF Esc, PickInv
    <2> QED BY <1>a, <2>1, <1>m DEF PickInv, Pickers
  <1>6. CASE RemoveImagesKey \/ Submit \/ SubmitCreate \/ SubmitConsole \/ SubmitExec \/ CreateFile
             \/ SaveFile \/ Confirm \/ CloseShell \/ Choose
    BY <1>6, <1>0, <1>m DEF RemoveImagesKey, Submit, SubmitCreate, SubmitConsole, SubmitExec,
                     CreateFile, SaveFile, Confirm, CloseShell, Choose
  <1>7. CASE MoveBackup \/ Restore \/ ArmBackup \/ DeleteBackup
    BY <1>7, <1>0, <1>m DEF MoveBackup, Restore, ArmBackup, DeleteBackup
  <1>8. CASE Connected \/ LoseArchive \/ UNCHANGED vars
    BY <1>8, <1>0, <1>m DEF Connected, LoseArchive, vars
  <1>9. ASSUME NEW c \in Commands, Command(c) PROVE PickInv'
    BY <1>9, <1>0 DEF Command
  <1>10. ASSUME NEW c \in calls,
                ActionSucceeds(c) \/ ActionFails(c) \/ StreamStarts(c) \/ CallFails(c)
         PROVE PickInv'
    BY <1>10, <1>0, <1>m DEF ActionSucceeds, ActionFails, StreamStarts, CallFails, ResultFrame
  <1> QED BY <1>1, <1>2, <1>3, <1>4, <1>5, <1>6, <1>7, <1>8, <1>9, <1>10 DEF Next, User

\* Whatever opens over what, and however late it does: the state of the windows is
\* well-typed, the catalog's cursor is on an archive of the deployment it was asked
\* for and arms that one only, a question has its action, and a picker shows the
\* row it is on (backupsListedMsg, handleBackupPicker, openConfirmMsg, applyThemeAt).
THEOREM WindowsCorrect == Spec => []WindowsRight
  <1>1. FitInv /\ [Next]_vars => FitInv'
    BY PlaceStep, AskStep, PostStep, CallsStep, ShelfStep, PickStep DEF FitInv
  <1> QED BY <1>1, FitInit, FitSuffices, PTL DEF Spec
=============================================================================
