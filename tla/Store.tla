------------------------------- MODULE Store -------------------------------
(***************************************************************************)
(* The configuration file and the saved hosts in it (internal/settings,    *)
(* internal/hosts), as the processes of the program use them: each loads   *)
(* the file when it starts, changes its copy, and writes the whole file    *)
(* back.  A write first empties the file.  The hosts view also removes a   *)
(* host in a goroutine of its own, beside the event loop.                  *)
(***************************************************************************)
EXTENDS Integers, FiniteSets, Sequences, SequencesExt, FiniteSetsExt

CONSTANTS Procs,        \* the processes of the program
          Bases,        \* names a user gives to hosts
          Themes,       \* the themes; the first start has none of them
          MaxOps,       \* bound: changes made
          MaxHosts      \* bound: hosts in a list that a change adds to

ASSUME StoreAssumption ==
  /\ "none" \notin Themes /\ Bases # {}
  /\ {MaxOps, MaxHosts} \subseteq Nat

VARIABLES
  disk,       \* the file: [theme, hosts], or Torn (it does not parse)
  legacy,     \* the file of old versions: "none", "old", or "gone" once renamed
  pc,         \* of each process: "down", "load", "migrated", "up"
  hosts,      \* hosts.Store.Hosts
  file,       \* settings.Store.File
  writes,     \* writes under way: [p, by, file, seen]
  unsaved,    \* the processes whose last save failed
  shared,     \* whether two writes or two processes ever met
  ops         \* changes made

storeVars == <<disk, legacy, pc, hosts, file, writes, unsaved, shared, ops>>
-----------------------------------------------------------------------------
(* Hosts. *)

Urls == {"ssh", "tcp"}
Name(base, i) == <<base, i>>          \* base, base-2, base-3, ...
Names == {Name(b, i) : b \in Bases, i \in 1..(MaxHosts + 1)}
Host == [name : Names, url : Urls, auth : {"none", "key"},
         tls : BOOLEAN, readOnly : BOOLEAN]

\* normalized: SSH fields are kept for SSH hosts only, TLS files for tcp.
Normalized(h) ==
  [h EXCEPT !.auth = IF h.url = "ssh" THEN @ ELSE "none", !.tls = @ /\ h.url = "tcp"]

Called(list, name) == {i \in DOMAIN list : list[i].name = name}
OfUrl(list, url) == {i \in DOMAIN list : list[i].url = url}

\* uniqueName: the name with the first number that is free.
UniqueName(list, base) ==
  LET free == {i \in 1..(Len(list) + 1) : Called(list, Name(base, i)) = {}}
  IN Name(base, CHOOSE i \in free : \A j \in free : i <= j)

\* Mutant: any name of the list may be taken.
Anything(list, name, h) == Called(list, name) # {}
\* EditHost: the entry exists and its new name is not another's.
MayEdit(list, name, h) ==
  Called(list, name) # {} /\ (h.name = name \/ Called(list, h.name) = {})
\* Mutant: what the form does not show is taken from the form.
AsTyped(old, h) == Normalized(h)
\* What the form does not show is carried over.
Carried(old, h) ==
  Normalized([h EXCEPT !.readOnly = old.readOnly, !.tls = @ \/ old.tls])
EditHost(list, name, h) ==
  [i \in DOMAIN list |->
    IF i = Min(Called(list, name)) THEN Carried(list[i], h) ELSE list[i]]

\* What the form makes (hostform.Result) and what a context makes (SavedHost).
FormHost(base, url, auth) ==
  Normalized([name |-> Name(base, 1), url |-> url, auth |-> auth, tls |-> FALSE,
              readOnly |-> FALSE])
ContextHost(base, url, tls) ==
  Normalized([name |-> Name(base, 1), url |-> url, auth |-> "none", tls |-> tls,
              readOnly |-> FALSE])

\* Import: a host whose URL is saved is skipped, a name that is taken numbered.
Imported(list, h) ==
  IF OfUrl(list, h.url) # {} THEN list
  ELSE Append(list, [h EXCEPT !.name = UniqueName(list, h.name[1])])
-----------------------------------------------------------------------------
(* The file. *)

Empty == [theme |-> "none", hosts |-> <<>>]
Torn == [theme |-> "torn", hosts |-> <<>>]

\* The old hosts: one that a user marked read-only in the file, and one more.
Old == <<[name |-> Name(CHOOSE b \in Bases : TRUE, 1), url |-> "tcp", auth |-> "none",
          tls |-> FALSE, readOnly |-> TRUE]>>

StoreInit ==
  /\ disk = Empty /\ legacy \in {"none", "old"}
  /\ pc = [p \in Procs |-> "down"]
  /\ hosts = [p \in Procs |-> <<>>] /\ file = [p \in Procs |-> Empty]
  /\ writes = {} /\ unsaved = {} /\ shared = FALSE
  /\ ops = 0

Busy(p, by) == \E w \in writes : w.p = p /\ w.by = by

\* Save: the file is opened, and with that emptied, or cannot be.
Save(p, by, f) ==
  /\ shared' = (shared \/ writes # {})
  /\ \/ /\ disk' = Empty
        /\ writes' = writes \union {[p |-> p, by |-> by, file |-> f]}
        /\ UNCHANGED unsaved
     \/ /\ unsaved' = unsaved \union {p}
        /\ UNCHANGED <<disk, writes>>

\* Mutant: the write of the last change is taken for granted.
NotWritten(w) == disk
Written(w) == w.file
\* The bytes are written: where another write came between, what is left of the
\* longer one may remain behind the shorter.
FinishWrite(w) ==
  /\ writes' = writes \ {w}
  /\ disk' \in IF disk = Empty THEN {Written(w)} ELSE {Written(w), Torn}
  /\ unsaved' = unsaved \ {w.p}
  /\ UNCHANGED <<legacy, pc, hosts, file, shared, ops>>

\* The process is killed, or ends while its goroutine writes.
Crash(p) ==
  /\ pc[p] # "down"
  /\ pc' = [pc EXCEPT ![p] = "down"]
  /\ writes' = {w \in writes : w.p # p}
  /\ unsaved' = unsaved \ {p}
  /\ hosts' = [hosts EXCEPT ![p] = <<>>] /\ file' = [file EXCEPT ![p] = Empty]
  /\ UNCHANGED <<disk, legacy, shared, ops>>
-----------------------------------------------------------------------------
(* Starting: Load, then migrateLegacyHosts. *)

Load(p) ==
  /\ pc[p] = "down" /\ disk # Torn
  /\ file' = [file EXCEPT ![p] = disk]
  /\ pc' = [pc EXCEPT ![p] = "load"]
  /\ shared' = (shared \/ writes # {} \/ \E q \in Procs \ {p} : pc[q] # "down")
  /\ unsaved' = unsaved \ {p}
  /\ UNCHANGED <<disk, legacy, hosts, writes, ops>>

MayMigrate(p) == file[p].hosts = <<>> /\ legacy = "old"
\* Mutant: a save that failed is taken for one that did not.
AfterMigrateAlways(saved) == "migrated"
\* A failed save ends the program with an error.
AfterMigrate(saved) == IF saved THEN "migrated" ELSE "down"
Migrate(p) ==
  /\ pc[p] = "load" /\ MayMigrate(p)
  /\ file' = [file EXCEPT ![p].hosts = Old]
  /\ Save(p, "loop", file'[p])
  /\ pc' = [pc EXCEPT ![p] = AfterMigrate(writes' # writes)]
  /\ UNCHANGED <<legacy, hosts, ops>>
Rename(p) ==
  /\ pc[p] = "migrated" /\ ~Busy(p, "loop")
  /\ legacy' \in {"gone", legacy}     \* a rename that fails is a warning
  /\ pc' = [pc EXCEPT ![p] = "up"]
  /\ hosts' = [hosts EXCEPT ![p] = file[p].hosts]
  /\ UNCHANGED <<disk, file, writes, unsaved, shared, ops>>
Started(p) ==
  /\ pc[p] = "load" /\ ~MayMigrate(p)
  /\ pc' = [pc EXCEPT ![p] = "up"]
  /\ hosts' = [hosts EXCEPT ![p] = file[p].hosts]
  /\ UNCHANGED <<disk, legacy, file, writes, unsaved, shared, ops>>
-----------------------------------------------------------------------------
(* Changes: of the event loop, which waits for its save, and of the goroutine *)
(* of a confirmed removal.                                                    *)

Change(p, by, list) ==
  /\ pc[p] = "up" /\ ~Busy(p, by) /\ ops < MaxOps
  /\ ops' = ops + 1
  /\ hosts' = [hosts EXCEPT ![p] = list]
  /\ file' = [file EXCEPT ![p].hosts = list]
  /\ Save(p, by, file'[p])
  /\ UNCHANGED <<legacy, pc>>

\* The form of a new host; rememberHost of a URL given at the start.
AddHost(p, h) ==
  /\ Len(hosts[p]) < MaxHosts /\ Called(hosts[p], h.name) = {}
  /\ Change(p, "loop", Append(hosts[p], h))
Remember(p, url) ==
  /\ Len(hosts[p]) < MaxHosts /\ OfUrl(hosts[p], url) = {}
  /\ \E b \in Bases :
       LET h == [FormHost(b, url, "none") EXCEPT !.name = UniqueName(hosts[p], b)]
       IN Change(p, "loop", Append(hosts[p], h))
Edit(p, name, h) ==
  /\ MayEdit(hosts[p], name, h)
  /\ Change(p, "loop", EditHost(hosts[p], name, h))
\* importContexts: all of them, then one save if there is one that was new.
ImportContexts(p, h, g) ==
  LET list == Imported(Imported(hosts[p], h), g)
  IN /\ Len(list) <= MaxHosts /\ list # hosts[p]
     /\ Change(p, "loop", list)
\* ":rm", and the key d with its confirmation.
RemoveHost(p, by, name) ==
  /\ Called(hosts[p], name) # {}
  /\ Change(p, by, RemoveAt(hosts[p], Min(Called(hosts[p], name))))

\* SetTheme, SetLang: of File alone.
SetTheme(p, theme) ==
  /\ pc[p] = "up" /\ ~Busy(p, "loop") /\ ops < MaxOps
  /\ ops' = ops + 1
  /\ file' = [file EXCEPT ![p].theme = theme]
  /\ Save(p, "loop", file'[p])
  /\ UNCHANGED <<legacy, pc, hosts>>

HostChange(p) ==
  \/ \E b \in Bases, url \in Urls :
       \/ AddHost(p, FormHost(b, url, "key"))
       \/ \E name \in Names : Edit(p, name, FormHost(b, url, "key"))
  \/ \E url \in Urls : Remember(p, url)
  \/ \E b, c \in Bases, tls \in BOOLEAN :
       ImportContexts(p, ContextHost(b, "tcp", tls), ContextHost(c, "ssh", FALSE))
Removal(p) == \E name \in Names :
  RemoveHost(p, "loop", name) \/ RemoveHost(p, "command", name)

StoreNext ==
  \/ \E p \in Procs :
       \/ Load(p) \/ Migrate(p) \/ Rename(p) \/ Started(p) \/ Crash(p)
       \/ HostChange(p) \/ Removal(p)
       \/ \E theme \in Themes : SetTheme(p, theme)
  \/ \E w \in writes : FinishWrite(w)

StoreSpec == StoreInit /\ [][StoreNext]_storeVars
-----------------------------------------------------------------------------
File == [theme : Themes \union {"none"}, hosts : Seq(Host)]

StoreTypeOK ==
  /\ disk \in File \union {Torn}
  /\ legacy \in {"none", "old", "gone"}
  /\ pc \in [Procs -> {"down", "load", "migrated", "up"}]
  /\ \A p \in Procs : hosts[p] \in Seq(Host) /\ file[p] \in File
  /\ writes \subseteq [p : Procs, by : {"loop", "command"}, file : File]
  /\ unsaved \subseteq Procs /\ shared \in BOOLEAN
  /\ ops \in 0..MaxOps

\* A name stands for one host, in every copy and in the file, and no host keeps
\* credentials of another kind of connection: the hosts view and the agent's
\* -host find a host by its name and take the first.
NamesUnique ==
  \A list \in {hosts[p] : p \in Procs}
              \union (IF disk = Torn THEN {} ELSE {disk.hosts}) :
    \A i \in DOMAIN list :
      /\ Called(list, list[i].name) = {i}
      /\ list[i] = Normalized(list[i])

\* After every change that was saved the file is what the user sees, whatever
\* saves failed or were cut short before.
FileIsCurrent ==
  \A p \in Procs :
    (pc[p] = "up" /\ ~shared /\ writes = {} /\ p \notin unsaved)
      => disk = [theme |-> file[p].theme, hosts |-> hosts[p]]

\* The host lists, in memory and on disk, in one: types, unique names, and a
\* file that is what the user sees.
HostsRight == StoreTypeOK /\ NamesUnique /\ FileIsCurrent

\* A host that is marked read-only in the file stays marked, whatever is done to
\* it in the program, until it is removed: the form does not show the mark.
ReadOnlyStays ==
  [][\A p \in Procs : (pc[p] = "up" /\ HostChange(p)) =>
       \A i \in DOMAIN hosts[p] :
         hosts[p][i].readOnly => i \in DOMAIN hosts'[p] /\ hosts'[p][i].readOnly]_storeVars

\* The old file is put aside only when its hosts are in the new one: a crash or a
\* failed save on the way leaves them to the next start.
ImportedBeforeGone ==
  [][(legacy' # legacy /\ ~shared) => disk.hosts = Old]_storeVars

\* What must not get lost on the way, in one: read-only marks in an edit (update of
\* hosts, handleHostForm), old hosts in the move to the new file (migrateLegacyHosts).
NothingLost == ReadOnlyStays /\ ImportedBeforeGone

\* "Saving rewrites the whole file from the in-memory model, so a host edit can
\* never clobber the theme section and vice versa" (package settings): a step
\* that changes the hosts leaves the theme in the file what it was.
ThemeKept ==
  [][\A w \in writes : FinishWrite(w) =>
       \A p \in Procs \ {w.p} :
         (pc[p] = "up" /\ p \notin unsaved /\ ~Busy(p, "loop"))
           => disk'.theme = file[p].theme]_storeVars
=============================================================================
