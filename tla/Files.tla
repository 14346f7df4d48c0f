------------------------------- MODULE Files -------------------------------
(***************************************************************************)
(* The file browser of a container (internal/ui/fsbrowser; fs.go).         *)
(*                                                                         *)
(* Keys start listings and downloads, which run on goroutines; a listing's *)
(* answer opens the browser or moves it, in whatever order answers come.   *)
(* A path is the sequence of names below "/".  Scrolling is left out, and  *)
(* so are the contents of files.                                           *)
(***************************************************************************)
EXTENDS Integers, FiniteSets, Sequences, SequencesExt

CONSTANTS Hosts, Containers,
          HostOf,       \* the host of each container
          Names,        \* of files and directories
          FileSystem,   \* what may be in each container: sets of [path, isDir]
          Nowhere,
          MaxRequests, MaxFsChanges   \* bounds

ASSUME FilesAssumption ==
  /\ HostOf \in [Containers -> Hosts] /\ Nowhere \notin Containers
  /\ FileSystem \in [Containers -> SUBSET [path : Seq(Names), isDir : BOOLEAN]]
  /\ \A c \in Containers :
       /\ IsFiniteSet(FileSystem[c])
       /\ \A e \in FileSystem[c] :   \* what is in a directory that is there
            /\ e.path # <<>>
            /\ Front(e.path) = <<>> \/ [path |-> Front(e.path), isDir |-> TRUE] \in FileSystem[c]
  /\ {MaxRequests, MaxFsChanges} \subseteq Nat

VARIABLES
  host,      \* the host of Model.backend
  browsing,  \* whether the mode is ModeFSBrowser
  browser,   \* fsbrowser.Model: [ctr, path, entries, cursor, failed]
  tree,      \* what is in each container
  requests,  \* listings and downloads under way
  requested, fsChanges

fsVars == <<host, browsing, browser, tree, requests, requested, fsChanges>>

\* ListPath: what ls says of a directory.
Listing(c, dir) ==
  SetToSeq({[name |-> Last(e.path), isDir |-> e.isDir] :
              e \in {x \in tree[c] : x.path # <<>> /\ Front(x.path) = dir}})
IsThere(c, path) == path = <<>> \/ \E e \in tree[c] : e.path = path
IsDirectory(c, path) == path = <<>> \/ [path |-> path, isDir |-> TRUE] \in tree[c]

FilesInit ==
  /\ host \in Hosts /\ browsing = FALSE
  /\ browser = [ctr |-> Nowhere, path |-> <<>>, entries |-> <<>>, cursor |-> 1,
                failed |-> FALSE]
  /\ tree = FileSystem
  /\ requests = {} /\ requested = 0 /\ fsChanges = 0
-----------------------------------------------------------------------------
(* Requests, on the backend of the moment. *)

Request(does, c, path) ==
  /\ requested < MaxRequests /\ requested' = requested + 1
  /\ requests' = requests \union
       {[n |-> requested', does |-> does, on |-> host, ctr |-> c, path |-> path,
         answer |-> "none", entries |-> <<>>]}

\* openFSBrowser: of a running container of the list.
OpenBrowser(c) ==
  /\ ~browsing /\ HostOf[c] = host
  /\ Request("list", c, <<>>)
  /\ UNCHANGED <<host, browsing, browser, tree, fsChanges>>

\* Selected: nothing in an empty directory.
AnySelected == browser.entries # <<>>
Selected == browser.entries[browser.cursor]

\* handleFSBrowser: Enter, Backspace, d.
Descend ==
  /\ browsing /\ AnySelected /\ Selected.isDir
  /\ Request("list", browser.ctr, Append(browser.path, Selected.name))
  /\ UNCHANGED <<host, browsing, browser, tree, fsChanges>>
Ascend ==
  /\ browsing /\ browser.path # <<>>
  /\ Request("list", browser.ctr, Front(browser.path))
  /\ UNCHANGED <<host, browsing, browser, tree, fsChanges>>
Download ==
  /\ browsing /\ AnySelected
  /\ Request("download", browser.ctr, Append(browser.path, Selected.name))
  /\ UNCHANGED <<host, browsing, browser, tree, fsChanges>>

\* The engine answers: it knows the containers of its host only.
Done(r) ==
  IF r.does = "list" THEN IsDirectory(r.ctr, r.path) ELSE IsThere(r.ctr, r.path)
Serve(r) ==
  /\ r.answer = "none"
  /\ requests' = (requests \ {r}) \union
       {IF HostOf[r.ctr] = r.on /\ Done(r)
        THEN [r EXCEPT !.answer = "ok",
                       !.entries = IF r.does = "list" THEN Listing(r.ctr, r.path) ELSE <<>>]
        ELSE [r EXCEPT !.answer = "failed"]}
  /\ UNCHANGED <<host, browsing, browser, tree, requested, fsChanges>>
-----------------------------------------------------------------------------
(* Answers. *)

\* Mutant: the path shown stays that of the directory the browser was in.
ShownPathKept(r) == browser.path
\* The directory a listing is shown as.
ShownPath(r) == r.path

\* fsListedMsg: Show.
Listed(r) ==
  /\ r.does = "list" /\ r.answer = "ok"
  /\ browsing' = TRUE
  /\ browser' = [ctr |-> r.ctr, path |-> ShownPath(r), entries |-> r.entries,
                 cursor |-> 1, failed |-> FALSE]
  /\ requests' = requests \ {r}
  /\ UNCHANGED <<host, tree, requested, fsChanges>>

\* The browser stays where it is; without one, the footer has the error.
ListingFailed(r) ==
  /\ r.does = "list" /\ r.answer = "failed"
  /\ browser' = IF browsing THEN [browser EXCEPT !.failed = TRUE] ELSE browser
  /\ requests' = requests \ {r}
  /\ UNCHANGED <<host, browsing, tree, requested, fsChanges>>

\* fsCopiedMsg.
Copied(r) ==
  /\ r.does = "download" /\ r.answer # "none"
  /\ browser' = [browser EXCEPT !.failed = @ \/ r.answer = "failed"]
  /\ requests' = requests \ {r}
  /\ UNCHANGED <<host, browsing, tree, requested, fsChanges>>

\* Mutant: the cursor goes past the last entry.
BelowAny(n) == n + 1
\* The row below row n.
Below(n) == IF n < Len(browser.entries) THEN n + 1 ELSE n

\* j, k and their like.
MoveCursor ==
  /\ browsing
  /\ \E n \in {1, browser.cursor - 1, Below(browser.cursor)} :
       n >= 1 /\ browser' = [browser EXCEPT !.cursor = n]
  /\ UNCHANGED <<host, browsing, tree, requests, requested, fsChanges>>

\* q, Esc; connectResultMsg, which closes what is on the screen.
CloseBrowser ==
  /\ browsing /\ browsing' = FALSE
  /\ UNCHANGED <<host, browser, tree, requests, requested, fsChanges>>
OtherHost ==
  /\ fsChanges < MaxFsChanges /\ fsChanges' = fsChanges + 1
  /\ \E h \in Hosts \ {host} : host' = h
  /\ browsing' = FALSE
  /\ UNCHANGED <<browser, tree, requests, requested>>

\* The container's own processes remove and create files.
Rewrite(c) ==
  /\ fsChanges < MaxFsChanges /\ fsChanges' = fsChanges + 1
  /\ \E t \in SUBSET FileSystem[c] : t # tree[c] /\ tree' = [tree EXCEPT ![c] = t]
  /\ UNCHANGED <<host, browsing, browser, requests, requested>>

FilesNext ==
  \/ \E c \in Containers : OpenBrowser(c) \/ Rewrite(c)
  \/ Descend \/ Ascend \/ Download \/ MoveCursor \/ CloseBrowser \/ OtherHost
  \/ \E r \in requests : Serve(r) \/ Listed(r) \/ ListingFailed(r) \/ Copied(r)
-----------------------------------------------------------------------------
\* However late and in whatever order listings come, what the browser lists is of
\* the container and directory in its title, its cursor is on an entry, and what
\* is asked for from it is something the container has had at that path.
BrowserRight ==
  /\ browsing => /\ \A i \in DOMAIN browser.entries :
                      [path  |-> Append(browser.path, browser.entries[i].name),
                       isDir |-> browser.entries[i].isDir] \in FileSystem[browser.ctr]
                 /\ AnySelected => browser.cursor \in DOMAIN browser.entries
  /\ \A r \in requests :
       r.path = <<>> \/ \E e \in FileSystem[r.ctr] :
                          /\ e.path = r.path
                          /\ r.does = "list" => e.isDir
=============================================================================
