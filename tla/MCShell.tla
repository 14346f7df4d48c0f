------------------------------ MODULE MCShell ------------------------------
(* Two sessions, two queries, and two hosts with a container each.            *)
EXTENDS Panels
CONSTANTS s1, s2, c1, c2, h1, h2

File(path) == [path |-> path, isDir |-> FALSE]
Dir(path)  == [path |-> path, isDir |-> TRUE]

\* Two containers with a directory of the same name and other things in it.
MCFileSystem ==
  (c1 :> {Dir(<<"a">>), File(<<"a", "b">>)})
  @@ (c2 :> {Dir(<<"a">>), Dir(<<"a", "b">>), File(<<"a", "c">>)})
MCHostOf == (c1 :> h1) @@ (c2 :> h2)

\* Begun on the host that has the containers.
MCInit == PanelsInit /\ host = h1
MCSpec == MCInit /\ [][PanelsNext]_panelVars /\ Fairness
=============================================================================
