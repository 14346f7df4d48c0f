------------------------------ MODULE MCLists ------------------------------
(* Two hosts: one has two images of one name, a volume, and a project with one *)
(* of its two containers; the other has a container and a project of the same *)
(* name.                                                                      *)
EXTENDS Lists

CONSTANTS h1, h2, app

Thing(v, h, name, project, rank) ==
  [view |-> v, host |-> h, name |-> name, project |-> project, rank |-> rank]

MCThings ==
  {Thing("hosts", h1, "h1", None, 1), Thing("hosts", h2, "h2", None, 2),
   Thing("containers", h1, "c1", app, 1), Thing("containers", h2, "c3", app, 1),
   Thing("images", h1, "i1", None, 1), Thing("images", h1, "i2", None, 1),
   Thing("volumes", h1, "v1", None, 1),
   Thing("compose", h1, app, None, 1)}

MCChanging == {t \in MCThings : t.name = "c1"}
=============================================================================
