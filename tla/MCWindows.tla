------------------------------ MODULE MCWindows ------------------------------
(* A writable host over SSH and a read-only one; two projects with archives.  *)
EXTENDS Windows

CONSTANTS h1, h2

MCArchives == {[project |-> "web", age |-> 1], [project |-> "web", age |-> 2],
               [project |-> "db", age |-> 1]}
=============================================================================
