----------------------------- MODULE MCProjects -----------------------------
\* Three hosts: the project's containers in two directories, in one, and in
\* one beside a container without that label.
EXTENDS Projects
MCHosts ==
  {[shell |-> TRUE, sudo |-> TRUE, dir |-> None], [shell |-> TRUE, sudo |-> FALSE, dir |-> "/opt"],
   [shell |-> FALSE, sudo |-> FALSE, dir |-> "/srv"]}
=============================================================================
