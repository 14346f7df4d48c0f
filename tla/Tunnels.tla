------------------------------ MODULE Tunnels ------------------------------
(***************************************************************************)
(* What the port-forward manager promises to the screens that list         *)
(* tunnels, with listeners, connections, locks and pending calls left out: *)
(* a tunnel is opened once, may be stopped and reopened on the local port  *)
(* it was first given, and once removed never comes back; and two open     *)
(* tunnels never share a local port.  Module PortFwd implements it.        *)
(***************************************************************************)
CONSTANTS
  Ids,         \* tunnel identifiers
  Ports        \* local ports

VARIABLES
  status,      \* status[t]: where tunnel t is in its life
  boundTo      \* boundTo[t]: the local port t was opened on (NoPort before that)

NoPort == 0
Status == {"unborn", "open", "stopped", "removed"}

TypeOK ==
  /\ status \in [Ids -> Status]
  /\ boundTo \in [Ids -> Ports \cup {NoPort}]

Init ==
  /\ status = [t \in Ids |-> "unborn"]
  /\ boundTo = [t \in Ids |-> NoPort]

\* A port is free for t when no other open tunnel listens on it.
FreeFor(t, p) == \A u \in Ids \ {t} : status[u] = "open" => boundTo[u] # p

Open(t, p) ==
  /\ status[t] = "unborn"
  /\ FreeFor(t, p)
  /\ status' = [status EXCEPT ![t] = "open"]
  /\ boundTo' = [boundTo EXCEPT ![t] = p]

Halt(t) ==
  /\ status[t] = "open"
  /\ status' = [status EXCEPT ![t] = "stopped"]
  /\ UNCHANGED boundTo

Reopen(t) ==
  /\ status[t] = "stopped"
  /\ FreeFor(t, boundTo[t])
  /\ status' = [status EXCEPT ![t] = "open"]
  /\ UNCHANGED boundTo

Drop(S) ==
  /\ \A t \in S : status[t] \in {"open", "stopped"}
  /\ status' = [t \in Ids |-> IF t \in S THEN "removed" ELSE status[t]]
  /\ UNCHANGED boundTo

Next ==
  \/ \E t \in Ids, p \in Ports : Open(t, p)
  \/ \E t \in Ids : Halt(t)
  \/ \E t \in Ids : Reopen(t)
  \/ \E S \in SUBSET Ids : Drop(S)

vars == <<status, boundTo>>
Spec == Init /\ [][Next]_vars
=============================================================================
