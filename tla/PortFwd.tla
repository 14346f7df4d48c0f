------------------------------ MODULE PortFwd ------------------------------
(***************************************************************************)
(* The port-forward manager (internal/portfwd/portfwd.go).                 *)
(*                                                                         *)
(* The manager is one mutex around a map of tunnels.  Every action below   *)
(* that reads or writes the manager is one critical section of the code;   *)
(* what the code does between two critical sections (binding a local port, *)
(* dialing the container, copying bytes) is an action of its own, so every *)
(* interleaving of calls, serve goroutines and handler goroutines is here. *)
(*                                                                         *)
(* Calls (Start, Toggle and the Resume and Stop it makes) run on goroutines*)
(* of the user interface, Remove, CloseAll and SetDialer on its event loop.*)
(* The operating system gives a listener a port nobody else listens on.    *)
(* Total and LastErr, which nothing reads back, are left out; a connection *)
(* the dialer returns is named after the client it was dialed for.         *)
(***************************************************************************)
EXTENDS Integers, FiniteSets

CONSTANTS
  Procs,         \* goroutines that call Start and Toggle
  Clients,       \* client connections to a local port
  Targets,       \* (container, container port) pairs
  Ports,         \* local ports
  AskedPorts,    \* Spec.LocalPort of the Starts: local ports, or 0 for any
  Dialers,       \* backends that can dial (never NoDialer)
  NoDialer,      \* the nil dialer
  MaxTunnels,    \* bound: tunnels ever started
  MaxListeners   \* bound: listeners alive at a time

ASSUME PortFwdAssumption ==
  /\ MaxTunnels \in Nat /\ MaxListeners \in Nat
  /\ Ports \subseteq Nat \ {0} /\ AskedPorts \subseteq Ports \cup {0}
  /\ NoDialer \notin Dialers
  /\ IsFiniteSet(Clients) /\ Targets # {}

VARIABLES
  dialer,      \* m.dialer
  nextID,      \* m.nextID
  tunnels,     \* the keys of m.tunnels
  target,      \* t.info.Spec: container and port
  state,       \* t.info.State
  localPort,   \* t.info.LocalPort
  nconns,      \* t.info.Conns
  ln,          \* t.ln (NoLn when nil)
  clients,     \* the client connections in t.conns
  remotes,     \* the dialed connections in t.conns
  lport,       \* the local port a listener is bound to (AnyPort once closed)
  call,        \* the call each goroutine of Procs is in
  hnd,         \* the serve/handle goroutine of each client connection
  clientOpen,  \* client connections not yet closed on our side
  remoteOpen,  \* dialed connections not yet closed on our side
  closing      \* connections a background closer has yet to close

tunnelVars == <<tunnels, target, state, localPort, nconns, ln, clients, remotes>>
connVars == <<clientOpen, remoteOpen, closing>>
vars == <<dialer, nextID, tunnelVars, lport, call, hnd, connVars>>

Ids == 1..MaxTunnels
Listeners == 1..MaxListeners
NoLn == 0
AnyPort == 0                \* Spec.LocalPort = 0: the system picks one
open == {l \in Listeners : lport[l] # AnyPort}
Closers == {"client", "remote"} \X Clients

\* pc of a call.  "insert": holds a listener it has not handed over yet.
Call == [pc : {"idle", "check", "stop", "listen", "insert"},
         op : {"start", "resume"},
         id : Ids \cup {0},
         target : Targets,
         port : Ports \cup {AnyPort},
         ln : Listeners \cup {NoLn}]

\* pc of a client connection's goroutine, from Accept to release.
Handler == [pc : {"idle", "accepted", "dial", "dialed", "failed", "register",
                  "pipe", "forget", "release", "done"},
            tun : Ids \cup {0},
            ln : Listeners \cup {NoLn},
            via : Dialers \cup {NoDialer}]

TypeOK ==
  /\ dialer \in Dialers \cup {NoDialer}
  /\ nextID \in 1..(MaxTunnels + 1)
  /\ tunnels \in SUBSET Ids
  /\ target \in [Ids -> Targets]
  /\ state \in [Ids -> {"active", "failing", "stopped"}]
  /\ localPort \in [Ids -> Ports \cup {AnyPort}]
  /\ nconns \in [Ids -> Nat]
  /\ ln \in [Ids -> Listeners \cup {NoLn}]
  /\ clients \in [Ids -> SUBSET Clients]
  /\ remotes \in [Ids -> SUBSET Clients]
  /\ lport \in [Listeners -> Ports \cup {AnyPort}]
  /\ call \in [Procs -> Call]
  /\ hnd \in [Clients -> Handler]
  /\ clientOpen \in SUBSET Clients
  /\ remoteOpen \in SUBSET Clients
  /\ closing \in SUBSET Closers

IdleCall == [pc |-> "idle", op |-> "start", id |-> 0, target |-> CHOOSE t \in Targets : TRUE,
             port |-> AnyPort, ln |-> NoLn]

Init ==
  /\ dialer = NoDialer
  /\ nextID = 1
  /\ tunnels = {}
  /\ target = [t \in Ids |-> CHOOSE g \in Targets : TRUE]
  /\ state = [t \in Ids |-> "active"]
  /\ localPort = [t \in Ids |-> AnyPort]
  /\ nconns = [t \in Ids |-> 0]
  /\ ln = [t \in Ids |-> NoLn]
  /\ clients = [t \in Ids |-> {}]
  /\ remotes = [t \in Ids |-> {}]
  /\ lport = [l \in Listeners |-> AnyPort]
  /\ call = [p \in Procs |-> IdleCall]
  /\ hnd = [c \in Clients |-> [pc |-> "idle", tun |-> 0, ln |-> NoLn, via |-> NoDialer]]
  /\ clientOpen = {}
  /\ remoteOpen = {}
  /\ closing = {}

-----------------------------------------------------------------------------
IsOpen(t) == t \in tunnels /\ state[t] # "stopped"

SetDialer(d) ==
  /\ dialer' = d
  /\ UNCHANGED <<nextID, tunnelVars, lport, call, hnd, connVars>>

\* The duplicate check: same container and port, and not stopped.
Duplicate(g) == \E t \in tunnels : target[t] = g /\ state[t] # "stopped"

\* First critical section of Start (a rejected spec changes nothing).
StartCheck(p, g, lp) ==
  /\ call[p].pc = "idle"
  /\ ~Duplicate(g)
  /\ call' = [call EXCEPT ![p] = [pc |-> "listen", op |-> "start", id |-> 0,
                                  target |-> g, port |-> lp, ln |-> NoLn]]
  /\ UNCHANGED <<dialer, nextID, tunnelVars, lport, hnd, connVars>>

\* net.Listen on 127.0.0.1: the kernel refuses a port that is already listened on.
FreePort(lp) == \A l \in open : lport[l] # lp

\* Listener l is not open and no goroutine holds it any more: its name is free.
Unused(l) == l \notin open /\ \A c \in Clients : hnd[c].ln # l

ListenOk(p) ==
  /\ call[p].pc = "listen"
  /\ \E lp \in Ports, l \in Listeners :
       /\ call[p].port \in {lp, AnyPort}
       /\ FreePort(lp)
       /\ Unused(l) /\ \A k \in 1..(l - 1) : ~Unused(k)
       /\ lport' = [lport EXCEPT ![l] = lp]
       /\ call' = [call EXCEPT ![p].pc = "insert", ![p].ln = l]
  /\ UNCHANGED <<dialer, nextID, tunnelVars, hnd, connVars>>

\* The port is busy, reserved or forbidden: Start and Resume return the error.
ListenErr(p) ==
  /\ call[p].pc = "listen"
  /\ call' = [call EXCEPT ![p] = IdleCall]
  /\ UNCHANGED <<dialer, nextID, tunnelVars, lport, hnd, connVars>>

\* Second critical section of Start.
StartInsert(p) ==
  LET t == nextID IN
  /\ call[p].pc = "insert" /\ call[p].op = "start"
  /\ nextID <= MaxTunnels
  /\ tunnels' = tunnels \cup {t}
  /\ target' = [target EXCEPT ![t] = call[p].target]
  /\ state' = [state EXCEPT ![t] = "active"]
  /\ localPort' = [localPort EXCEPT ![t] = lport[call[p].ln]]
  /\ ln' = [ln EXCEPT ![t] = call[p].ln]
  /\ nextID' = nextID + 1
  /\ call' = [call EXCEPT ![p] = IdleCall]
  /\ UNCHANGED <<dialer, nconns, clients, remotes, lport, hnd, connVars>>

\* Toggle's critical section: pick the branch from the state seen here.
Toggle(p, t) ==
  /\ call[p].pc = "idle"
  /\ t \in tunnels
  /\ call' = [call EXCEPT ![p] = [IdleCall EXCEPT
                !.pc = IF state[t] = "stopped" THEN "check" ELSE "stop",
                !.op = "resume", !.id = t]]
  /\ UNCHANGED <<dialer, nextID, tunnelVars, lport, hnd, connVars>>

\* Resume binds the port the tunnel was first given.
MutantResumePort(t) == AnyPort
ResumePort(t) == localPort[t]

\* First critical section of Resume.
ResumeCheck(p) ==
  LET t == call[p].id IN
  /\ call[p].pc = "check"
  /\ call' = [call EXCEPT ![p] =
       IF t \in tunnels /\ state[t] = "stopped"
         THEN [@ EXCEPT !.pc = "listen", !.port = ResumePort(t)]
         ELSE IdleCall]
  /\ UNCHANGED <<dialer, nextID, tunnelVars, lport, hnd, connVars>>

\* Resume's second look: is the tunnel still listed and still stopped?
MutantStillStopped(t) == TRUE
StillStopped(t) == t \in tunnels /\ state[t] = "stopped"

\* Second critical section of Resume.
ResumeInsert(p) ==
  LET t == call[p].id IN
  /\ call[p].pc = "insert" /\ call[p].op = "resume"
  /\ call' = [call EXCEPT ![p] = IdleCall]
  /\ \/ /\ StillStopped(t)
        /\ ln' = [ln EXCEPT ![t] = call[p].ln]
        /\ state' = [state EXCEPT ![t] = "active"]
        /\ UNCHANGED lport
     \/ /\ ~StillStopped(t)
        /\ lport' = [lport EXCEPT ![call[p].ln] = AnyPort]
        /\ UNCHANGED <<ln, state>>
  /\ UNCHANGED <<dialer, nextID, tunnels, target, localPort, nconns, clients, remotes,
                 hnd, connVars>>

-----------------------------------------------------------------------------
\* The connections closeLocked hands to its background closer.
MutantCut(S) == {<<"remote", c>> : c \in remoteOpen \cap UNION {remotes[t] : t \in S}}
Cut(S) == {<<"client", c>> : c \in clientOpen \cap UNION {clients[t] : t \in S}}
          \cup {<<"remote", c>> : c \in remoteOpen \cap UNION {remotes[t] : t \in S}}

\* t.closeLocked() for every t of S: the listeners close at once, the
\* connections are forgotten here and closed by a goroutine of their own (which
\* does nothing to one that is already closed: closing holds the open ones).
CloseLocked(S) ==
  /\ lport' = [l \in Listeners |-> IF \E t \in S : ln[t] = l THEN AnyPort ELSE lport[l]]
  /\ ln' = [t \in Ids |-> IF t \in S THEN NoLn ELSE ln[t]]
  /\ clients' = [t \in Ids |-> IF t \in S THEN {} ELSE clients[t]]
  /\ remotes' = [t \in Ids |-> IF t \in S THEN {} ELSE remotes[t]]
  /\ nconns' = [t \in Ids |-> IF t \in S THEN 0 ELSE nconns[t]]
  /\ closing' = closing \cup Cut(S)

\* Stop, and the Get Toggle ends with (which changes nothing).
Stop(p) ==
  LET t == call[p].id IN
  /\ call[p].pc = "stop"
  /\ call' = [call EXCEPT ![p] = IdleCall]
  /\ \/ /\ t \in tunnels
        /\ CloseLocked({t})
        /\ state' = [state EXCEPT ![t] = "stopped"]
     \/ /\ t \notin tunnels
        /\ UNCHANGED <<lport, ln, clients, remotes, nconns, closing, state>>
  /\ UNCHANGED <<dialer, nextID, tunnels, target, localPort, hnd,
                 clientOpen, remoteOpen>>

\* A removed tunnel's record is garbage: its state is put back to the initial one.
Forget(S) ==
  /\ tunnels' = tunnels \ S
  /\ state' = [t \in Ids |-> IF t \in S THEN "active" ELSE state[t]]

Remove(t) ==
  /\ t \in tunnels
  /\ CloseLocked({t})
  /\ Forget({t})
  /\ UNCHANGED <<dialer, nextID, target, localPort, call, hnd,
                 clientOpen, remoteOpen>>

CloseAll ==
  /\ tunnels # {}
  /\ CloseLocked(tunnels)
  /\ Forget(tunnels)
  /\ UNCHANGED <<dialer, nextID, target, localPort, call, hnd,
                 clientOpen, remoteOpen>>

\* The goroutine closeLocked started closes one more connection.
CloseConn(k, c) ==
  /\ <<k, c>> \in closing
  /\ closing' = closing \ {<<k, c>>}
  /\ clientOpen' = IF k = "client" THEN clientOpen \ {c} ELSE clientOpen
  /\ remoteOpen' = IF k = "remote" THEN remoteOpen \ {c} ELSE remoteOpen
  /\ UNCHANGED <<dialer, nextID, tunnelVars, lport, call, hnd>>

-----------------------------------------------------------------------------
Goto(c, pc) == hnd' = [hnd EXCEPT ![c].pc = pc]
Finished == [pc |-> "done", tun |-> 0, ln |-> NoLn, via |-> NoDialer]

\* serve: Accept returns a client of t's listener (one at a time per listener).
Accept(t, c) ==
  /\ hnd[c].pc = "idle"
  /\ ln[t] \in open
  /\ \A d \in Clients : ~(hnd[d].pc = "accepted" /\ hnd[d].ln = ln[t])
  /\ hnd' = [hnd EXCEPT ![c] = [pc |-> "accepted", tun |-> t, ln |-> ln[t], via |-> NoDialer]]
  /\ clientOpen' = clientOpen \cup {c}
  /\ UNCHANGED <<dialer, nextID, tunnelVars, lport, call, remoteOpen, closing>>

\* serve's check that the listener is still the tunnel's.
MutantServesCurrent(c) == ln[hnd[c].tun] # NoLn
ServesCurrent(c) == ln[hnd[c].tun] = hnd[c].ln

\* serve, after Accept: register the client, or drop it and leave the loop.
ServeRegister(c) ==
  LET t == hnd[c].tun IN
  /\ hnd[c].pc = "accepted"
  /\ \/ /\ ServesCurrent(c)
        /\ clients' = [clients EXCEPT ![t] = @ \cup {c}]
        /\ nconns' = [nconns EXCEPT ![t] = @ + 1]
        /\ hnd' = [hnd EXCEPT ![c].pc = "dial", ![c].via = dialer]
        /\ UNCHANGED clientOpen
     \/ /\ ~ServesCurrent(c)
        /\ clientOpen' = clientOpen \ {c}
        /\ hnd' = [hnd EXCEPT ![c] = Finished]
        /\ UNCHANGED <<clients, nconns>>
  /\ UNCHANGED <<dialer, nextID, tunnels, target, state, localPort, ln, remotes, lport,
                 call, remoteOpen, closing>>

\* handle: DialPort through the dialer captured when the client was registered.
Dial(c) ==
  /\ hnd[c].pc = "dial"
  /\ \/ /\ hnd[c].via # NoDialer
        /\ hnd' = [hnd EXCEPT ![c].pc = "dialed", ![c].via = NoDialer]
        /\ remoteOpen' = remoteOpen \cup {c}
     \/ /\ hnd' = [hnd EXCEPT ![c].pc = "failed", ![c].via = NoDialer]
        /\ UNCHANGED remoteOpen
  /\ UNCHANGED <<dialer, nextID, tunnelVars, lport, call, clientOpen, closing>>

\* markDial: the outcome becomes the tunnel's state unless it was stopped (nobody
\* sees what it writes to a removed tunnel).
MutantDialState(t, s) == IF t \in tunnels THEN s ELSE state[t]
DialState(t, s) == IF IsOpen(t) THEN s ELSE state[t]

MarkDial(c) ==
  LET t == hnd[c].tun IN
  /\ \/ /\ hnd[c].pc = "dialed"
        /\ state' = [state EXCEPT ![t] = DialState(t, "active")]
        /\ Goto(c, "register")
     \/ /\ hnd[c].pc = "failed"
        /\ state' = [state EXCEPT ![t] = DialState(t, "failing")]
        /\ Goto(c, "release")
  /\ UNCHANGED <<dialer, nextID, tunnels, target, localPort, nconns, ln, clients, remotes,
                 lport, call, connVars>>

\* handle: remember the dialed connection, whatever happened to the tunnel meanwhile.
RegisterRemote(c) ==
  /\ hnd[c].pc = "register"
  /\ remotes' = [remotes EXCEPT ![hnd[c].tun] = @ \cup {c}]
  /\ Goto(c, "pipe")
  /\ UNCHANGED <<dialer, nextID, tunnels, target, state, localPort, nconns, ln, clients,
                 lport, call, connVars>>

\* pipe returns when both directions ended: the peers may end them at any time,
\* and must once both connections are closed on our side.
Pipe(c) ==
  /\ hnd[c].pc = "pipe"
  /\ clientOpen' = clientOpen \ {c}
  /\ remoteOpen' = remoteOpen \ {c}
  /\ closing' = closing \ {<<"client", c>>, <<"remote", c>>}
  /\ Goto(c, "forget")
  /\ UNCHANGED <<dialer, nextID, tunnelVars, lport, call>>

PipeCut(c) == c \notin clientOpen /\ c \notin remoteOpen /\ Pipe(c)

ForgetRemote(c) ==
  /\ hnd[c].pc = "forget"
  /\ remotes' = [remotes EXCEPT ![hnd[c].tun] = @ \ {c}]
  /\ Goto(c, "release")
  /\ UNCHANGED <<dialer, nextID, tunnels, target, state, localPort, nconns, ln, clients,
                 lport, call, connVars>>

\* release counts a client out only if closeLocked has not forgotten it already.
MutantCountedOut(t, c) == nconns[t] - 1
CountedOut(t, c) == IF c \in clients[t] THEN nconns[t] - 1 ELSE nconns[t]

Release(c) ==
  LET t == hnd[c].tun IN
  /\ hnd[c].pc = "release"
  /\ clientOpen' = clientOpen \ {c}
  /\ closing' = closing \ {<<"client", c>>}
  /\ nconns' = [nconns EXCEPT ![t] = CountedOut(t, c)]
  /\ clients' = [clients EXCEPT ![t] = @ \ {c}]
  /\ hnd' = [hnd EXCEPT ![c] = Finished]
  /\ UNCHANGED <<dialer, nextID, tunnels, target, state, localPort, ln, remotes, lport,
                 call, remoteOpen>>

-----------------------------------------------------------------------------
CallStep(p) ==
  \/ \E g \in Targets, lp \in AskedPorts : StartCheck(p, g, lp)
  \/ \E t \in Ids : Toggle(p, t)
  \/ ListenOk(p) \/ ListenErr(p)
  \/ StartInsert(p) \/ ResumeCheck(p) \/ ResumeInsert(p) \/ Stop(p)

HandlerStep(c) ==
  \/ ServeRegister(c) \/ Dial(c) \/ MarkDial(c) \/ RegisterRemote(c)
  \/ ForgetRemote(c) \/ Release(c)

Next ==
  \/ \E d \in Dialers \cup {NoDialer} : SetDialer(d)
  \/ \E p \in Procs : CallStep(p)
  \/ \E t \in Ids : Remove(t)
  \/ CloseAll
  \/ \E k \in {"client", "remote"}, c \in Clients : CloseConn(k, c)
  \/ \E t \in Ids, c \in Clients : Accept(t, c)
  \/ \E c \in Clients : HandlerStep(c)
  \/ \E c \in Clients : Pipe(c)

\* Goroutines that can run do run; nothing makes a peer end a connection, a user
\* call or the environment connect.
Fairness ==
  /\ \A c \in Clients : WF_vars(HandlerStep(c)) /\ WF_vars(PipeCut(c))
  /\ \A k \in {"client", "remote"}, c \in Clients : WF_vars(CloseConn(k, c))

Spec == Init /\ [][Next]_vars /\ Fairness

-----------------------------------------------------------------------------
\* Info.Conns is exactly the number of client connections the tunnel holds: the
\* count the list shows never drifts, however closeLocked (which zeroes it) and
\* the release of handlers it overtook interleave.
ConnsMatchClients == \A t \in Ids : nconns[t] = Cardinality(clients[t])

\* No local port is leaked: an open listener is the listener of one listed,
\* not stopped tunnel, or is in the hands of a Start or Resume about to insert it.
ListenerOwned ==
  \A l \in open :
    \/ \E t \in tunnels : state[t] # "stopped" /\ ln[t] = l
    \/ \E p \in Procs : call[p].pc = "insert" /\ call[p].ln = l

\* A tunnel shown as active or failing really listens, on the port it shows, and
\* on a port no other such tunnel shows.
OpenTunnelListens ==
  \A t \in Ids : IsOpen(t) =>
    /\ ln[t] \in open /\ lport[ln[t]] = localPort[t]
    /\ \A u \in Ids \ {t} : IsOpen(u) => localPort[u] # localPort[t]

\* A tunnel holds only clients that came in through its present listener: a
\* client of an earlier life, accepted before a Stop and a Resume, is not kept.
ClientsOfListener ==
  \A t \in Ids : \A c \in clients[t] :
    /\ ln[t] # NoLn /\ hnd[c].tun = t /\ hnd[c].ln = ln[t]
    /\ c \notin clientOpen => hnd[c].pc \in {"forget", "release"}

\* The tunnels' connections: each is counted, and is of the tunnel's present
\* listener (serve, closeLocked, release).
ConnsRight == ConnsMatchClients /\ ClientsOfListener

\* The listeners: none is lost and every tunnel shown as open has its own, on
\* the port it shows (Start, Resume, Stop, Remove).
ListenersRight == ListenerOwned /\ OpenTunnelListens

\* A stopped or removed tunnel cuts its clients off: a client whose listener is
\* no longer its tunnel's is closed in the end, whatever its handler is doing.
CutOffClosed ==
  \A c \in Clients :
    (hnd[c].pc \notin {"idle", "done"} /\ c \in clientOpen /\ ~ServesCurrent(c)) ~> c \notin clientOpen

\* What the comment of Start says: a container and port already forwarded and
\* not stopped is rejected, so no two open tunnels forward the same target.
NoDuplicate ==
  \A t, u \in tunnels : IsOpen(t) /\ IsOpen(u) /\ target[t] = target[u] => t = u

-----------------------------------------------------------------------------
TunnelStatus ==
  [t \in Ids |-> IF t >= nextID THEN "unborn"
                 ELSE IF t \notin tunnels THEN "removed"
                 ELSE IF state[t] = "stopped" THEN "stopped" ELSE "open"]

Abs == INSTANCE Tunnels WITH status <- TunnelStatus, boundTo <- localPort

\* Seen as a list of tunnels, the manager does what module Tunnels promises: no
\* identifier is reused, a stopped tunnel returns on its own port only, a removed
\* one never returns, and two open tunnels never share a local port.
ImplementsTunnels == Abs!Spec
=============================================================================
