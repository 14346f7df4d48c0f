--------------------------- MODULE PortFwdProofs ---------------------------
(***************************************************************************)
(* Proofs about PortFwd, for any number of goroutines, clients, targets,   *)
(* ports, tunnels and listeners.  The invariants of the runs are not       *)
(* inductive by themselves: that no listener is leaked rests on who holds  *)
(* which listener (ListenerInv), that the connection count is right on     *)
(* whose client each connection is (ConnInv).                              *)
(***************************************************************************)
EXTENDS PortFwd, FiniteSetTheorems, TLAPS

CallType == call \in [Procs -> Call]
ListenerType ==
  /\ nextID \in 1..(MaxTunnels + 1)
  /\ tunnels \in SUBSET Ids
  /\ target \in [Ids -> Targets]
  /\ state \in [Ids -> {"active", "failing", "stopped"}]
  /\ localPort \in [Ids -> Ports \cup {AnyPort}]
  /\ ln \in [Ids -> Listeners \cup {NoLn}]
  /\ lport \in [Listeners -> Ports \cup {AnyPort}]
  /\ CallType

\* Identifiers below nextID are the ones handed out, each with its port.
Born ==
  /\ \A t \in tunnels : t < nextID
  /\ \A t \in Ids : t < nextID => localPort[t] \in Ports

\* A tunnel has a listener exactly while it is open, and its own one.
OwnListener ==
  /\ \A t \in Ids : IsOpen(t) => ln[t] \in Listeners /\ lport[ln[t]] = localPort[t]
  /\ \A t \in Ids : ~IsOpen(t) => ln[t] = NoLn
  /\ \A t, u \in Ids : ln[t] = ln[u] /\ ln[t] # NoLn => t = u

\* The kernel never lets two open listeners share a port.
PortsDistinct == \A k, l \in open : lport[k] = lport[l] => k = l

\* A call about to insert its listener is the only one that knows it.
Held ==
  \A p \in Procs : call[p].pc = "insert" =>
    /\ call[p].ln \in open
    /\ \A t \in Ids : ln[t] # call[p].ln
    /\ \A q \in Procs \ {p} : call[q].pc = "insert" => call[q].ln # call[p].ln

\* A resuming call is about a tunnel that exists or existed, and binds its port.
Resuming ==
  \A p \in Procs :
    /\ call[p].pc \in {"check", "stop"} => call[p].op = "resume"
    /\ call[p].pc # "idle" /\ call[p].op = "resume" =>
         call[p].id \in Ids /\ call[p].id < nextID
    /\ call[p].pc = "listen" /\ call[p].op = "resume" =>
         call[p].port = localPort[call[p].id]
    /\ call[p].pc = "insert" /\ call[p].op = "resume" =>
         lport[call[p].ln] = localPort[call[p].id]

ListenerInv ==
  /\ ListenerType /\ Born /\ OwnListener /\ PortsDistinct /\ Held /\ Resuming
  /\ ListenerOwned

listenerVars == <<nextID, tunnels, target, state, localPort, ln, lport, call>>

\* A goroutine outside the manager is a well-formed call record.
LEMMA IdleCallType == IdleCall \in Call
  BY PortFwdAssumption DEF IdleCall, Call

\* NewManager: no tunnel, no listener, so nothing to own.
LEMMA ListenerInit == Init => ListenerInv
<1> SUFFICES ASSUME Init PROVE ListenerInv
  OBVIOUS
<1> USE PortFwdAssumption, IdleCallType
      DEF Init, Ids, Listeners, NoLn, AnyPort, open
<1>1. ListenerType
  BY DEF ListenerType, CallType
<1>2. Born /\ OwnListener /\ PortsDistinct /\ ListenerOwned
  BY DEF Born, OwnListener, PortsDistinct, ListenerOwned, IsOpen
<1>3. Held /\ Resuming
  BY DEF Held, Resuming, IdleCall
<1> QED BY <1>1, <1>2, <1>3 DEF ListenerInv

\* A step that leaves the listeners' bookkeeping alone preserves ListenerInv.
LEMMA ListenerStutter ==
  ASSUME ListenerInv, UNCHANGED listenerVars
  PROVE  ListenerInv'
BY DEF ListenerInv, ListenerType, CallType, Born, OwnListener, PortsDistinct, Held,
       Resuming, ListenerOwned, IsOpen, listenerVars, open

\* The lemmas below take the calls' critical sections one at a time.
LEMMA ListenerStart ==
  ASSUME ListenerInv, NEW p \in Procs, NEW g \in Targets, NEW lp \in AskedPorts,
         StartCheck(p, g, lp)
  PROVE  ListenerInv'
<1> USE DEF ListenerInv, StartCheck, tunnelVars
<1>1. ListenerType'
  BY PortFwdAssumption DEF ListenerType, CallType, Call, NoLn, AnyPort
<1>2. Born' /\ OwnListener' /\ PortsDistinct'
  BY DEF Born, OwnListener, PortsDistinct, IsOpen, open
<1>3. Held'
  BY DEF Held, ListenerType, CallType, open
<1>4. Resuming'
  BY DEF Resuming, ListenerType, CallType
<1>5. ListenerOwned'
  BY DEF ListenerOwned, ListenerType, CallType, open
<1> QED BY <1>1, <1>2, <1>3, <1>4, <1>5

\* A call that ends without holding a listener changes nothing else.
LEMMA ListenerCallEnds ==
  ASSUME ListenerInv, NEW p \in Procs, call[p].pc # "insert",
         call' = [call EXCEPT ![p] = IdleCall],
         UNCHANGED <<nextID, tunnelVars, lport>>
  PROVE  ListenerInv'
<1> USE IdleCallType DEF ListenerInv, tunnelVars
<1>1. IdleCall.pc = "idle"
  BY DEF IdleCall
<1>2. ListenerType'
  BY DEF ListenerType, CallType
<1>3. Born' /\ OwnListener' /\ PortsDistinct'
  BY DEF Born, OwnListener, PortsDistinct, IsOpen, open
<1>4. Held'
  BY <1>1 DEF Held, ListenerType, CallType, open
<1>5. Resuming'
  BY <1>1 DEF Resuming, ListenerType, CallType
<1>6. ListenerOwned'
  BY <1>1 DEF ListenerOwned, ListenerType, CallType, open
<1> QED BY <1>2, <1>3, <1>4, <1>5, <1>6

\* net.Listen returns: the new listener is the caller's alone, on a port nobody else
\* listens on (and, for a Resume, on the port the tunnel was first given).
LEMMA ListenerListen ==
  ASSUME ListenerInv, NEW p \in Procs, ListenOk(p)
  PROVE  ListenerInv'
<1> USE DEF ListenerInv
<1>0. PICK lp \in Ports, l \in Listeners :
        /\ call[p].pc = "listen"
        /\ call[p].port \in {lp, AnyPort} /\ FreePort(lp) /\ Unused(l)
        /\ lport' = [lport EXCEPT ![l] = lp]
        /\ call' = [call EXCEPT ![p].pc = "insert", ![p].ln = l]
        /\ UNCHANGED <<nextID, tunnels, target, state, localPort, ln>>
  BY DEF ListenOk, tunnelVars
<1>1. lp # AnyPort /\ l # NoLn /\ l \notin open
  BY <1>0, PortFwdAssumption DEF AnyPort, NoLn, Listeners, Unused
<1>2. open' = open \cup {l}
  BY <1>0, <1>1 DEF open, ListenerType
<1>3. \A t \in Ids : ln[t] # l
  <2> SUFFICES ASSUME NEW t \in Ids, ln[t] = l PROVE FALSE
    OBVIOUS
  <2>1. IsOpen(t) /\ lport[l] = localPort[t]
    BY <1>0, <1>1 DEF OwnListener
  <2>2. localPort[t] \in Ports
    BY <1>0, <2>1 DEF Born, IsOpen
  <2> QED BY <1>0, <1>1, <2>1, <2>2, PortFwdAssumption DEF open, AnyPort
<1>4. \A q \in Procs : call[q].pc = "insert" => call[q].ln # l
  BY <1>0, <1>1 DEF Held
<1>5. /\ call'[p].pc = "insert" /\ call'[p].ln = l
      /\ call'[p].op = call[p].op /\ call'[p].id = call[p].id
      /\ call'[p] \in Call
      /\ \A q \in Procs \ {p} : call'[q] = call[q]
  BY <1>0 DEF ListenerType, CallType, Call
<1>6. ListenerType'
  <2>1. call' \in [Procs -> Call]
    BY <1>0, <1>5 DEF ListenerType, CallType
  <2>2. lport' \in [Listeners -> Ports \cup {AnyPort}]
    BY <1>0 DEF ListenerType
  <2> QED BY <1>0, <2>1, <2>2 DEF ListenerType, CallType
<1>7. Born' /\ OwnListener'
  <2>1. \A t \in Ids : IsOpen(t) => lport'[ln[t]] = lport[ln[t]]
    BY <1>0, <1>3 DEF OwnListener, ListenerType
  <2> QED BY <1>0, <2>1 DEF Born, OwnListener, IsOpen
<1>8. PortsDistinct'
  BY <1>0, <1>2, <1>1 DEF PortsDistinct, ListenerType, FreePort, open
<1>9. Held'
  <2>1. ln' = ln
    BY <1>0
  <2>2. \A q \in Procs \ {p} : call[q].pc = "insert" =>
          call[q].ln \in open /\ call[q].ln # l /\ \A t \in Ids : ln[t] # call[q].ln
    BY <1>4 DEF Held
  <2>3. \A q \in Procs \ {p}, r \in Procs \ {p} : q # r =>
          (call[q].pc = "insert" /\ call[r].pc = "insert" => call[q].ln # call[r].ln)
    BY DEF Held
  <2> QED BY <1>2, <1>3, <1>5, <2>1, <2>2, <2>3 DEF Held
<1>10. Resuming'
  <2> SUFFICES ASSUME NEW q \in Procs PROVE Resuming!(q)'
    BY DEF Resuming
  <2>1. CASE q # p
    BY <1>0, <2>1, <1>4, <1>5 DEF Resuming, ListenerType, Held, open
  <2>2. CASE q = p
    BY <1>0, <2>2, <1>5, PortFwdAssumption DEF Resuming, ListenerType, Born, AnyPort
  <2> QED BY <2>1, <2>2
<1>11. ListenerOwned'
  <2>1. UNCHANGED <<tunnels, state, ln>>
    BY <1>0
  <2>2. call[p].pc # "insert"
    BY <1>0
  <2> QED BY <1>2, <1>5, <2>1, <2>2 DEF ListenerOwned
<1> QED BY <1>6, <1>7, <1>8, <1>9, <1>10, <1>11

\* Start's second critical section hands the caller's listener to a new tunnel.
LEMMA ListenerStartInsert ==
  ASSUME ListenerInv, NEW p \in Procs, StartInsert(p)
  PROVE  ListenerInv'
<1> USE IdleCallType DEF ListenerInv, StartInsert
<1>1. IdleCall.pc = "idle"
  BY DEF IdleCall
<1>2. nextID \in Ids /\ nextID \notin tunnels /\ ~IsOpen(nextID) /\ ln[nextID] = NoLn
  BY PortFwdAssumption DEF ListenerType, Ids, Born, IsOpen, OwnListener
<1>3. /\ call[p].ln \in Listeners /\ lport[call[p].ln] # AnyPort
      /\ lport[call[p].ln] \in Ports /\ call[p].ln # NoLn
  BY DEF Held, open, ListenerType, NoLn, Listeners
<1>4. ListenerType'
  BY <1>2, <1>3, PortFwdAssumption DEF ListenerType, CallType, Call, Ids
<1>5. Born'
  BY <1>2, <1>3 DEF Born, ListenerType, Ids
<1>6. OwnListener'
  BY <1>2, <1>3 DEF OwnListener, IsOpen, ListenerType, Held
<1>7. PortsDistinct' /\ open' = open
  BY DEF PortsDistinct, open
<1>8. Held'
  BY <1>1, <1>2, <1>7 DEF Held, ListenerType, CallType
<1>9. Resuming'
  <2> SUFFICES ASSUME NEW q \in Procs PROVE Resuming!(q)'
    BY DEF Resuming
  <2>1. CASE q # p
    BY <2>1 DEF Resuming, ListenerType, CallType, Ids
  <2>2. CASE q = p
    BY <2>2, <1>1 DEF ListenerType, CallType
  <2> QED BY <2>1, <2>2
<1>10. ListenerOwned'
  BY <1>1, <1>2, <1>7 DEF ListenerOwned, ListenerType, CallType, IsOpen, OwnListener
<1> QED BY <1>4, <1>5, <1>6, <1>7, <1>8, <1>9, <1>10

\* Toggle only picks what to do next; for a tunnel that is listed.
LEMMA ListenerToggle ==
  ASSUME ListenerInv, NEW p \in Procs, NEW t \in Ids, Toggle(p, t)
  PROVE  ListenerInv'
<1> USE IdleCallType DEF ListenerInv, Toggle, tunnelVars
<1>1. call'[p].pc \in {"check", "stop"} /\ call'[p].op = "resume" /\ call'[p].id = t
  BY DEF ListenerType, CallType, IdleCall
<1>2. ListenerType'
  BY DEF ListenerType, CallType, Call
<1>3. Born' /\ OwnListener' /\ PortsDistinct'
  BY DEF Born, OwnListener, PortsDistinct, IsOpen, open
<1>4. Held'
  BY <1>1 DEF Held, ListenerType, CallType, open
<1>5. Resuming'
  BY <1>1 DEF Resuming, ListenerType, CallType, Born
<1>6. ListenerOwned'
  BY <1>1 DEF ListenerOwned, ListenerType, CallType, open
<1> QED BY <1>2, <1>3, <1>4, <1>5, <1>6

\* Resume's first look, when it goes on: the port it will bind is the tunnel's.
LEMMA ListenerResumeCheck ==
  ASSUME ListenerInv, NEW p \in Procs, ResumeCheck(p),
         call[p].id \in tunnels, state[call[p].id] = "stopped"
  PROVE  ListenerInv'
<1> USE DEF ListenerInv, ResumeCheck, tunnelVars, ResumePort
<1>1. /\ call'[p].pc = "listen" /\ call'[p].op = "resume"
      /\ call'[p].id = call[p].id /\ call'[p].port = localPort[call[p].id]
      /\ call'[p] \in Call
  BY DEF ListenerType, CallType, Call, Resuming
<1>2. ListenerType'
  BY <1>1 DEF ListenerType, CallType
<1>3. Born' /\ OwnListener' /\ PortsDistinct'
  BY DEF Born, OwnListener, PortsDistinct, IsOpen, open
<1>4. Held'
  BY <1>1 DEF Held, ListenerType, CallType, open
<1>5. Resuming'
  BY <1>1 DEF Resuming, ListenerType, CallType
<1>6. ListenerOwned'
  BY <1>1 DEF ListenerOwned, ListenerType, CallType, open
<1> QED BY <1>2, <1>3, <1>4, <1>5, <1>6

\* Resume's second critical section: the listener goes to the tunnel if that is
\* still stopped, and is closed if not; neither way is it lost.
LEMMA ListenerResumeInsert ==
  ASSUME ListenerInv, NEW p \in Procs, ResumeInsert(p)
  PROVE  ListenerInv'
<1> USE IdleCallType DEF ListenerInv
<1> DEFINE t == call[p].id
<1>0. /\ call[p].pc = "insert" /\ call[p].op = "resume"
      /\ call' = [call EXCEPT ![p] = IdleCall]
      /\ UNCHANGED <<nextID, tunnels, target, localPort>>
  BY DEF ResumeInsert
<1>1. /\ t \in Ids /\ t < nextID /\ call[p].ln \in open /\ call[p].ln \in Listeners
      /\ lport[call[p].ln] = localPort[t] /\ call[p].ln # NoLn
      /\ \A u \in Ids : ln[u] # call[p].ln
  BY <1>0, PortFwdAssumption DEF Resuming, Held, open, Listeners, NoLn
<1>2. /\ call'[p].pc = "idle"
      /\ \A q \in Procs \ {p} : call'[q] = call[q]
      /\ CallType'
  BY <1>0 DEF ListenerType, CallType, IdleCall
<1>3. Born' /\ Resuming'
  <2>1. Born'
    BY <1>0 DEF Born
  <2>2. ASSUME NEW q \in Procs PROVE Resuming!(q)'
    <3>1. CASE q = p
      BY <1>2, <3>1
    <3>2. CASE q # p
      <4>1. call'[q] = call[q]
        BY <1>2, <3>2
      <4>2. call[q].pc = "insert" => lport'[call[q].ln] = lport[call[q].ln]
        BY <1>0, <3>2 DEF ResumeInsert, Held, ListenerType, open
      <4> QED BY <1>0, <4>1, <4>2 DEF Resuming
    <3> QED BY <3>1, <3>2
  <2> QED BY <2>1, <2>2 DEF Resuming
<1>4. CASE StillStopped(t)
  <2>1. /\ ln' = [ln EXCEPT ![t] = call[p].ln]
        /\ state' = [state EXCEPT ![t] = "active"] /\ lport' = lport /\ open' = open
    BY <1>4 DEF ResumeInsert, open
  <2>2. ListenerType'
    BY <1>0, <1>1, <1>2, <2>1 DEF ListenerType
  <2>3. OwnListener'
    BY <1>0, <1>1, <1>4, <2>1 DEF OwnListener, IsOpen, ListenerType, StillStopped
  <2>4. PortsDistinct'
    BY <2>1 DEF PortsDistinct
  <2>5. Held'
    BY <1>0, <1>1, <1>2, <2>1 DEF Held, ListenerType
  <2>6. ListenerOwned'
    <3>1. ASSUME NEW l \in open, l # call[p].ln
          PROVE  \/ \E u \in tunnels : state'[u] # "stopped" /\ ln'[u] = l
                 \/ \E q \in Procs : call'[q].pc = "insert" /\ call'[q].ln = l
      <4>1. CASE \E u \in tunnels : state[u] # "stopped" /\ ln[u] = l
        BY <1>4, <2>1, <4>1 DEF StillStopped, ListenerType
      <4>2. CASE \E q \in Procs : call[q].pc = "insert" /\ call[q].ln = l
        BY <1>2, <3>1, <4>2
      <4> QED BY <4>1, <4>2 DEF ListenerOwned
    <3>2. t \in tunnels /\ state'[t] # "stopped" /\ ln'[t] = call[p].ln
      BY <1>1, <1>4, <2>1 DEF StillStopped, ListenerType
    <3> QED BY <1>0, <2>1, <3>1, <3>2 DEF ListenerOwned
  <2> QED BY <1>3, <2>2, <2>3, <2>4, <2>5, <2>6
<1>5. CASE ~StillStopped(t)
  <2>1. /\ lport' = [lport EXCEPT ![call[p].ln] = AnyPort]
        /\ UNCHANGED <<ln, state>>
    BY <1>5 DEF ResumeInsert
  <2>2. open' = open \ {call[p].ln}
    BY <1>1, <2>1 DEF open, ListenerType
  <2>3. ListenerType'
    BY <1>0, <1>2, <2>1 DEF ListenerType
  <2>4. OwnListener'
    BY <1>0, <1>1, <2>1 DEF OwnListener, IsOpen, ListenerType
  <2>5. PortsDistinct'
    BY <1>1, <2>1, <2>2 DEF PortsDistinct, ListenerType, open
  <2>6. Held'
    BY <1>0, <1>1, <1>2, <2>1, <2>2 DEF Held
  <2>7. ListenerOwned'
    BY <1>0, <1>2, <2>1, <2>2 DEF ListenerOwned
  <2> QED BY <1>3, <2>3, <2>4, <2>5, <2>6, <2>7
<1> QED BY <1>4, <1>5

\* closeLocked on the tunnels of S, which then are stopped or no longer listed.
LEMMA ListenerClose ==
  ASSUME ListenerInv, NEW S \in SUBSET tunnels, CloseLocked(S),
         tunnels' \in SUBSET tunnels, \A t \in tunnels \ S : t \in tunnels',
         state' \in [Ids -> {"active", "failing", "stopped"}],
         \A t \in Ids \ S : state'[t] = state[t],
         \A t \in S : t \notin tunnels' \/ state'[t] = "stopped",
         UNCHANGED <<nextID, target, localPort>>,
         CallType', \A q \in Procs : call'[q] = call[q]
                                      \/ (call[q].pc # "insert" /\ call'[q].pc = "idle")
  PROVE  ListenerInv'
<1> USE DEF ListenerInv
<1>0. S \subseteq Ids /\ tunnels' \subseteq Ids
  BY DEF ListenerType
<1>1. /\ ln' = [t \in Ids |-> IF t \in S THEN NoLn ELSE ln[t]]
      /\ lport' = [l \in Listeners |-> IF \E t \in S : ln[t] = l THEN AnyPort ELSE lport[l]]
  BY DEF CloseLocked
<1>2. \A t \in Ids : IsOpen(t)' <=> t \notin S /\ IsOpen(t)
  BY <1>0 DEF IsOpen
<1>3. open' = {l \in open : \A t \in S : ln[t] # l}
  BY <1>1 DEF open
<1>4. ListenerType'
  BY <1>0, <1>1 DEF ListenerType, CloseLocked
<1>5. Born'
  BY DEF Born
<1>6. OwnListener'
  <2>1. ASSUME NEW t \in Ids, IsOpen(t)'
        PROVE  ln'[t] \in Listeners /\ lport'[ln'[t]] = localPort'[t]
    <3>1. t \notin S /\ IsOpen(t) /\ ln'[t] = ln[t] /\ ln[t] \in Listeners /\ ln[t] # NoLn
      BY <1>1, <1>2, <2>1, PortFwdAssumption DEF OwnListener, Listeners, NoLn
    <3>2. \A u \in S : ln[u] # ln[t]
      BY <1>0, <3>1 DEF OwnListener
    <3> QED BY <1>1, <3>1, <3>2 DEF OwnListener
  <2>2. \A t \in Ids : ~IsOpen(t)' => ln'[t] = NoLn
    BY <1>1, <1>2 DEF OwnListener
  <2>3. \A t, u \in Ids : ln'[t] = ln'[u] /\ ln'[t] # NoLn => t = u
    BY <1>1 DEF OwnListener
  <2> QED BY <2>1, <2>2, <2>3 DEF OwnListener
<1>7. PortsDistinct'
  BY <1>1, <1>3 DEF PortsDistinct, open
<1>8. Held'
  <2> SUFFICES ASSUME NEW q \in Procs, call'[q].pc = "insert"
               PROVE  Held!(q)!2'
    BY DEF Held
  <2>1. call'[q] = call[q] /\ call[q].ln \in open /\ \A t \in Ids : ln[t] # call[q].ln
    BY DEF Held
  <2>2. call[q].ln # NoLn
    BY <2>1, PortFwdAssumption DEF open, Listeners, NoLn
  <2>3. call'[q].ln \in open' /\ \A t \in Ids : ln'[t] # call'[q].ln
    BY <1>0, <1>1, <1>3, <2>1, <2>2
  <2>4. \A r \in Procs \ {q} : call'[r].pc = "insert" => call'[r].ln # call'[q].ln
    BY <2>1 DEF Held
  <2> QED BY <2>3, <2>4
<1>9. Resuming'
  <2> SUFFICES ASSUME NEW q \in Procs, call'[q] = call[q] PROVE Resuming!(q)'
    BY DEF Resuming
  <2>1. call[q].pc = "insert" => lport'[call[q].ln] = lport[call[q].ln]
    BY <1>0, <1>1 DEF Held, open
  <2> QED BY <2>1 DEF Resuming
<1>10. ListenerOwned'
  <2> SUFFICES ASSUME NEW l \in open'
               PROVE  \/ \E t \in tunnels' : state'[t] # "stopped" /\ ln'[t] = l
                      \/ \E q \in Procs : call'[q].pc = "insert" /\ call'[q].ln = l
    BY DEF ListenerOwned
  <2>1. l \in open /\ \A t \in S : ln[t] # l
    BY <1>3
  <2>2. CASE \E t \in tunnels : state[t] # "stopped" /\ ln[t] = l
    BY <1>0, <1>1, <2>1, <2>2 DEF ListenerType
  <2>3. CASE \E q \in Procs : call[q].pc = "insert" /\ call[q].ln = l
    BY <2>3
  <2> QED BY <2>1, <2>2, <2>3 DEF ListenerOwned
<1> QED BY <1>4, <1>5, <1>6, <1>7, <1>8, <1>9, <1>10

\* markDial moves a tunnel between active and failing, never into or out of stopped.
LEMMA ListenerMarkDial ==
  ASSUME ListenerInv, NEW c \in Clients, MarkDial(c)
  PROVE  ListenerInv'
<1> DEFINE t == hnd[c].tun
<1>1. /\ UNCHANGED <<nextID, tunnels, target, localPort, ln, lport, call>> /\ open' = open
      /\ \E s \in {"active", "failing"} : state' = [state EXCEPT ![t] = DialState(t, s)]
  BY DEF MarkDial, open
<1>2. state' \in [Ids -> {"active", "failing", "stopped"}]
  BY <1>1 DEF ListenerInv, ListenerType, DialState
<1>3. \A u \in tunnels : state'[u] = "stopped" <=> state[u] = "stopped"
  BY <1>1 DEF ListenerInv, ListenerType, DialState, IsOpen
<1>4. \A u \in Ids : IsOpen(u)' <=> IsOpen(u)
  BY <1>1, <1>3 DEF IsOpen
<1>5. ListenerType' /\ Born' /\ PortsDistinct' /\ Held' /\ Resuming'
  <2>1. ListenerType'
    BY <1>1, <1>2 DEF ListenerInv, ListenerType, CallType
  <2>2. Born' /\ PortsDistinct' /\ Held' /\ Resuming'
    BY <1>1 DEF ListenerInv, Born, PortsDistinct, Held, Resuming
  <2> QED BY <2>1, <2>2
<1>6. OwnListener' /\ ListenerOwned'
  BY <1>1, <1>3, <1>4 DEF ListenerInv, OwnListener, ListenerOwned
<1> QED BY <1>5, <1>6 DEF ListenerInv

\* ListenerInv is inductive: the lemmas above, one per action that disturbs it.
LEMMA ListenerStep == ListenerInv /\ [Next]_vars => ListenerInv'
<1> SUFFICES ASSUME ListenerInv, [Next]_vars PROVE ListenerInv'
  OBVIOUS
<1>1. ASSUME NEW p \in Procs, CallStep(p) PROVE ListenerInv'
  <2>1. ASSUME NEW g \in Targets, NEW lp \in AskedPorts, StartCheck(p, g, lp)
        PROVE  ListenerInv'
    BY <2>1, ListenerStart
  <2>2. ASSUME NEW t \in Ids, Toggle(p, t) PROVE ListenerInv'
    BY <2>2, ListenerToggle
  <2>3. CASE ListenOk(p)
    BY <2>3, ListenerListen
  <2>4. CASE ListenErr(p)
    BY <2>4, ListenerCallEnds DEF ListenErr
  <2>5. CASE StartInsert(p)
    BY <2>5, ListenerStartInsert
  <2>6. CASE ResumeCheck(p)
    <3>1. CASE call[p].id \in tunnels /\ state[call[p].id] = "stopped"
      BY <2>6, <3>1, ListenerResumeCheck
    <3>2. CASE ~(call[p].id \in tunnels /\ state[call[p].id] = "stopped")
      BY <2>6, <3>2, ListenerCallEnds DEF ResumeCheck
    <3> QED BY <3>1, <3>2
  <2>7. CASE ResumeInsert(p)
    BY <2>7, ListenerResumeInsert
  <2>8. CASE Stop(p)
    <3> DEFINE t == call[p].id
    <3>1. CASE t \notin tunnels
      BY <2>8, <3>1, ListenerCallEnds DEF Stop, tunnelVars
    <3>2. CASE t \in tunnels
      <4>1. CloseLocked({t}) /\ state' = [state EXCEPT ![t] = "stopped"]
            /\ UNCHANGED <<nextID, tunnels, target, localPort>>
        BY <2>8, <3>2 DEF Stop
      <4>2. CallType' /\ \A q \in Procs : call'[q] = call[q]
                            \/ (call[q].pc # "insert" /\ call'[q].pc = "idle")
        BY <2>8, IdleCallType DEF Stop, IdleCall, ListenerInv, ListenerType, CallType
      <4>3. /\ state' \in [Ids -> {"active", "failing", "stopped"}] /\ state'[t] = "stopped"
            /\ \A u \in Ids \ {t} : state'[u] = state[u]
        BY <3>2, <4>1 DEF ListenerInv, ListenerType
      <4> QED BY <3>2, <4>1, <4>2, <4>3, ListenerClose
    <3> QED BY <3>1, <3>2
  <2> QED BY <1>1, <2>1, <2>2, <2>3, <2>4, <2>5, <2>6, <2>7, <2>8 DEF CallStep
<1>2. ASSUME NEW S \in SUBSET tunnels, CloseLocked(S), Forget(S),
             UNCHANGED <<nextID, target, localPort, call>>
      PROVE  ListenerInv'
  <2>1. /\ tunnels' \in SUBSET tunnels /\ \A t \in tunnels \ S : t \in tunnels'
        /\ \A t \in S : t \notin tunnels'
    BY <1>2 DEF Forget
  <2>2. /\ state' \in [Ids -> {"active", "failing", "stopped"}]
        /\ \A t \in Ids \ S : state'[t] = state[t]
    BY <1>2 DEF Forget, ListenerInv, ListenerType
  <2>3. CallType' /\ \A q \in Procs : call'[q] = call[q]
    BY <1>2 DEF ListenerInv, ListenerType, CallType
  <2> QED BY <1>2, <2>1, <2>2, <2>3, ListenerClose
<1>3. ASSUME NEW t \in Ids, Remove(t) PROVE ListenerInv'
  BY <1>3, <1>2 DEF Remove
<1>4. CASE CloseAll
  BY <1>4, <1>2 DEF CloseAll
<1>5. ASSUME NEW c \in Clients, HandlerStep(c) PROVE ListenerInv'
  <2>1. CASE MarkDial(c)
    BY <2>1, ListenerMarkDial
  <2>2. CASE ServeRegister(c) \/ Dial(c) \/ RegisterRemote(c) \/ ForgetRemote(c) \/ Release(c)
    BY <2>2, ListenerStutter DEF ServeRegister, Dial, RegisterRemote, ForgetRemote, Release,
                                 listenerVars, tunnelVars
  <2> QED BY <1>5, <2>1, <2>2 DEF HandlerStep
<1>6. ASSUME NEW d \in Dialers \cup {NoDialer}, SetDialer(d) PROVE ListenerInv'
  BY <1>6, ListenerStutter DEF SetDialer, listenerVars, tunnelVars
<1>7. ASSUME NEW k \in {"client", "remote"}, NEW c \in Clients, CloseConn(k, c)
      PROVE  ListenerInv'
  BY <1>7, ListenerStutter DEF CloseConn, listenerVars, tunnelVars
<1>8. ASSUME NEW t \in Ids, NEW c \in Clients, Accept(t, c) PROVE ListenerInv'
  BY <1>8, ListenerStutter DEF Accept, listenerVars, tunnelVars
<1>9. ASSUME NEW c \in Clients, Pipe(c) PROVE ListenerInv'
  BY <1>9, ListenerStutter DEF Pipe, listenerVars, tunnelVars
<1>10. CASE UNCHANGED vars
  BY <1>10, ListenerStutter DEF vars, listenerVars, tunnelVars
<1> QED BY <1>1, <1>3, <1>4, <1>5, <1>6, <1>7, <1>8, <1>9, <1>10 DEF Next

\* In every reachable state each listener is held by one open tunnel or by one
\* call about to insert it, whatever Start, Toggle, Remove and CloseAll interleave.
THEOREM ListenerInvariant == Spec => []ListenerInv
BY ListenerInit, ListenerStep, PTL DEF Spec

\* No local port leaks: every open listener belongs to an open tunnel of the list
\* or to the one Start or Resume that is about to hand it over.
THEOREM ListenerOwnership == Spec => []ListenerOwned
<1>1. ListenerInv => ListenerOwned
  BY DEF ListenerInv
<1> QED BY <1>1, ListenerInvariant, PTL

\* What the list shows as open listens on the port it shows, which no other open
\* tunnel shows.
THEOREM OpenTunnelsListen == Spec => []OpenTunnelListens
<1>1. ListenerInv => OpenTunnelListens
  <2> SUFFICES ASSUME ListenerInv, NEW t \in Ids, IsOpen(t)
               PROVE  /\ ln[t] \in open /\ lport[ln[t]] = localPort[t]
                      /\ \A u \in Ids \ {t} : IsOpen(u) => localPort[u] # localPort[t]
    BY DEF OpenTunnelListens
  <2>1. \A u \in Ids : IsOpen(u) => ln[u] \in open /\ lport[ln[u]] = localPort[u]
                                   /\ ln[u] # NoLn
    BY PortFwdAssumption
       DEF ListenerInv, OwnListener, Born, IsOpen, open, AnyPort, NoLn, Listeners
  <2>2. ASSUME NEW u \in Ids \ {t}, IsOpen(u), localPort[u] = localPort[t] PROVE FALSE
    BY <2>1, <2>2 DEF ListenerInv, OwnListener, PortsDistinct
  <2> QED BY <2>1, <2>2
<1> QED BY <1>1, ListenerInvariant, PTL

-----------------------------------------------------------------------------
ConnType ==
  /\ dialer \in Dialers \cup {NoDialer}
  /\ nconns \in [Ids -> Nat]
  /\ clients \in [Ids -> SUBSET Clients]
  /\ remotes \in [Ids -> SUBSET Clients]
  /\ hnd \in [Clients -> Handler]
  /\ clientOpen \in SUBSET Clients
  /\ remoteOpen \in SUBSET Clients
  /\ closing \in SUBSET Closers

\* A goroutine that serves a client knows its tunnel; an accepted client is open.
Serving ==
  \A c \in Clients :
    /\ hnd[c].pc \notin {"idle", "done"} => hnd[c].tun \in Ids
    /\ hnd[c].pc = "accepted" => c \in clientOpen /\ hnd[c].ln # NoLn

\* Only clients past registration are in a tunnel's map, and one that the
\* background closer still has to close is in none any more.
Registered ==
  /\ \A t \in Ids : \A c \in clients[t] : hnd[c].pc \notin {"idle", "accepted", "done"}
  /\ \A c \in Clients : <<"client", c>> \in closing =>
       hnd[c].pc \notin {"idle", "accepted"} /\ \A t \in Ids : c \notin clients[t]

ConnInv == ConnType /\ Serving /\ Registered /\ ClientsOfListener /\ ConnsMatchClients

clientVars == <<dialer, nconns, clients, remotes, hnd, connVars>>

\* NewManager: no client, nothing counted.
LEMMA ConnInit == Init => ConnInv
<1> SUFFICES ASSUME Init PROVE ConnInv
  OBVIOUS
<1>1. ConnType
  BY DEF Init, ConnType, Handler
<1>2. Serving /\ Registered /\ ClientsOfListener
  BY DEF Init, Serving, Registered, ClientsOfListener
<1>3. ConnsMatchClients
  BY FS_EmptySet DEF Init, ConnsMatchClients
<1> QED BY <1>1, <1>2, <1>3 DEF ConnInv

\* A step that touches no connection, and changes the listener only of tunnels
\* that have none, preserves ConnInv.
LEMMA ConnUntouched ==
  ASSUME ConnInv, UNCHANGED <<nconns, clients, hnd, clientOpen, closing>>,
         dialer' \in Dialers \cup {NoDialer},
         remotes' \in [Ids -> SUBSET Clients], remoteOpen' \in SUBSET Clients,
         \A t \in Ids : ln[t] # NoLn => ln'[t] = ln[t]
  PROVE  ConnInv'
<1> USE DEF ConnInv
<1>1. ConnType' /\ Serving' /\ Registered' /\ ConnsMatchClients'
  BY DEF ConnType, Serving, Registered, ConnsMatchClients
<1>2. ClientsOfListener'
  BY DEF ClientsOfListener
<1> QED BY <1>1, <1>2

\* A handler moves on without touching the client's membership.
LEMMA ConnHandler ==
  ASSUME ConnInv, NEW c \in Clients, NEW h \in Handler,
         hnd' = [hnd EXCEPT ![c] = h],
         hnd[c].pc \notin {"idle", "accepted", "done"},
         h.pc \notin {"idle", "accepted", "done"},
         h.tun = hnd[c].tun, h.ln = hnd[c].ln,
         hnd[c].pc \in {"forget", "release"} => h.pc \in {"forget", "release"},
         clientOpen' \in {clientOpen, clientOpen \ {c}},
         clientOpen' # clientOpen => h.pc \in {"forget", "release"},
         closing' \in SUBSET closing, remoteOpen' \in SUBSET Clients,
         remotes' \in [Ids -> SUBSET Clients],
         UNCHANGED <<dialer, nconns, clients, ln>>
  PROVE  ConnInv'
<1> USE DEF ConnInv
<1>1. ConnType'
  BY DEF ConnType
<1>2. /\ hnd'[c] = h
      /\ \A d \in Clients \ {c} : hnd'[d] = hnd[d] /\ (d \in clientOpen' <=> d \in clientOpen)
  BY DEF ConnType
<1>3. Serving'
  BY <1>2 DEF Serving
<1>4. Registered'
  BY <1>2 DEF Registered, ConnType
<1>5. ClientsOfListener'
  BY <1>2 DEF ClientsOfListener, ConnType
<1>6. ConnsMatchClients'
  BY DEF ConnsMatchClients
<1> QED BY <1>1, <1>3, <1>4, <1>5, <1>6

\* Accept gives a fresh client to the serve loop; it is counted only later.
LEMMA ConnAccept ==
  ASSUME ConnInv, NEW t \in Ids, NEW c \in Clients, Accept(t, c)
  PROVE  ConnInv'
<1> USE DEF ConnInv
<1>1. /\ hnd[c].pc = "idle" /\ ln[t] \in Listeners /\ ln[t] # NoLn
      /\ hnd' = [hnd EXCEPT ![c] = [pc |-> "accepted", tun |-> t, ln |-> ln[t],
                                    via |-> NoDialer]]
      /\ clientOpen' = clientOpen \cup {c}
      /\ UNCHANGED <<dialer, nconns, clients, remotes, remoteOpen, closing, ln>>
  BY PortFwdAssumption DEF Accept, tunnelVars, open, Listeners, NoLn
<1>2. /\ hnd'[c].pc = "accepted" /\ hnd'[c].tun = t /\ hnd'[c].ln # NoLn
      /\ hnd'[c] \in Handler
      /\ \A d \in Clients \ {c} : hnd'[d] = hnd[d] /\ (d \in clientOpen' <=> d \in clientOpen)
  BY <1>1 DEF ConnType, Handler
<1>3. \A u \in Ids : c \notin clients[u]
  BY <1>1 DEF Registered
<1>4. ConnType'
  BY <1>1, <1>2 DEF ConnType
<1>5. Serving'
  BY <1>1, <1>2 DEF Serving
<1>6. Registered'
  BY <1>1, <1>2, <1>3 DEF Registered, ConnType
<1>7. ClientsOfListener'
  BY <1>1, <1>2, <1>3 DEF ClientsOfListener, ConnType
<1>8. ConnsMatchClients'
  BY <1>1 DEF ConnsMatchClients
<1> QED BY <1>4, <1>5, <1>6, <1>7, <1>8

\* serve registers a client: counted if it came through the present listener,
\* dropped if that was replaced between Accept and the lock.
LEMMA ConnServeRegister ==
  ASSUME ConnInv, NEW c \in Clients, ServeRegister(c)
  PROVE  ConnInv'
<1> USE DEF ConnInv
<1> DEFINE t == hnd[c].tun
<1>1. /\ hnd[c].pc = "accepted" /\ t \in Ids /\ hnd[c].ln # NoLn /\ c \in clientOpen
      /\ \A u \in Ids : c \notin clients[u]
      /\ <<"client", c>> \notin closing
  BY DEF ServeRegister, Serving, Registered
<1>2. UNCHANGED <<dialer, remotes, remoteOpen, closing, ln>>
  BY DEF ServeRegister
<1>3. CASE ServesCurrent(c)
  <2>1. /\ clients' = [clients EXCEPT ![t] = @ \cup {c}]
        /\ nconns' = [nconns EXCEPT ![t] = @ + 1]
        /\ hnd' = [hnd EXCEPT ![c].pc = "dial", ![c].via = dialer]
        /\ clientOpen' = clientOpen
    BY <1>3 DEF ServeRegister
  <2>2. /\ hnd'[c].pc = "dial" /\ hnd'[c].tun = t /\ hnd'[c].ln = hnd[c].ln
        /\ hnd'[c] \in Handler
        /\ \A d \in Clients \ {c} : hnd'[d] = hnd[d]
    BY <2>1 DEF ConnType, Handler
  <2>3. ConnType'
    BY <1>1, <1>2, <2>1, <2>2 DEF ConnType
  <2>4. Serving'
    BY <1>1, <2>1, <2>2 DEF Serving
  <2>5. Registered'
    BY <1>1, <1>2, <2>1, <2>2 DEF Registered, ConnType
  <2>6. ClientsOfListener'
    BY <1>1, <1>2, <1>3, <2>1, <2>2 DEF ClientsOfListener, ConnType, ServesCurrent
  <2>7. Cardinality(clients[t] \cup {c}) = Cardinality(clients[t]) + 1
    <3>1. IsFiniteSet(clients[t])
      BY <1>1, PortFwdAssumption, FS_Subset DEF ConnType
    <3> QED BY <1>1, <3>1, FS_AddElement
  <2>8. ConnsMatchClients'
    BY <1>1, <2>1, <2>7 DEF ConnsMatchClients, ConnType
  <2> QED BY <2>3, <2>4, <2>5, <2>6, <2>8
<1>4. CASE ~ServesCurrent(c)
  <2>1. /\ clientOpen' = clientOpen \ {c} /\ hnd' = [hnd EXCEPT ![c] = Finished]
        /\ UNCHANGED <<clients, nconns>>
    BY <1>4 DEF ServeRegister
  <2>2. /\ hnd'[c].pc = "done" /\ hnd'[c] \in Handler
        /\ \A d \in Clients \ {c} : hnd'[d] = hnd[d] /\ (d \in clientOpen' <=> d \in clientOpen)
    BY <2>1 DEF ConnType, Handler, Finished
  <2>3. ConnType' /\ ConnsMatchClients'
    BY <1>2, <2>1, <2>2 DEF ConnType, ConnsMatchClients
  <2>4. Serving' /\ Registered'
    BY <1>1, <1>2, <2>1, <2>2 DEF Serving, Registered, ConnType
  <2>5. ClientsOfListener'
    BY <1>1, <1>2, <2>1, <2>2 DEF ClientsOfListener, ConnType
  <2> QED BY <2>3, <2>4, <2>5
<1> QED BY <1>3, <1>4

\* release counts a client out once: not again after closeLocked zeroed the count.
LEMMA ConnRelease ==
  ASSUME ConnInv, NEW c \in Clients, Release(c)
  PROVE  ConnInv'
<1> USE DEF ConnInv
<1> DEFINE t == hnd[c].tun
<1>1. /\ hnd[c].pc = "release" /\ t \in Ids
      /\ \A u \in Ids \ {t} : c \notin clients[u]
  BY DEF Release, Serving, ClientsOfListener
<1>2. /\ clientOpen' = clientOpen \ {c} /\ closing' \in SUBSET closing
      /\ nconns' = [nconns EXCEPT ![t] = CountedOut(t, c)]
      /\ clients' = [clients EXCEPT ![t] = @ \ {c}]
      /\ hnd' = [hnd EXCEPT ![c] = Finished]
      /\ UNCHANGED <<dialer, remotes, remoteOpen, ln>>
  BY DEF Release
<1>3. /\ hnd'[c].pc = "done" /\ hnd'[c] \in Handler
      /\ \A d \in Clients \ {c} : hnd'[d] = hnd[d] /\ (d \in clientOpen' <=> d \in clientOpen)
  BY <1>2 DEF ConnType, Handler, Finished
<1>4. \A u \in Ids : c \notin clients'[u] /\ clients'[u] = clients[u] \ {c}
  BY <1>1, <1>2 DEF ConnType
<1>5. nconns'[t] = Cardinality(clients[t] \ {c}) /\ nconns'[t] \in Nat
  <2>1. IsFiniteSet(clients[t]) /\ IsFiniteSet(clients[t] \ {c})
    BY <1>1, PortFwdAssumption, FS_Subset DEF ConnType
  <2>2. Cardinality(clients[t] \ {c}) \in Nat
    BY <2>1, FS_CardinalityType
  <2>3. nconns[t] = Cardinality(clients[t]) /\ nconns'[t] = CountedOut(t, c)
    BY <1>1, <1>2 DEF ConnsMatchClients, ConnType
  <2> QED BY <2>1, <2>2, <2>3, FS_RemoveElement DEF CountedOut
<1>6. ConnType'
  BY <1>1, <1>2, <1>3, <1>5 DEF ConnType
<1>7. Serving' /\ Registered'
  BY <1>2, <1>3, <1>4 DEF Serving, Registered, ConnType
<1>8. ClientsOfListener'
  BY <1>2, <1>3, <1>4 DEF ClientsOfListener, ConnType
<1>9. ConnsMatchClients'
  <2> SUFFICES ASSUME NEW u \in Ids PROVE nconns'[u] = Cardinality(clients'[u])
    BY DEF ConnsMatchClients
  <2>1. CASE u = t
    BY <1>4, <1>5, <2>1
  <2>2. CASE u # t
    BY <1>1, <1>2, <2>2 DEF ConnsMatchClients, ConnType
  <2> QED BY <2>1, <2>2
<1> QED BY <1>6, <1>7, <1>8, <1>9

\* The background closer closes only connections that are no longer registered.
LEMMA ConnCloseConn ==
  ASSUME ConnInv, NEW k \in {"client", "remote"}, NEW c \in Clients, CloseConn(k, c)
  PROVE  ConnInv'
<1> USE DEF ConnInv
<1>1. /\ <<k, c>> \in closing /\ closing' = closing \ {<<k, c>>}
      /\ clientOpen' = IF k = "client" THEN clientOpen \ {c} ELSE clientOpen
      /\ remoteOpen' \in SUBSET remoteOpen
      /\ UNCHANGED <<dialer, nconns, clients, remotes, hnd, ln>>
  BY DEF CloseConn, tunnelVars
<1>2. k = "client" => hnd[c].pc # "accepted" /\ \A t \in Ids : c \notin clients[t]
  BY <1>1 DEF Registered
<1>3. ConnType' /\ ConnsMatchClients'
  BY <1>1 DEF ConnType, ConnsMatchClients
<1>4. Serving' /\ Registered'
  BY <1>1, <1>2 DEF Serving, Registered
<1>5. ClientsOfListener'
  BY <1>1, <1>2 DEF ClientsOfListener, ConnType
<1> QED BY <1>3, <1>4, <1>5

\* closeLocked forgets every client of S, so no listener change there matters.
LEMMA ConnClose ==
  ASSUME ConnInv, NEW S \in SUBSET Ids, CloseLocked(S),
         UNCHANGED <<dialer, hnd, clientOpen, remoteOpen>>
  PROVE  ConnInv'
<1> USE DEF ConnInv
<1>1. /\ ln' = [t \in Ids |-> IF t \in S THEN NoLn ELSE ln[t]]
      /\ clients' = [t \in Ids |-> IF t \in S THEN {} ELSE clients[t]]
      /\ remotes' = [t \in Ids |-> IF t \in S THEN {} ELSE remotes[t]]
      /\ nconns' = [t \in Ids |-> IF t \in S THEN 0 ELSE nconns[t]]
      /\ closing' = closing \cup Cut(S)
  BY DEF CloseLocked
<1>2. Cut(S) \in SUBSET Closers
  BY DEF Cut, Closers, ConnType
<1>3. ConnType'
  BY <1>1, <1>2 DEF ConnType
<1>4. Serving'
  BY DEF Serving
<1>5. ASSUME NEW c \in Clients, <<"client", c>> \in Cut(S)
      PROVE  hnd[c].pc \notin {"idle", "accepted"} /\ \A t \in Ids : c \notin clients'[t]
  <2>1. PICK u \in S : c \in clients[u]
    BY <1>5 DEF Cut
  <2>2. hnd[c].pc \notin {"idle", "accepted"} /\ hnd[c].tun = u
    BY <2>1 DEF Registered, ClientsOfListener
  <2>3. \A t \in Ids \ {u} : c \notin clients[t]
    BY <2>2 DEF ClientsOfListener
  <2> QED BY <1>1, <2>1, <2>2, <2>3
<1>6. Registered'
  BY <1>1, <1>5 DEF Registered
<1>7. ClientsOfListener'
  BY <1>1 DEF ClientsOfListener
<1>8. ConnsMatchClients'
  BY <1>1, FS_EmptySet DEF ConnsMatchClients
<1> QED BY <1>3, <1>4, <1>6, <1>7, <1>8

\* ConnInv is inductive, given ListenerInv: one lemma per action that disturbs it.
LEMMA ConnStep == ListenerInv /\ ConnInv /\ [Next]_vars => ConnInv'
<1> SUFFICES ASSUME ListenerInv, ConnInv, [Next]_vars PROVE ConnInv'
  OBVIOUS
<1>0. ConnType /\ (\A t \in Ids : ~IsOpen(t) => ln[t] = NoLn) /\ ln \in [Ids -> Listeners \cup {NoLn}]
  BY DEF ConnInv, ListenerInv, OwnListener, ListenerType
<1>1. ASSUME NEW p \in Procs, CallStep(p) PROVE ConnInv'
  <2>1. CASE \/ \E g \in Targets, lp \in AskedPorts : StartCheck(p, g, lp)
             \/ \E t \in Ids : Toggle(p, t)
             \/ ListenOk(p) \/ ListenErr(p) \/ ResumeCheck(p)
    <3>1. UNCHANGED <<dialer, nconns, clients, remotes, hnd, connVars, ln>>
      BY <2>1 DEF StartCheck, Toggle, ListenOk, ListenErr, ResumeCheck, tunnelVars
    <3> QED BY <1>0, <3>1, ConnUntouched DEF ConnType, connVars
  <2>2. CASE StartInsert(p)
    <3>1. /\ UNCHANGED <<dialer, nconns, clients, remotes, hnd, connVars>>
          /\ ln' = [ln EXCEPT ![nextID] = call[p].ln]
      BY <2>2 DEF StartInsert
    <3>2. nextID \in Ids => ~IsOpen(nextID)
      BY DEF ListenerInv, ListenerType, Ids, Born, IsOpen
    <3>3. \A t \in Ids : ln[t] # NoLn => ln'[t] = ln[t]
      BY <1>0, <3>1, <3>2
    <3> QED BY <1>0, <3>1, <3>3, ConnUntouched DEF ConnType, connVars
  <2>3. CASE ResumeInsert(p)
    <3>1. UNCHANGED <<dialer, nconns, clients, remotes, hnd, connVars>>
      BY <2>3 DEF ResumeInsert
    <3>2. \A t \in Ids : ln[t] # NoLn => ln'[t] = ln[t]
      BY <1>0, <2>3 DEF ResumeInsert, StillStopped, IsOpen
    <3> QED BY <1>0, <3>1, <3>2, ConnUntouched DEF ConnType, connVars
  <2>4. CASE Stop(p)
    <3>1. CASE call[p].id \in tunnels
      <4>1. CloseLocked({call[p].id}) /\ UNCHANGED <<dialer, hnd, clientOpen, remoteOpen>>
        BY <2>4, <3>1 DEF Stop
      <4>2. {call[p].id} \in SUBSET Ids
        BY <3>1 DEF ListenerInv, ListenerType
      <4> QED BY <4>1, <4>2, ConnClose
    <3>2. CASE call[p].id \notin tunnels
      <4>1. UNCHANGED <<dialer, nconns, clients, remotes, hnd, connVars, ln>>
        BY <2>4, <3>2 DEF Stop, connVars
      <4> QED BY <1>0, <4>1, ConnUntouched DEF ConnType, connVars
    <3> QED BY <3>1, <3>2
  <2> QED BY <1>1, <2>1, <2>2, <2>3, <2>4 DEF CallStep
<1>2. ASSUME NEW t \in Ids, Remove(t) PROVE ConnInv'
  BY <1>2, ConnClose DEF Remove
<1>3. CASE CloseAll
  BY <1>3, ConnClose DEF CloseAll, ListenerInv, ListenerType
<1>4. ASSUME NEW c \in Clients, HandlerStep(c) PROVE ConnInv'
  <2>1. CASE ServeRegister(c)
    BY <2>1, ConnServeRegister
  <2>2. CASE Release(c)
    BY <2>2, ConnRelease
  <2>3. CASE Dial(c)
    <3>1. PICK pc \in {"dialed", "failed"} :
            hnd' = [hnd EXCEPT ![c] = [hnd[c] EXCEPT !.pc = pc, !.via = NoDialer]]
      BY <1>0, <2>3 DEF Dial, ConnType, Handler
    <3> DEFINE h == [hnd[c] EXCEPT !.pc = pc, !.via = NoDialer]
    <3>2. h \in Handler /\ h.pc = pc /\ h.tun = hnd[c].tun /\ h.ln = hnd[c].ln
      BY <1>0 DEF ConnType, Handler
    <3>3. /\ hnd[c].pc = "dial" /\ remoteOpen' \in SUBSET Clients
          /\ UNCHANGED <<dialer, nconns, clients, remotes, ln, clientOpen, closing>>
      BY <1>0, <2>3 DEF Dial, tunnelVars, ConnType
    <3> HIDE DEF h
    <3> QED BY <1>0, <3>1, <3>2, <3>3, ConnHandler DEF h, ConnType
  <2>4. CASE MarkDial(c) \/ RegisterRemote(c) \/ ForgetRemote(c)
    <3>1. PICK pc \in {"register", "release", "pipe"} :
            /\ hnd' = [hnd EXCEPT ![c] = [hnd[c] EXCEPT !.pc = pc]]
            /\ hnd[c].pc \in {"forget", "release"} => pc = "release"
      BY <1>0, <2>4 DEF MarkDial, RegisterRemote, ForgetRemote, Goto, ConnType, Handler
    <3> DEFINE h == [hnd[c] EXCEPT !.pc = pc]
    <3>2. h \in Handler /\ h.pc = pc /\ h.tun = hnd[c].tun /\ h.ln = hnd[c].ln
      BY <1>0 DEF ConnType, Handler
    <3>3. /\ hnd[c].pc \in {"dialed", "failed", "register", "forget"}
          /\ remotes' \in [Ids -> SUBSET Clients]
          /\ UNCHANGED <<dialer, nconns, clients, ln, clientOpen, remoteOpen, closing>>
      BY <1>0, <2>4 DEF MarkDial, RegisterRemote, ForgetRemote, ConnType, connVars
    <3> HIDE DEF h
    <3> QED BY <1>0, <3>1, <3>2, <3>3, ConnHandler DEF h, ConnType
  <2> QED BY <1>4, <2>1, <2>2, <2>3, <2>4 DEF HandlerStep
<1>5. ASSUME NEW c \in Clients, Pipe(c) PROVE ConnInv'
  <2> DEFINE h == [hnd[c] EXCEPT !.pc = "forget"]
  <2>1. hnd' = [hnd EXCEPT ![c] = h]
    BY <1>0, <1>5 DEF Pipe, Goto, ConnType, Handler
  <2>2. h \in Handler /\ h.pc = "forget" /\ h.tun = hnd[c].tun /\ h.ln = hnd[c].ln
    BY <1>0 DEF ConnType, Handler
  <2>3. /\ hnd[c].pc = "pipe" /\ clientOpen' = clientOpen \ {c}
        /\ closing' \in SUBSET closing /\ remoteOpen' \in SUBSET Clients
        /\ UNCHANGED <<dialer, nconns, clients, remotes, ln>>
    BY <1>0, <1>5 DEF Pipe, tunnelVars, ConnType
  <2> HIDE DEF h
  <2> QED BY <1>0, <2>1, <2>2, <2>3, ConnHandler DEF ConnType
<1>6. ASSUME NEW d \in Dialers \cup {NoDialer}, SetDialer(d) PROVE ConnInv'
  BY <1>0, <1>6, ConnUntouched DEF SetDialer, tunnelVars, connVars, ConnType
<1>7. ASSUME NEW k \in {"client", "remote"}, NEW c \in Clients, CloseConn(k, c)
      PROVE  ConnInv'
  BY <1>7, ConnCloseConn
<1>8. ASSUME NEW t \in Ids, NEW c \in Clients, Accept(t, c) PROVE ConnInv'
  BY <1>8, ConnAccept
<1>9. CASE UNCHANGED vars
  BY <1>0, <1>9, ConnUntouched DEF vars, tunnelVars, connVars, ConnType
<1> QED BY <1>1, <1>2, <1>3, <1>4, <1>5, <1>6, <1>7, <1>8, <1>9 DEF Next

\* In every reachable state the clients a tunnel holds are those that came in through
\* its present listener, and their number is its count.
THEOREM ConnInvariant == Spec => []ConnInv
<1>1. Init => ListenerInv /\ ConnInv
  BY ListenerInit, ConnInit
<1>2. ListenerInv /\ ConnInv /\ [Next]_vars => (ListenerInv /\ ConnInv)'
  BY ListenerStep, ConnStep
<1> QED BY <1>1, <1>2, PTL DEF Spec

\* Every variable has its type in every reachable state; in particular the count
\* of connections never becomes negative.
THEOREM TypeCorrect == Spec => []TypeOK
<1>1. ListenerInv /\ ConnInv => TypeOK
  BY DEF ListenerInv, ListenerType, CallType, ConnInv, ConnType, TypeOK
<1> QED BY <1>1, ListenerInvariant, ConnInvariant, PTL

\* The number of connections shown is the number of connections held.
THEOREM ConnsCorrect == Spec => []ConnsMatchClients
<1>1. ConnInv => ConnsMatchClients
  BY DEF ConnInv
<1> QED BY <1>1, ConnInvariant, PTL

\* A tunnel only ever holds clients that its present listener accepted.
THEOREM ClientsCurrent == Spec => []ClientsOfListener
<1>1. ConnInv => ClientsOfListener
  BY DEF ConnInv
<1> QED BY <1>1, ConnInvariant, PTL

-----------------------------------------------------------------------------
\* A step that moves no tunnel in or out of the list or of "stopped" is a
\* stuttering step of Tunnels.
LEMMA AbsStutter ==
  ASSUME UNCHANGED <<nextID, tunnels, localPort>>,
         \A t \in tunnels : state'[t] = "stopped" <=> state[t] = "stopped"
  PROVE  UNCHANGED Abs!vars
<1>1. TunnelStatus' = TunnelStatus
  BY DEF TunnelStatus
<1> QED BY <1>1 DEF Abs!vars

\* The abstract status of a tunnel is open exactly for the tunnels IsOpen names.
LEMMA StatusOpen ==
  ASSUME ListenerInv, NEW t \in Ids
  PROVE  TunnelStatus[t] = "open" <=> IsOpen(t)
BY DEF TunnelStatus, IsOpen, ListenerInv, Born, ListenerType, Ids

\* The port of a listener held by a call is free for every tunnel.
LEMMA HeldPortFree ==
  ASSUME ListenerInv, NEW p \in Procs, call[p].pc = "insert", NEW t \in Ids
  PROVE  Abs!FreeFor(t, lport[call[p].ln])
<1> SUFFICES ASSUME NEW u \in Ids \ {t}, TunnelStatus[u] = "open"
             PROVE  localPort[u] # lport[call[p].ln]
  BY DEF Abs!FreeFor
<1>1. IsOpen(u)
  BY StatusOpen
<1>2. ln[u] \in open /\ lport[ln[u]] = localPort[u]
  BY <1>1, PortFwdAssumption DEF ListenerInv, OwnListener, Born, IsOpen, open, AnyPort
<1>3. call[p].ln \in open /\ call[p].ln # ln[u]
  BY DEF ListenerInv, Held
<1> QED BY <1>2, <1>3 DEF ListenerInv, PortsDistinct

\* An empty manager is an empty list of tunnels.
LEMMA AbsInit == Init => Abs!Init
BY DEF Init, Abs!Init, TunnelStatus, Ids, AnyPort, Abs!NoPort

\* Remove and CloseAll, seen as a list: the tunnels leave it for good.
LEMMA AbsDrop ==
  ASSUME ListenerInv, NEW S \in SUBSET tunnels, Forget(S), UNCHANGED <<nextID, localPort>>
  PROVE  Abs!Next
<1>1. S \in SUBSET Ids /\ \A t \in S : TunnelStatus[t] \in {"open", "stopped"}
  BY DEF ListenerInv, ListenerType, Born, TunnelStatus, Ids
<1>2. TunnelStatus' = [t \in Ids |-> IF t \in S THEN "removed" ELSE TunnelStatus[t]]
  BY <1>1 DEF Forget, ListenerInv, ListenerType, Born, TunnelStatus, Ids
<1>3. Abs!Drop(S)
  BY <1>1, <1>2 DEF Abs!Drop
<1> QED BY <1>1, <1>3 DEF Abs!Next

\* Every step of the manager is a step of the list of tunnels, or leaves it alone.
LEMMA AbsStep == ListenerInv /\ [Next]_vars => [Abs!Next]_(Abs!vars)
<1> SUFFICES ASSUME ListenerInv, [Next]_vars PROVE Abs!Next \/ UNCHANGED Abs!vars
  OBVIOUS
<1>1. ASSUME NEW p \in Procs, StartInsert(p) PROVE Abs!Next
  <2> DEFINE t == nextID
             lp == lport[call[p].ln]
  <2>1. t \in Ids /\ TunnelStatus[t] = "unborn" /\ lp \in Ports
    BY <1>1 DEF StartInsert, ListenerInv, ListenerType, Ids, TunnelStatus, Held, open
  <2>2. Abs!FreeFor(t, lp)
    BY <1>1, <2>1, HeldPortFree DEF StartInsert
  <2>3. TunnelStatus' = [TunnelStatus EXCEPT ![t] = "open"]
    <3>1. /\ nextID' = t + 1 /\ tunnels' = tunnels \cup {t}
          /\ state' = [state EXCEPT ![t] = "active"] /\ t \in Nat
      BY <1>1 DEF StartInsert, ListenerInv, ListenerType
    <3>2. TunnelStatus'[t] = "open"
      BY <2>1, <3>1 DEF TunnelStatus, ListenerInv, ListenerType
    <3>3. \A u \in Ids \ {t} : TunnelStatus'[u] = TunnelStatus[u]
      BY <2>1, <3>1 DEF TunnelStatus, ListenerInv, ListenerType, Ids
    <3> QED BY <3>2, <3>3 DEF TunnelStatus
  <2>4. localPort' = [localPort EXCEPT ![t] = lp]
    BY <1>1 DEF StartInsert
  <2>5. Abs!Open(t, lp)
    BY <2>1, <2>2, <2>3, <2>4 DEF Abs!Open
  <2> QED BY <2>1, <2>5 DEF Abs!Next
<1>2. ASSUME NEW p \in Procs, ResumeInsert(p) PROVE Abs!Next \/ UNCHANGED Abs!vars
  <2> DEFINE t == call[p].id
  <2>1. CASE StillStopped(t)
    <3>1. t \in Ids /\ TunnelStatus[t] = "stopped" /\ lport[call[p].ln] = localPort[t]
          /\ UNCHANGED <<nextID, tunnels, localPort>>
          /\ state' = [state EXCEPT ![t] = "active"]
      BY <1>2, <2>1 DEF ResumeInsert, StillStopped, ListenerInv, ListenerType, Ids, Born,
                        TunnelStatus, Resuming
    <3>2. Abs!FreeFor(t, localPort[t])
      BY <1>2, <3>1, HeldPortFree DEF ResumeInsert
    <3>3. TunnelStatus' = [TunnelStatus EXCEPT ![t] = "open"]
      BY <2>1, <3>1 DEF StillStopped, TunnelStatus, ListenerInv, ListenerType, Ids, Born
    <3>4. Abs!Reopen(t)
      BY <3>1, <3>2, <3>3 DEF Abs!Reopen
    <3> QED BY <3>1, <3>4 DEF Abs!Next
  <2>2. CASE ~StillStopped(t)
    BY <1>2, <2>2, AbsStutter DEF ResumeInsert
  <2> QED BY <2>1, <2>2
<1>3. ASSUME NEW p \in Procs, Stop(p) PROVE Abs!Next \/ UNCHANGED Abs!vars
  <2> DEFINE t == call[p].id
  <2>1. CASE t \in tunnels /\ state[t] # "stopped"
    <3>1. /\ t \in Ids /\ TunnelStatus[t] = "open" /\ UNCHANGED <<nextID, tunnels, localPort>>
          /\ state' = [state EXCEPT ![t] = "stopped"]
      BY <1>3, <2>1, StatusOpen DEF Stop, IsOpen, ListenerInv, ListenerType
    <3>2. TunnelStatus' = [TunnelStatus EXCEPT ![t] = "stopped"]
      BY <2>1, <3>1 DEF TunnelStatus, ListenerInv, ListenerType, Ids, Born
    <3>3. Abs!Halt(t)
      BY <3>1, <3>2 DEF Abs!Halt
    <3> QED BY <3>1, <3>3 DEF Abs!Next
  <2>2. CASE ~(t \in tunnels /\ state[t] # "stopped")
    <3>1. /\ UNCHANGED <<nextID, tunnels, localPort>>
          /\ \A u \in tunnels : state'[u] = "stopped" <=> state[u] = "stopped"
      BY <1>3, <2>2 DEF Stop, ListenerInv, ListenerType
    <3> QED BY <3>1, AbsStutter
  <2> QED BY <2>1, <2>2
<1>4. ASSUME NEW t \in Ids, Remove(t) PROVE Abs!Next
  BY <1>4, AbsDrop DEF Remove
<1>5. CASE CloseAll
  BY <1>5, AbsDrop DEF CloseAll
<1>6. ASSUME NEW c \in Clients, MarkDial(c) PROVE UNCHANGED Abs!vars
  <2>1. UNCHANGED <<nextID, tunnels, localPort>>
    BY <1>6 DEF MarkDial
  <2>2. \A u \in tunnels : state'[u] = "stopped" <=> state[u] = "stopped"
    BY <1>6 DEF MarkDial, DialState, IsOpen, ListenerInv, ListenerType
  <2> QED BY <2>1, <2>2, AbsStutter
<1>7. ASSUME NEW p \in Procs, CallStep(p), ~StartInsert(p), ~ResumeInsert(p), ~Stop(p)
      PROVE  UNCHANGED Abs!vars
  BY <1>7, AbsStutter
     DEF CallStep, StartCheck, Toggle, ListenOk, ListenErr, ResumeCheck, tunnelVars
<1>8. ASSUME NEW c \in Clients, HandlerStep(c) \/ Pipe(c), ~MarkDial(c)
      PROVE  UNCHANGED Abs!vars
  BY <1>8, AbsStutter
     DEF HandlerStep, Pipe, ServeRegister, Dial, RegisterRemote, ForgetRemote, Release, tunnelVars
<1>9. ASSUME NEW d \in Dialers \cup {NoDialer}, SetDialer(d) PROVE UNCHANGED Abs!vars
  BY <1>9, AbsStutter DEF SetDialer, tunnelVars
<1>10. ASSUME NEW k \in {"client", "remote"}, NEW c \in Clients, CloseConn(k, c)
       PROVE  UNCHANGED Abs!vars
  BY <1>10, AbsStutter DEF CloseConn, tunnelVars
<1>11. ASSUME NEW t \in Ids, NEW c \in Clients, Accept(t, c) PROVE UNCHANGED Abs!vars
  BY <1>11, AbsStutter DEF Accept, tunnelVars
<1>12. CASE UNCHANGED vars
  BY <1>12, AbsStutter DEF vars, tunnelVars
<1> QED BY <1>1, <1>2, <1>3, <1>4, <1>5, <1>6, <1>7, <1>8, <1>9, <1>10, <1>11, <1>12 DEF Next

\* Whatever the interleaving, the list of tunnels behaves as module Tunnels says.
THEOREM Refinement == Spec => ImplementsTunnels
BY AbsInit, AbsStep, ListenerInvariant, PTL DEF Spec, ImplementsTunnels, Abs!Spec

-----------------------------------------------------------------------------
\* The connections' and the listeners' invariants, as the run checks them: no
\* interleaving of Start, Resume, Stop, serve and handle breaks either.
THEOREM ConnectionsRight == Spec => []ConnsRight
<1>1. ConnsMatchClients /\ ClientsOfListener => ConnsRight
  BY DEF ConnsRight
<1> QED BY <1>1, ConnsCorrect, ClientsCurrent, PTL

\* The same of the listeners.
THEOREM PortsRight == Spec => []ListenersRight
<1>1. ListenerOwned /\ OpenTunnelListens => ListenersRight
  BY DEF ListenersRight
<1> QED BY <1>1, ListenerOwnership, OpenTunnelsListen, PTL
=============================================================================
