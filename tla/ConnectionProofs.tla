------------------------- MODULE ConnectionProofs -------------------------
(***************************************************************************)
(* Proofs about the engine's connection and about the calls that go over   *)
(* it: the session (Session.tla) first, then the commands on objects and   *)
(* projects (Objects.tla, Projects.tla).                                   *)
(***************************************************************************)
EXTENDS Session, Projects, Facts, TLAPS

----------------------------------------------------------------------------
(* The bag of commands in flight. *)

\* What a step does to the commands in flight when it handles e and starts out.
LEMMA ThenFacts ==
  ASSUME IsABag(flying), NEW e \in DOMAIN flying, NEW out, Then(e, out)
  PROVE /\ IsABag(flying')
        /\ DOMAIN flying' \subseteq DOMAIN flying \cup out
        /\ out \subseteq DOMAIN flying'
        /\ \A x \in DOMAIN flying : x # e => x \in DOMAIN flying'
        /\ \A x \in DOMAIN flying : x # e /\ x \notin out => flying'[x] = flying[x]
        /\ \A x \in out : x \notin DOMAIN flying => flying'[x] = 1
        /\ flying[e] = 1 /\ e \notin out => e \notin DOMAIN flying'
  <1>1. /\ IsABag(flying')
        /\ DOMAIN flying' \subseteq DOMAIN flying \cup out
        /\ out \subseteq DOMAIN flying'
        /\ \A x \in DOMAIN flying : x # e => x \in DOMAIN flying'
        /\ flying[e] = 1 /\ e \notin out => e \notin DOMAIN flying'
    BY Exchanged DEF Then
  <1>2. \A x \in DOMAIN flying : x # e /\ x \notin out => flying'[x] = flying[x]
    BY ExchangedKeeps DEF Then
  <1>3. \A x \in out : x \notin DOMAIN flying => flying'[x] = 1
    BY ExchangedOnce DEF Then
  <1> QED BY <1>1, <1>2, <1>3

\* What starting the commands of out does to the bag in flight.
LEMMA StartFacts ==
  ASSUME IsABag(flying), NEW out, Start(out)
  PROVE /\ IsABag(flying')
        /\ DOMAIN flying' = DOMAIN flying \cup out
        /\ \A x \in DOMAIN flying : x \notin out => flying'[x] = flying[x]
        /\ \A x \in out : x \notin DOMAIN flying => flying'[x] = 1
  <1>1. IsABag(flying') /\ DOMAIN flying' = DOMAIN flying \cup out
    BY Added DEF Start
  <1>2. \A x \in DOMAIN flying : x \notin out => flying'[x] = flying[x]
    BY AddedKeeps DEF Start
  <1>3. \A x \in out : x \notin DOMAIN flying => flying'[x] = 1
    BY AddedOnce DEF Start
  <1> QED BY <1>1, <1>2, <1>3

----------------------------------------------------------------------------
(* Types. *)

\* The messages the session makes are well formed.
LEMMA CmdTypes ==
  /\ \A c \in Backends, s \in Nat : Ping(c, s) \in Cmd /\ Probe(c, s) \in Cmd
  /\ \A c \in Backends, k \in Kinds : OnConn(k, c) \in Cmd
  /\ \A h \in HostURL, k \in Kinds : Dial(k, h) \in Cmd
  /\ \A h \in HostURL, k \in Kinds, c \in Backends : Dialed(k, h, c) \in Cmd
  BY DEF Ping, Probe, OnConn, Dial, Dialed, Cmd, Backends, HostURL, Kinds

\* A dial makes a connection that nothing refers to yet.
LEMMA NewConnUnmade == Unmade # {} => NewConn \in Unmade
  BY DEF NewConn

\* The program starts with well-formed state (NewModel, main).
LEMMA InitTypeOK == Init => TypeOK
  <1> SUFFICES ASSUME Init PROVE TypeOK
    OBVIOUS
  <1> USE SessionAssumption
  <1>1. PICK h \in Given, c \in {FirstConn, Offline} :
          /\ h = NoHost => c = Offline
          /\ cfg = [host |-> h, tls |-> h, ssh |-> h]
          /\ backend = c
          /\ conn = [d \in Conns |->
                    IF d = c THEN [state |-> "open", host |-> h, tls |-> h, ssh |-> h]
                    ELSE [state |-> "unmade", host |-> NoHost, tls |-> NoHost, ssh |-> NoHost]]
          /\ serverUp \in IF c = Offline THEN {FALSE} ELSE {TRUE}
          /\ flying = SetToBag({Probe(c, 0)} \cup (IF c = Offline THEN {} ELSE {OnConn("call", c)}))
    BY DEF Init
  <1>2. h \in HostURL /\ NoHost \in HostURL
    BY DEF HostURL
  <1>3. c \in Backends /\ Offline \in Backends
    BY DEF Backends, FirstConn
  <1>4. IsABag(flying) /\ DOMAIN flying \subseteq Cmd
    <2>1. DOMAIN flying = {Probe(c, 0)} \cup (IF c = Offline THEN {} ELSE {OnConn("call", c)})
      BY <1>1 DEF SetToBag
    <2>2. IsABag(flying)
      BY <1>1 DEF SetToBag, IsABag
    <2> QED BY <2>1, <2>2, <1>3, CmdTypes DEF Kinds
  <1>5. conn \in [Conns -> [state : {"unmade", "open", "closed"},
                            host : HostURL, tls : HostURL, ssh : HostURL]]
    BY <1>1, <1>2
  <1> QED BY <1>1, <1>2, <1>3, <1>4, <1>5 DEF Init, TypeOK

\* Types are preserved by the commands a step starts.
LEMMA ThenTypes ==
  ASSUME TypeOK, NEW e \in DOMAIN flying, NEW out, Then(e, out), out \subseteq Cmd
  PROVE IsABag(flying') /\ DOMAIN flying' \subseteq Cmd
  BY ThenFacts DEF TypeOK

\* Starting well-formed commands keeps the bag a bag of commands.
LEMMA StartTypes ==
  ASSUME TypeOK, NEW out, Start(out), out \subseteq Cmd
  PROVE IsABag(flying') /\ DOMAIN flying' \subseteq Cmd
  BY StartFacts DEF TypeOK

\* Every message the event loop handles, and every command, keeps the types.
LEMMA StepTypeOK == TypeOK /\ [Next]_vars => TypeOK'
  <1> SUFFICES ASSUME TypeOK, [Next]_vars PROVE TypeOK'
    OBVIOUS
  <1> USE SessionAssumption
  <1> USE DEF dialogVars, heartVars, HostURL, Backends
  <1>k. \A k \in {"ping", "probe", "call", "forward", "connect", "connected",
                  "retry", "retried", "close"} : k \in Kinds
    BY DEF Kinds
  <1>h. cfg.host \in HostURL /\ cfg.tls \in HostURL /\ cfg.ssh \in HostURL
    BY DEF TypeOK
  <1>0. CASE UNCHANGED vars
    BY <1>0 DEF vars, TypeOK
  <1>1. ASSUME NEW h \in Hosts, BeginConnect(h) PROVE TypeOK'
    <2>1. IsABag(flying') /\ DOMAIN flying' \subseteq Cmd
      <3>1. CASE UNCHANGED flying
        BY <3>1 DEF TypeOK
      <3>2. CASE Start({Dial("connect", h)})
        BY <3>2, <1>k, CmdTypes, StartTypes
      <3> QED BY <1>1, <3>1, <3>2 DEF BeginConnect
    <2> QED BY <1>1, <2>1 DEF BeginConnect, TypeOK
  <1>2. CASE AuthEnter
    <2>1. IsABag(flying') /\ DOMAIN flying' \subseteq Cmd
      BY <1>2, <1>k, CmdTypes, StartTypes DEF AuthEnter, TypeOK
    <2> QED BY <1>2, <2>1 DEF AuthEnter, TypeOK
  <1>3. CASE ConnectAgain
    <2>1. IsABag(flying') /\ DOMAIN flying' \subseteq Cmd
      BY <1>3, <1>k, CmdTypes, StartTypes DEF ConnectAgain, TypeOK
    <2> QED BY <1>3, <2>1 DEF ConnectAgain, TypeOK
  <1>4. CASE Esc
    BY <1>4 DEF Esc, CloseDialog, TypeOK
  <1>5. CASE UserCall
    <2>1. PICK kind \in {"call", "forward"} : Start({OnConn(kind, backend)})
      BY <1>5 DEF UserCall
    <2>2. IsABag(flying') /\ DOMAIN flying' \subseteq Cmd
      BY <2>1, <1>k, CmdTypes, StartTypes DEF TypeOK
    <2> QED BY <1>5, <2>2 DEF UserCall, TypeOK
  <1>6. CASE Tick
    <2>1. PICK refresh \in SUBSET {OnConn("call", backend)} :
            Start(refresh \cup (IF pingInFlight THEN {} ELSE {Ping(backend, pingSeq)}))
      BY <1>6 DEF Tick
    <2>2. refresh \cup (IF pingInFlight THEN {} ELSE {Ping(backend, pingSeq)}) \subseteq Cmd
      BY <1>k, CmdTypes DEF TypeOK
    <2>3. IsABag(flying') /\ DOMAIN flying' \subseteq Cmd
      BY <2>1, <2>2, StartTypes
    <2> QED BY <1>6, <2>3 DEF Tick, TypeOK
  <1>7. ASSUME NEW e \in DOMAIN flying, Dispatch(e) PROVE TypeOK'
    <2>e. e \in Cmd /\ e.conn \in Backends /\ e.host \in HostURL /\ e.seq \in Nat
      BY DEF TypeOK, Cmd
    <2>n. Then(e, {}) => IsABag(flying') /\ DOMAIN flying' \subseteq Cmd
      BY ThenTypes
    <2>r. StartReconnect(e) => IsABag(flying') /\ DOMAIN flying' \subseteq Cmd
      BY <1>h, <1>k, CmdTypes, ThenTypes DEF StartReconnect
    <2>1. CASE ForwardRun(e)
      <3>1. HostOf(e.conn) \in HostURL
        BY DEF HostOf, TypeOK
      <3>2. tunnels' \subseteq HostURL
        BY <2>1, <3>1 DEF ForwardRun, TypeOK
      <3> QED BY <2>1, <2>n, <3>2 DEF ForwardRun, TypeOK
    <2>2. CASE PingStale(e)
      BY <2>2, <2>n DEF PingStale, TypeOK
    <2>3. ASSUME NEW a \in {"ok", "lost", "failed"}, PingDone(e, a) PROVE TypeOK'
      <3>1. Then(e, {Probe(backend, pingSeq)}) => IsABag(flying') /\ DOMAIN flying' \subseteq Cmd
        BY CmdTypes, ThenTypes DEF TypeOK
      <3>2. IsABag(flying') /\ DOMAIN flying' \subseteq Cmd
        <4>1. CASE ~PingHeeded
          BY <2>3, <4>1, <2>n DEF PingDone
        <4>2. CASE StartReconnect(e)
          BY <4>2, <2>r
        <4>3. CASE PingHeeded /\ ~StartReconnect(e)
          BY <2>3, <4>3, <2>n, <3>1 DEF PingDone
        <4> QED BY <4>1, <4>2, <4>3
      <3>3. serverUp' \in BOOLEAN /\ reconnecting' \in BOOLEAN /\ pingInFlight' \in BOOLEAN
        BY <2>3 DEF PingDone, StartReconnect, TypeOK
      <3>4. UNCHANGED <<cfg, conn, backend, dialogVars, pingSeq, runtime, tunnels>>
        BY <2>3 DEF PingDone
      <3> QED BY <3>2, <3>3, <3>4 DEF TypeOK
    <2>4. CASE ProbeDone(e)
      BY <2>4, <2>n, <2>e DEF ProbeDone, TypeOK
    <2>5. CASE CallDone(e)
      BY <2>5, <2>n DEF CallDone, TypeOK
    <2>6. CASE CallLost(e)
      BY <2>6, <2>r DEF CallLost, StartReconnect, TypeOK
    <2>7. CASE ConnectRun(e)
      <3>1. CASE /\ Unmade # {}
                 /\ Made(NewConn, e.host, cfg)
                 /\ Then(e, {Dialed("connected", e.host, NewConn)})
        <4>1. NewConn \in Conns
          BY <3>1, NewConnUnmade DEF Unmade
        <4>2. IsABag(flying') /\ DOMAIN flying' \subseteq Cmd
          BY <3>1, <4>1, <2>e, <1>k, CmdTypes, ThenTypes
        <4>3. conn' \in [Conns -> [state : {"unmade", "open", "closed"},
                                  host : HostURL, tls : HostURL, ssh : HostURL]]
          BY <3>1, <4>1, <2>e, <1>h DEF Made, TypeOK
        <4> QED BY <2>7, <4>2, <4>3 DEF ConnectRun, TypeOK
      <3>2. CASE Then(e, {Dialed("connected", e.host, Offline)}) /\ UNCHANGED conn
        <4>1. IsABag(flying') /\ DOMAIN flying' \subseteq Cmd
          BY <3>2, <2>e, <1>k, CmdTypes, ThenTypes
        <4> QED BY <2>7, <3>2, <4>1 DEF ConnectRun, TypeOK
      <3> QED BY <2>7, <3>1, <3>2 DEF ConnectRun
    <2>8. CASE ConnectFailed(e)
      BY <2>8, <2>n DEF ConnectFailed, TypeOK
    <2>9. CASE Connected(e)
      <3>1. IsABag(flying') /\ DOMAIN flying' \subseteq Cmd
        BY <2>9, <2>e, <1>k, CmdTypes, ThenTypes DEF Connected, NextSeq, TypeOK
      <3>2. conn' \in [Conns -> [state : {"unmade", "open", "closed"},
                                host : HostURL, tls : HostURL, ssh : HostURL]]
        BY <2>9 DEF Connected, TypeOK
      <3>3. cfg' \in [host : HostURL, tls : HostURL, ssh : HostURL]
        BY <2>9, <2>e DEF Connected, TypeOK
      <3>4. pingSeq' \in Nat
        BY <2>9 DEF Connected, Adopt, NextSeq, TypeOK
      <3> QED BY <2>9, <3>1, <3>2, <3>3, <3>4, <2>e DEF Connected, Adopt, CloseDialog, TypeOK
    <2>10. CASE RetryRun(e)
      <3>1. CASE /\ Unmade # {}
                 /\ Made(NewConn, e.host, cfg)
                 /\ Then(e, {Dialed("retried", e.host, NewConn)})
        <4>1. NewConn \in Conns
          BY <3>1, NewConnUnmade DEF Unmade
        <4>2. IsABag(flying') /\ DOMAIN flying' \subseteq Cmd
          BY <3>1, <4>1, <2>e, <1>k, CmdTypes, ThenTypes
        <4>3. conn' \in [Conns -> [state : {"unmade", "open", "closed"},
                                  host : HostURL, tls : HostURL, ssh : HostURL]]
          BY <3>1, <4>1, <2>e, <1>h DEF Made, TypeOK
        <4> QED BY <2>10, <4>2, <4>3 DEF RetryRun, TypeOK
      <3>2. CASE Then(e, {Dialed("retried", e.host, Offline)}) /\ UNCHANGED conn
        <4>1. IsABag(flying') /\ DOMAIN flying' \subseteq Cmd
          BY <3>2, <2>e, <1>k, CmdTypes, ThenTypes
        <4> QED BY <2>10, <3>2, <4>1 DEF RetryRun, TypeOK
      <3> QED BY <2>10, <3>1, <3>2 DEF RetryRun
    <2>11. CASE RetryDropped(e)
      <3>1. IsABag(flying') /\ DOMAIN flying' \subseteq Cmd
        BY <2>11, <2>e, <1>k, CmdTypes, ThenTypes DEF RetryDropped, LateRetry, CloseOf
      <3> QED BY <2>11, <3>1 DEF RetryDropped, TypeOK
    <2>12. CASE RetryFailed(e)
      <3>1. IsABag(flying') /\ DOMAIN flying' \subseteq Cmd
        BY <2>12, <1>h, <1>k, CmdTypes, ThenTypes DEF RetryFailed, NextAttempt
      <3> QED BY <2>12, <3>1 DEF RetryFailed, TypeOK
    <2>13. CASE Reconnected(e)
      <3>1. PICK refresh \in SUBSET {OnConn("call", e.conn)} :
              Then(e, Replaced(e) \cup refresh \cup {Probe(e.conn, NextSeq)})
        BY <2>13 DEF Reconnected
      <3>2. Replaced(e) \cup refresh \cup {Probe(e.conn, NextSeq)} \subseteq Cmd
        BY <2>e, <1>k, CmdTypes DEF Replaced, CloseOf, NextSeq, TypeOK
      <3>3. IsABag(flying') /\ DOMAIN flying' \subseteq Cmd
        BY <3>1, <3>2, ThenTypes
      <3>4. pingSeq' \in Nat
        BY <2>13 DEF Reconnected, Adopt, NextSeq, TypeOK
      <3> QED BY <2>13, <3>3, <3>4, <2>e DEF Reconnected, Adopt, TypeOK
    <2>14. CASE CloseRun(e)
      <3>1. conn' \in [Conns -> [state : {"unmade", "open", "closed"},
                                host : HostURL, tls : HostURL, ssh : HostURL]]
        <4> DEFINE C == [state : {"unmade", "open", "closed"},
                         host : HostURL, tls : HostURL, ssh : HostURL]
        <4>1. conn \in [Conns -> C] /\ conn' = [conn EXCEPT ![e.conn] = [conn[e.conn] EXCEPT !.state = "closed"]]
          BY <2>14 DEF CloseRun, TypeOK
        <4>2. \A r \in C : [r EXCEPT !.state = "closed"] \in C
          OBVIOUS
        <4> HIDE DEF C
        <4>3. conn' \in [Conns -> C]
          BY <4>1, <4>2
        <4> QED BY <4>3 DEF C
      <3> QED BY <2>14, <2>n, <3>1 DEF CloseRun, TypeOK
    <2> QED BY <1>7, <2>1, <2>2, <2>3, <2>4, <2>5, <2>6, <2>7, <2>8, <2>9, <2>10, <2>11,
               <2>12, <2>13, <2>14 DEF Dispatch
  <1> QED BY <1>0, <1>1, <1>2, <1>3, <1>4, <1>5, <1>6, <1>7 DEF Next

\* The state of the session is always well formed: in particular a generation
\* number never falls, and nothing unknown is ever in flight.
THEOREM TypeCorrect == Spec => []TypeOK
  <1> QED BY InitTypeOK, StepTypeOK, PTL DEF Spec

----------------------------------------------------------------------------
(* Owners of connections. *)

\* A step that starts no owner of c and handles none leaves its owners alone.
LEMMA OwnersKept ==
  ASSUME TypeOK, NEW c, NEW out, \A x \in out : ~Owns(x, c),
         \/ UNCHANGED flying
         \/ Start(out)
         \/ \E e \in DOMAIN flying : ~Owns(e, c) /\ Then(e, out)
  PROVE Owners(c)' = Owners(c) /\ \A x \in Owners(c) : flying'[x] = flying[x]
  <1>1. CASE UNCHANGED flying
    BY <1>1 DEF Owners
  <1>2. CASE Start(out)
    BY <1>2, StartFacts DEF TypeOK, Owners
  <1>3. ASSUME NEW e \in DOMAIN flying, ~Owns(e, c), Then(e, out)
        PROVE Owners(c)' = Owners(c) /\ \A x \in Owners(c) : flying'[x] = flying[x]
    BY <1>3, ThenFacts DEF TypeOK, Owners
  <1> QED BY <1>1, <1>2, <1>3

\* OneOwner for one connection.
Owned(c) ==
  IF conn[c].state = "open"
    THEN \/ backend = c /\ Owners(c) = {}
         \/ backend # c /\ \E e \in Owners(c) : Owners(c) = {e} /\ flying[e] = 1
    ELSE backend # c /\ Owners(c) = {}

\* A connection whose state, use and owners do not change stays owned.
LEMMA OwnedKept ==
  ASSUME NEW c, Owned(c), conn[c].state = conn'[c].state, (backend = c) <=> (backend' = c),
         Owners(c)' = Owners(c), \A x \in Owners(c) : flying'[x] = flying[x]
  PROVE Owned(c)'
  BY DEF Owned

\* The owner of a connection that is not in use is alone, and single.
LEMMA SoleOwner ==
  ASSUME OneOwner, NEW e \in DOMAIN flying, NEW c \in Conns, Owns(e, c)
  PROVE /\ conn[c].state = "open" /\ backend # c
        /\ Owners(c) = {e} /\ flying[e] = 1
  <1>1. e \in Owners(c)
    BY DEF Owners
  <1> QED BY <1>1 DEF OneOwner

\* Handling that owner, and starting no other, leaves the connection without one.
LEMMA OwnerGone ==
  ASSUME TypeOK, OneOwner, NEW e \in DOMAIN flying, NEW c \in Conns, Owns(e, c),
         NEW out, Then(e, out), \A x \in out : ~Owns(x, c)
  PROVE Owners(c)' = {}
  <1>1. Owners(c) = {e} /\ flying[e] = 1
    BY SoleOwner
  <1>2. e \notin out
    OBVIOUS
  <1>3. DOMAIN flying' \subseteq DOMAIN flying \cup out /\ e \notin DOMAIN flying'
    BY <1>1, <1>2, ThenFacts DEF TypeOK
  <1> QED BY <1>1, <1>3 DEF Owners

\* At the start the only connection made is the one in use (or none is).
LEMMA InitOneOwner == Init => OneOwner
  <1> SUFFICES ASSUME Init, NEW c \in Conns PROVE Owned(c)
    BY DEF OneOwner, Owned
  <1>1. PICK b \in {FirstConn, Offline} :
          /\ backend = b
          /\ conn[c].state = IF c = b THEN "open" ELSE "unmade"
          /\ flying = SetToBag({Probe(b, 0)} \cup (IF b = Offline THEN {} ELSE {OnConn("call", b)}))
    BY DEF Init
  <1>2. DOMAIN flying = {Probe(b, 0)} \cup (IF b = Offline THEN {} ELSE {OnConn("call", b)})
    BY <1>1 DEF SetToBag
  <1>3. Owners(c) = {}
    BY <1>2 DEF Owners, Owns, Probe, OnConn
  <1> QED BY <1>1, <1>3 DEF Owned

\* A dial that succeeds makes a connection nothing referred to, owned by its result.
LEMMA MadeOwned ==
  ASSUME TypeOK, OneOwner, NEW e \in DOMAIN flying, NEW kind \in {"connected", "retried"}, NEW h,
         e.kind \in {"connect", "retry"},
         Unmade # {}, Made(NewConn, h, cfg), Then(e, {Dialed(kind, h, NewConn)}),
         backend' = backend
  PROVE OneOwner'
  <1> DEFINE r == Dialed(kind, h, NewConn)
  <1> SUFFICES ASSUME NEW c \in Conns PROVE Owned(c)'
    BY DEF OneOwner, Owned
  <1>1. NewConn \in Conns /\ conn[NewConn].state = "unmade"
    BY NewConnUnmade DEF Unmade
  <1>2. ~Owns(e, c)
    BY DEF Owns
  <1>3. r.kind = kind /\ r.conn = NewConn
    BY DEF Dialed
  <1>o. Owned(c)
    BY DEF OneOwner, Owned
  <1>4. CASE c = NewConn
    <2>1. backend # c /\ Owners(c) = {}
      BY <1>1, <1>4 DEF OneOwner
    <2>2. Owns(r, c)
      BY <1>3, <1>4 DEF Owns
    <2>3. r \notin DOMAIN flying
      BY <2>1, <2>2 DEF Owners
    <2>4. r \in DOMAIN flying' /\ flying'[r] = 1 /\ DOMAIN flying' \subseteq DOMAIN flying \cup {r}
      BY <2>3, ThenFacts DEF TypeOK
    <2>5. Owners(c)' = {r}
      BY <2>1, <2>2, <2>4 DEF Owners
    <2>6. conn'[c].state = "open"
      BY <1>1, <1>4 DEF Made, TypeOK
    <2> HIDE DEF r
    <2> QED BY <2>1, <2>4, <2>5, <2>6 DEF Owned
  <1>5. CASE c # NewConn
    <2>1. ~Owns(r, c)
      BY <1>3, <1>5 DEF Owns
    <2>a. \A x \in {r} : ~Owns(x, c)
      BY <2>1
    <2>b. Then(e, {r})
      OBVIOUS
    <2> HIDE DEF r
    <2>2. Owners(c)' = Owners(c) /\ \A x \in Owners(c) : flying'[x] = flying[x]
      BY <1>2, <2>a, <2>b, OwnersKept
    <2>3. conn'[c] = conn[c]
      BY <1>1, <1>5 DEF Made, TypeOK
    <2> QED BY <1>o, <2>2, <2>3, OwnedKept
  <1> QED BY <1>4, <1>5

\* A step that leaves connections and owners alone.
LEMMA QuietOwned ==
  ASSUME TypeOK, OneOwner, UNCHANGED <<conn, backend>>, NEW out,
         \A x \in out, c \in Conns : ~Owns(x, c),
         \/ UNCHANGED flying
         \/ Start(out)
         \/ \E e \in DOMAIN flying : (\A c \in Conns : ~Owns(e, c)) /\ Then(e, out)
  PROVE OneOwner'
  <1> SUFFICES ASSUME NEW c \in Conns PROVE Owned(c)'
    BY DEF OneOwner, Owned
  <1>1. Owners(c)' = Owners(c) /\ \A x \in Owners(c) : flying'[x] = flying[x]
    BY OwnersKept
  <1>2. Owned(c)
    BY DEF OneOwner, Owned
  <1> QED BY <1>1, <1>2, OwnedKept

\* A connection that no command in flight owned gets a closer.
LEMMA CloserOwns ==
  ASSUME TypeOK, NEW e \in DOMAIN flying, NEW out, Then(e, out), NEW c \in Conns,
         OnConn("close", c) \in out, \A x \in out : Owns(x, c) => x = OnConn("close", c),
         \/ Owners(c) = {}
         \/ Owners(c) = {e} /\ flying[e] = 1 /\ e.kind # "close"
  PROVE Owners(c)' = {OnConn("close", c)} /\ flying'[OnConn("close", c)] = 1
  <1> DEFINE k == OnConn("close", c)
  <1>1. Owns(k, c) /\ k.kind = "close"
    BY DEF Owns, OnConn
  <1> HIDE DEF k
  <1>2. k \notin DOMAIN flying
    BY <1>1 DEF Owners
  <1>3. k \in DOMAIN flying' /\ flying'[k] = 1
    BY <1>2, ThenFacts DEF TypeOK, k
  <1>4. \A x \in DOMAIN flying' : Owns(x, c) => x = k
    <2> SUFFICES ASSUME NEW x \in DOMAIN flying', Owns(x, c), x # k PROVE FALSE
      OBVIOUS
    <2>1. x \in DOMAIN flying /\ x \notin out
      BY ThenFacts DEF TypeOK, k
    <2>2. x = e /\ flying[e] = 1
      BY <2>1 DEF Owners
    <2> QED BY <2>1, <2>2, ThenFacts DEF TypeOK
  <1> QED BY <1>1, <1>3, <1>4 DEF Owners, k

\* The result of a dial is dropped: its owner becomes a closer.
LEMMA HandedOver ==
  ASSUME TypeOK, OneOwner, NEW e \in DOMAIN flying, e.conn \in Conns, Owns(e, e.conn),
         e.kind # "close", Then(e, {OnConn("close", e.conn)}), UNCHANGED <<conn, backend>>
  PROVE Owned(e.conn)'
  <1>1. conn[e.conn].state = "open" /\ backend # e.conn /\ Owners(e.conn) = {e} /\ flying[e] = 1
    BY SoleOwner
  <1>2. Owners(e.conn)' = {OnConn("close", e.conn)} /\ flying'[OnConn("close", e.conn)] = 1
    BY <1>1, CloserOwns
  <1> QED BY <1>1, <1>2 DEF Owned

\* Handing one dropped result to a closer leaves the other connections' owners alone.
LEMMA OthersOwned ==
  ASSUME TypeOK, OneOwner, NEW e \in DOMAIN flying, e.conn \in Conns, NEW c \in Conns, c # e.conn,
         Then(e, {OnConn("close", e.conn)}), UNCHANGED <<conn, backend>>
  PROVE Owned(c)'
  <1> DEFINE out == {OnConn("close", e.conn)}
  <1>1. ~Owns(e, c) /\ (\A x \in out : ~Owns(x, c)) /\ Then(e, out)
    BY DEF Owns, OnConn
  <1> HIDE DEF out
  <1>2. Owners(c)' = Owners(c) /\ \A x \in Owners(c) : flying'[x] = flying[x]
    BY <1>1, OwnersKept
  <1>3. Owned(c)
    BY DEF OneOwner, Owned
  <1> QED BY <1>2, <1>3, OwnedKept

\* A reconnect hands the new connection to the session and the old one to a closer.
LEMMA ReconnectedOwned ==
  ASSUME TypeOK, OneOwner, NEW e \in DOMAIN flying, Reconnected(e)
  PROVE OneOwner'
  <1> USE SessionAssumption
  <1>1. PICK refresh \in SUBSET {OnConn("call", e.conn)} :
          Then(e, Replaced(e) \cup refresh \cup {Probe(e.conn, NextSeq)})
    BY DEF Reconnected
  <1> DEFINE out == Replaced(e) \cup refresh \cup {Probe(e.conn, NextSeq)}
  <1>2. e.conn \in Conns /\ Owns(e, e.conn) /\ backend' = e.conn /\ conn' = conn
    BY DEF Reconnected, Adopt, Owns, TypeOK, Cmd, Backends
  <1>3. conn[e.conn].state = "open" /\ backend # e.conn /\ Owners(e.conn) = {e} /\ flying[e] = 1
    BY <1>2, SoleOwner
  <1>4. \A x \in out, c \in Conns : Owns(x, c) => c = backend /\ x = OnConn("close", c)
    BY DEF Replaced, CloseOf, Owns, OnConn, Probe
  <1>5. backend \in Conns => OnConn("close", backend) \in out
    BY DEF Replaced, CloseOf
  <1>6. Then(e, out)
    BY <1>1
  <1> HIDE DEF out
  <1> SUFFICES ASSUME NEW c \in Conns PROVE Owned(c)'
    BY DEF OneOwner, Owned
  <1>o. Owned(c)
    BY DEF OneOwner, Owned
  <1>7. CASE c = e.conn
    <2>1. Owners(c)' = {}
      BY <1>2, <1>3, <1>4, <1>6, <1>7, OwnerGone
    <2> QED BY <1>2, <1>3, <1>7, <2>1 DEF Owned
  <1>8. CASE c = backend
    <2>1. conn[c].state = "open" /\ Owners(c) = {}
      BY <1>8, <1>o DEF Owned
    <2>2. Owners(c)' = {OnConn("close", c)} /\ flying'[OnConn("close", c)] = 1
      BY <1>4, <1>5, <1>6, <1>8, <2>1, CloserOwns
    <2> QED BY <1>2, <1>3, <1>8, <2>1, <2>2 DEF Owned
  <1>9. CASE c # e.conn /\ c # backend
    <2>1. ~Owns(e, c) /\ \A x \in out : ~Owns(x, c)
      BY <1>4, <1>9 DEF Owns
    <2>2. Owners(c)' = Owners(c) /\ \A x \in Owners(c) : flying'[x] = flying[x]
      BY <1>6, <2>1, OwnersKept
    <2> QED BY <1>2, <1>9, <1>o, <2>2, OwnedKept
  <1> QED BY <1>7, <1>8, <1>9

\* No message or command leaves an open connection without an owner or gives it two.
LEMMA StepOneOwner == TypeOK /\ OneOwner /\ [Next]_vars => OneOwner'
  <1> SUFFICES ASSUME TypeOK, OneOwner, [Next]_vars PROVE OneOwner'
    OBVIOUS
  <1> USE SessionAssumption
  <1> USE DEF dialogVars, heartVars
  <1>n. \A x \in {}, c \in Conns : ~Owns(x, c)
    OBVIOUS
  <1>d. \A k, h : \A c \in Conns : ~Owns(Dial(k, h), c) /\ ~Owns(Dialed(k, h, Offline), c)
    BY DEF Owns, Dial, Dialed
  <1>u. ASSUME UNCHANGED <<conn, backend>>, UNCHANGED flying PROVE OneOwner'
    BY <1>u DEF OneOwner, Owners
  <1>0. CASE UNCHANGED vars
    BY <1>0, <1>u DEF vars
  <1>1. ASSUME NEW h \in Hosts, BeginConnect(h) PROVE OneOwner'
    <2>1. UNCHANGED flying \/ Start({Dial("connect", h)})
      BY <1>1 DEF BeginConnect
    <2>2. \A x \in {Dial("connect", h)}, c \in Conns : ~Owns(x, c)
      BY <1>d
    <2> QED BY <1>1, <2>1, <2>2, QuietOwned DEF BeginConnect
  <1>2. CASE AuthEnter \/ ConnectAgain
    <2>1. \A x \in {Dial("connect", dialog)}, c \in Conns : ~Owns(x, c)
      BY <1>d
    <2>2. Start({Dial("connect", dialog)}) /\ UNCHANGED <<conn, backend>>
      BY <1>2 DEF AuthEnter, ConnectAgain
    <2> QED BY <2>1, <2>2, QuietOwned
  <1>4. CASE Esc
    BY <1>4, <1>u DEF Esc
  <1>5. CASE UserCall
    <2>1. PICK kind \in {"call", "forward"} : Start({OnConn(kind, backend)})
      BY <1>5 DEF UserCall
    <2>2. \A x \in {OnConn(kind, backend)}, c \in Conns : ~Owns(x, c)
      BY DEF Owns, OnConn
    <2> QED BY <1>5, <2>1, <2>2, QuietOwned DEF UserCall
  <1>6. CASE Tick
    <2>1. PICK refresh \in SUBSET {OnConn("call", backend)} :
            Start(refresh \cup (IF pingInFlight THEN {} ELSE {Ping(backend, pingSeq)}))
      BY <1>6 DEF Tick
    <2> DEFINE out == refresh \cup (IF pingInFlight THEN {} ELSE {Ping(backend, pingSeq)})
    <2>2. \A x \in out, c \in Conns : ~Owns(x, c)
      BY DEF Owns, OnConn, Ping
    <2>3. Start(out)
      BY <2>1
    <2> HIDE DEF out
    <2> QED BY <1>6, <2>2, <2>3, QuietOwned DEF Tick
  <1>7. ASSUME NEW e \in DOMAIN flying, Dispatch(e) PROVE OneOwner'
    <2>n. ASSUME Then(e, {}), UNCHANGED <<conn, backend>>, \A c \in Conns : ~Owns(e, c)
          PROVE OneOwner'
      BY <2>n, <1>n, QuietOwned
    <2>r. ASSUME StartReconnect(e), UNCHANGED <<conn, backend>>, \A c \in Conns : ~Owns(e, c)
          PROVE OneOwner'
      <3>1. \A x \in {Dial("retry", cfg.host)}, c \in Conns : ~Owns(x, c)
        BY <1>d
      <3> QED BY <3>1, <2>r, QuietOwned DEF StartReconnect
    <2>1. CASE ForwardRun(e) \/ PingStale(e) \/ ProbeDone(e) \/ CallDone(e)
      <3>1. \A c \in Conns : ~Owns(e, c)
        BY <2>1 DEF Owns, ForwardRun, PingStale, ProbeDone, CallDone
      <3> QED BY <2>1, <3>1, <2>n DEF ForwardRun, PingStale, ProbeDone, CallDone
    <2>3. ASSUME NEW a \in {"ok", "lost", "failed"}, PingDone(e, a) PROVE OneOwner'
      <3>1. (\A c \in Conns : ~Owns(e, c)) /\ UNCHANGED <<conn, backend>>
        BY <2>3 DEF Owns, PingDone
      <3>2. CASE Then(e, {})
        BY <3>1, <3>2, <2>n
      <3>3. CASE StartReconnect(e)
        BY <3>1, <3>3, <2>r
      <3>4. CASE Then(e, {Probe(backend, pingSeq)})
        <4>1. \A x \in {Probe(backend, pingSeq)}, c \in Conns : ~Owns(x, c)
          BY DEF Owns, Probe
        <4> QED BY <3>1, <3>4, <4>1, QuietOwned
      <3> QED BY <2>3, <3>2, <3>3, <3>4 DEF PingDone
    <2>6. CASE CallLost(e)
      <3>1. \A c \in Conns : ~Owns(e, c)
        BY <2>6 DEF Owns, CallLost
      <3> QED BY <2>6, <3>1, <2>r DEF CallLost
    <2>7. ASSUME NEW kind \in {"connected", "retried"}, e.kind \in {"connect", "retry"},
                 UNCHANGED backend,
                 \/ /\ Unmade # {}
                    /\ Made(NewConn, e.host, cfg)
                    /\ Then(e, {Dialed(kind, e.host, NewConn)})
                 \/ Then(e, {Dialed(kind, e.host, Offline)}) /\ UNCHANGED conn
          PROVE OneOwner'
      <3>1. CASE Then(e, {Dialed(kind, e.host, Offline)}) /\ UNCHANGED conn
        <4>1. \A c \in Conns : ~Owns(e, c)
          BY <2>7 DEF Owns
        <4>2. \A x \in {Dialed(kind, e.host, Offline)}, c \in Conns : ~Owns(x, c)
          BY <1>d
        <4> QED BY <2>7, <3>1, <4>1, <4>2, QuietOwned
      <3> QED BY <2>7, <3>1, MadeOwned
    <2>8. CASE ConnectFailed(e)
      <3>1. \A c \in Conns : ~Owns(e, c)
        BY <2>8 DEF Owns, ConnectFailed
      <3> QED BY <2>8, <3>1, <2>n DEF ConnectFailed
    <2>9. CASE Connected(e)
      <3> DEFINE out == {OnConn("call", e.conn), Probe(e.conn, NextSeq)}
      <3>1. e.conn \in Conns /\ Owns(e, e.conn) /\ Then(e, out) /\ backend' = e.conn
        BY <2>9 DEF Connected, Adopt, Owns, TypeOK, Cmd, Backends
      <3>2. \A x \in out, c \in Conns : ~Owns(x, c)
        BY DEF Owns, OnConn, Probe
      <3> HIDE DEF out
      <3>3. \A c \in Conns : conn'[c].state = IF c = backend THEN "closed" ELSE conn[c].state
        BY <2>9 DEF Connected, TypeOK
      <3> SUFFICES ASSUME NEW c \in Conns PROVE Owned(c)'
        BY DEF OneOwner, Owned
      <3>o. Owned(c)
        BY DEF OneOwner, Owned
      <3>4. CASE c = e.conn
        <4>1. Owners(c)' = {}
          BY <3>1, <3>2, <3>4, OwnerGone
        <4>2. conn[c].state = "open" /\ backend # c
          BY <3>1, <3>4, SoleOwner
        <4> QED BY <3>1, <3>3, <3>4, <4>1, <4>2 DEF Owned
      <3>5. CASE c # e.conn
        <4>1. Owners(c)' = Owners(c) /\ \A x \in Owners(c) : flying'[x] = flying[x]
          <5>1. \A x \in out : ~Owns(x, c)
            BY <3>2
          <5>2. ~Owns(e, c)
            BY <3>5 DEF Owns
          <5> QED BY <3>1, <5>1, <5>2, OwnersKept
        <4>2. CASE c = backend
          BY <3>1, <3>3, <3>5, <3>o, <4>1, <4>2 DEF Owned
        <4>3. CASE c # backend
          BY <3>1, <3>3, <3>5, <3>o, <4>1, <4>3, OwnedKept
        <4> QED BY <4>2, <4>3
      <3> QED BY <3>4, <3>5
    <2>11. CASE RetryDropped(e)
      <3>1. CASE e.conn = Offline
        <4>1. Then(e, {})
          BY <2>11, <3>1 DEF RetryDropped, LateRetry, CloseOf
        <4> QED BY <2>11, <3>1, <4>1, <2>n DEF RetryDropped, Owns
      <3>2. CASE e.conn # Offline
        <4>1. e.conn \in Conns /\ Owns(e, e.conn) /\ e.kind # "close"
          BY <2>11, <3>2 DEF RetryDropped, Owns, TypeOK, Cmd, Backends
        <4>2. Then(e, {OnConn("close", e.conn)}) /\ UNCHANGED <<conn, backend>>
          BY <2>11, <3>2 DEF RetryDropped, LateRetry, CloseOf
        <4> SUFFICES ASSUME NEW c \in Conns PROVE Owned(c)'
          BY DEF OneOwner, Owned
        <4>3. CASE c = e.conn
          BY <4>1, <4>2, <4>3, HandedOver
        <4>4. CASE c # e.conn
          BY <4>1, <4>2, <4>4, OthersOwned
        <4> QED BY <4>3, <4>4
      <3> QED BY <3>1, <3>2
    <2>12. CASE RetryFailed(e)
      <3>1. \A c \in Conns : ~Owns(e, c)
        BY <2>12 DEF Owns, RetryFailed
      <3>2. \A x \in NextAttempt, c \in Conns : ~Owns(x, c)
        BY <1>d DEF NextAttempt
      <3> QED BY <2>12, <3>1, <3>2, QuietOwned DEF RetryFailed
    <2>13. CASE Reconnected(e)
      BY <2>13, ReconnectedOwned
    <2>14. CASE CloseRun(e)
      <3>1. CASE e.conn \notin Conns
        <4>1. conn' = conn
          BY <2>14, <3>1 DEF CloseRun, TypeOK
        <4> QED BY <2>14, <3>1, <4>1, <2>n DEF CloseRun, Owns
      <3>2. CASE e.conn \in Conns
        <4>1. Owns(e, e.conn) /\ Then(e, {}) /\ backend' = backend
          BY <2>14 DEF CloseRun, Owns
        <4>2. \A c \in Conns : conn'[c].state = IF c = e.conn THEN "closed" ELSE conn[c].state
          BY <2>14, <3>2 DEF CloseRun, TypeOK
        <4> SUFFICES ASSUME NEW c \in Conns PROVE Owned(c)'
          BY DEF OneOwner, Owned
        <4>3. CASE c = e.conn
          <5>1. Owners(c)' = {} /\ backend # c
            BY <3>2, <4>1, <4>3, <1>n, OwnerGone, SoleOwner
          <5> QED BY <4>1, <4>2, <4>3, <5>1 DEF Owned
        <4>4. CASE c # e.conn
          <5>1. Owners(c)' = Owners(c) /\ \A x \in Owners(c) : flying'[x] = flying[x]
            <6> DEFINE out == {}
            <6>1. ~Owns(e, c) /\ (\A x \in out : ~Owns(x, c)) /\ Then(e, out)
              BY <4>1, <4>4 DEF Owns
            <6> HIDE DEF out
            <6> QED BY <6>1, OwnersKept
          <5>2. Owned(c)
            BY DEF OneOwner, Owned
          <5> QED BY <4>1, <4>2, <4>4, <5>1, <5>2, OwnedKept
        <4> QED BY <4>3, <4>4
      <3> QED BY <3>1, <3>2
    <2>15. CASE ConnectRun(e)
      BY <2>15, <2>7 DEF ConnectRun
    <2>16. CASE RetryRun(e)
      BY <2>16, <2>7 DEF RetryRun
    <2> QED BY <1>7, <2>1, <2>3, <2>6, <2>8, <2>9, <2>11,
               <2>12, <2>13, <2>14, <2>15, <2>16 DEF Dispatch
  <1> QED BY <1>0, <1>1, <1>2, <1>4, <1>5, <1>6, <1>7 DEF Next

\* Every open connection has one owner, always: no order of dials, late results,
\* switches and reconnects leaks a backend or closes the one in use
\* (connectResultMsg, reconnectResultMsg, closeBackendCmd).
THEOREM OwnersCorrect == Spec => []OneOwner
  <1> QED BY InitTypeOK, StepTypeOK, InitOneOwner, StepOneOwner, PTL DEF Spec

----------------------------------------------------------------------------
(* Reconnecting. *)

\* Inductive: every step that takes the retry away starts another or ends reconnecting,
\* and no step sets the dot green while reconnecting.
LEMMA ReconnectingStep ==
  ASSUME TypeOK, RetryUnderWay, DownWhileReconnecting, [Next]_vars
  PROVE RetryUnderWay' /\ DownWhileReconnecting'
  <1> USE DEF dialogVars, heartVars
  <1> DEFINE Same == UNCHANGED <<reconnecting, serverUp>>
             Retry(e) == e.kind \in {"retry", "retried"}
             Goal == RetryUnderWay' /\ DownWhileReconnecting'
  <1>s. ASSUME Same, UNCHANGED flying \/ \E out : Start(out) PROVE Goal
    <2>1. DOMAIN flying \subseteq DOMAIN flying'
      BY <1>s, StartFacts DEF TypeOK
    <2> QED BY <1>s, <2>1 DEF RetryUnderWay, DownWhileReconnecting, Flying
  <1>t. ASSUME Same, NEW e \in DOMAIN flying, NEW out, Then(e, out),
               ~Retry(e) \/ ~reconnecting \/ \E x \in out : Retry(x)
        PROVE Goal
    <2>1. /\ \A x \in DOMAIN flying : x # e => x \in DOMAIN flying'
          /\ out \subseteq DOMAIN flying'
      BY <1>t, ThenFacts DEF TypeOK
    <2>2. CASE ~reconnecting
      BY <1>t, <2>2 DEF RetryUnderWay, DownWhileReconnecting
    <2>3. CASE ~Retry(e)
      BY <1>t, <2>1, <2>3 DEF RetryUnderWay, DownWhileReconnecting, Flying
    <2>4. ASSUME NEW x \in out, Retry(x) PROVE Goal
      BY <1>t, <2>1, <2>4 DEF RetryUnderWay, DownWhileReconnecting, Flying
    <2> QED BY <1>t, <2>2, <2>3, <2>4
  <1>r. ASSUME NEW e \in DOMAIN flying, StartReconnect(e) PROVE Goal
    <2>1. Dial("retry", cfg.host) \in DOMAIN flying'
      BY <1>r, ThenFacts DEF StartReconnect, TypeOK
    <2>2. Dial("retry", cfg.host).kind = "retry"
      BY DEF Dial
    <2> QED BY <1>r, <2>1, <2>2 DEF StartReconnect, RetryUnderWay, DownWhileReconnecting, Flying
  <1>o. ASSUME reconnecting' = FALSE PROVE Goal
    BY <1>o DEF RetryUnderWay, DownWhileReconnecting
  <1> SUFFICES Goal
    OBVIOUS
  <1> HIDE DEF Goal
  <1>0. CASE UNCHANGED vars
    <2>1. Same /\ (UNCHANGED flying \/ \E out : Start(out))
      BY <1>0 DEF vars
    <2> QED BY <2>1, <1>s
  <1>1. ASSUME NEW h \in Hosts, BeginConnect(h) PROVE Goal
    <2>1. Same /\ (UNCHANGED flying \/ \E out : Start(out))
      BY <1>1 DEF BeginConnect
    <2> QED BY <2>1, <1>s
  <1>2. CASE AuthEnter
    <2>1. Same /\ (UNCHANGED flying \/ \E out : Start(out))
      BY <1>2 DEF AuthEnter
    <2> QED BY <2>1, <1>s
  <1>3. CASE ConnectAgain
    <2>1. Same /\ (UNCHANGED flying \/ \E out : Start(out))
      BY <1>3 DEF ConnectAgain
    <2> QED BY <2>1, <1>s
  <1>4. CASE Esc
    <2>1. Same /\ (UNCHANGED flying \/ \E out : Start(out))
      BY <1>4 DEF Esc
    <2> QED BY <2>1, <1>s
  <1>5. CASE UserCall
    <2>1. Same /\ (UNCHANGED flying \/ \E out : Start(out))
      BY <1>5 DEF UserCall
    <2> QED BY <2>1, <1>s
  <1>6. CASE Tick
    <2>1. Same /\ (UNCHANGED flying \/ \E out : Start(out))
      BY <1>6 DEF Tick
    <2> QED BY <2>1, <1>s
  <1>7. ASSUME NEW e \in DOMAIN flying, Dispatch(e) PROVE Goal
    <2>1. CASE ForwardRun(e) \/ PingStale(e) \/ ProbeDone(e) \/ CallDone(e)
      <3>1. e.kind \in {"forward", "ping", "probe", "call"} /\ Same /\ Then(e, {})
        BY <2>1 DEF ForwardRun, PingStale, ProbeDone, CallDone
      <3>2. ~Retry(e)
        BY <3>1
      <3> QED BY <3>1, <3>2, <1>t
    <2>2. ASSUME NEW a \in {"ok", "lost", "failed"}, PingDone(e, a) PROVE Goal
      <3>1. ~Retry(e)
        BY <2>2 DEF PingDone
      <3>2. CASE reconnecting
        BY <2>2, <3>1, <3>2, <1>t DEF PingDone, PingHeeded
      <3>3. CASE ~reconnecting /\ a = "lost" /\ CanReconnect
        BY <2>2, <3>3, <1>r DEF PingDone, PingHeeded
      <3>4. CASE ~reconnecting /\ ~(a = "lost" /\ CanReconnect)
        BY <2>2, <3>4, <1>o DEF PingDone, PingHeeded, TypeOK
      <3> QED BY <3>2, <3>3, <3>4
    <2>3. CASE CallLost(e)
      BY <2>3, <1>r DEF CallLost
    <2>4. CASE ConnectRun(e)
      <3>1. ~Retry(e) /\ Same /\ \E out : Then(e, out)
        BY <2>4 DEF ConnectRun
      <3> QED BY <3>1, <1>t
    <2>5. CASE ConnectFailed(e)
      <3>1. ~Retry(e) /\ Same /\ Then(e, {})
        BY <2>5 DEF ConnectFailed
      <3> QED BY <3>1, <1>t
    <2>6. CASE Connected(e)
      BY <2>6, <1>o DEF Connected, Adopt
    <2>7. CASE RetryRun(e)
      <3>1. PICK c : Then(e, {Dialed("retried", e.host, c)})
        BY <2>7 DEF RetryRun
      <3>2. Retry(Dialed("retried", e.host, c))
        BY DEF Dialed
      <3>3. Same
        BY <2>7 DEF RetryRun
      <3> QED BY <3>1, <3>2, <3>3, <1>t
    <2>8. CASE RetryDropped(e)
      BY <2>8, <1>t DEF RetryDropped
    <2>9. CASE RetryFailed(e)
      <3>1. Retry(Dial("retry", cfg.host))
        BY DEF Dial
      <3> QED BY <2>9, <3>1, <1>t DEF RetryFailed, NextAttempt
    <2>10. CASE Reconnected(e)
      BY <2>10, <1>o DEF Reconnected, Adopt
    <2>11. CASE CloseRun(e)
      <3>1. ~Retry(e) /\ Same /\ Then(e, {})
        BY <2>11 DEF CloseRun
      <3> QED BY <3>1, <1>t
    <2> QED BY <1>7, <2>1, <2>2, <2>3, <2>4, <2>5, <2>6, <2>7, <2>8, <2>9, <2>10, <2>11 DEF Dispatch
  <1> QED BY <1>0, <1>1, <1>2, <1>3, <1>4, <1>5, <1>6, <1>7 DEF Next

\* A session does not start reconnecting.
LEMMA ReconnectingInit == Init => RetryUnderWay /\ DownWhileReconnecting
  BY DEF Init, RetryUnderWay, DownWhileReconnecting

\* A session that is reconnecting always has an attempt under way: it never waits
\* for a retry that no message will start (maybeStartReconnect, reconnectResultMsg).
THEOREM NeverStuckReconnecting == Spec => []RetryUnderWay
  <1>1. TypeOK /\ RetryUnderWay /\ DownWhileReconnecting /\ [Next]_vars
          => TypeOK' /\ RetryUnderWay' /\ DownWhileReconnecting'
    BY StepTypeOK, ReconnectingStep
  <1> QED BY InitTypeOK, ReconnectingInit, <1>1, PTL DEF Spec

\* The status dot is down while the session reconnects, whatever pings of the
\* lost connection answer meanwhile (pingResultMsg).
THEOREM DownUntilReconnected == Spec => []DownWhileReconnecting
  <1>1. TypeOK /\ RetryUnderWay /\ DownWhileReconnecting /\ [Next]_vars
          => TypeOK' /\ RetryUnderWay' /\ DownWhileReconnecting'
    BY StepTypeOK, ReconnectingStep
  <1> QED BY InitTypeOK, ReconnectingInit, <1>1, PTL DEF Spec

----------------------------------------------------------------------------
(* The heartbeat. *)

\* The generations of the pings and probes in flight, and the gate.
HeartInv ==
  /\ \A e \in Flying("ping") \cup Flying("probe") : e.seq <= pingSeq
  /\ \A e \in Flying("probe") : e.seq = pingSeq => e.conn = backend
  /\ RuntimeOfBackend
  /\ PingGate

\* At the start one probe is in flight for the backend in use, and no ping.
LEMMA HeartInit == Init => HeartInv
  <1> SUFFICES ASSUME Init PROVE HeartInv
    OBVIOUS
  <1>1. PICK b : /\ backend = b
                 /\ flying = SetToBag({Probe(b, 0)} \cup (IF b = Offline THEN {} ELSE {OnConn("call", b)}))
    BY DEF Init
  <1>2. DOMAIN flying \subseteq {Probe(b, 0), OnConn("call", b)}
    BY <1>1 DEF SetToBag
  <1>3. Probe(b, 0).kind = "probe" /\ Probe(b, 0).seq = 0 /\ Probe(b, 0).conn = b
    BY DEF Probe
  <1>4. OnConn("call", b).kind = "call"
    BY DEF OnConn
  <1>5. \A e \in Flying("ping") \cup Flying("probe") : e = Probe(b, 0)
    BY <1>2, <1>4 DEF Flying
  <1>6. pingSeq = 0 /\ ~pingInFlight /\ runtime = Offline
    BY DEF Init
  <1>7. Flying("ping") = {}
    BY <1>3, <1>5 DEF Flying
  <1> QED BY <1>1, <1>3, <1>5, <1>6, <1>7 DEF HeartInv, RuntimeOfBackend, PingGate

\* A step that handles no ping of this generation and starts no ping.
LEMMA HeartKept ==
  ASSUME TypeOK, HeartInv, UNCHANGED <<pingSeq, backend, pingInFlight>>, runtime' \in {backend, Offline},
         NEW out,
         \A x \in out : x.kind # "ping" /\ (x.kind = "probe" => x = Probe(backend, pingSeq)),
         \/ UNCHANGED flying
         \/ Start(out)
         \/ \E e \in DOMAIN flying : ~(e.kind = "ping" /\ e.seq = pingSeq) /\ Then(e, out)
  PROVE HeartInv'
  <1>1. /\ DOMAIN flying' \subseteq DOMAIN flying \cup out
        /\ \A x \in Flying("ping") : x.seq = pingSeq => x \in DOMAIN flying' /\ flying'[x] = flying[x]
    <2>1. CASE UNCHANGED flying
      BY <2>1 DEF Flying
    <2>2. CASE Start(out)
      BY <2>2, StartFacts DEF TypeOK, Flying
    <2>3. ASSUME NEW e \in DOMAIN flying, ~(e.kind = "ping" /\ e.seq = pingSeq), Then(e, out)
          PROVE /\ DOMAIN flying' \subseteq DOMAIN flying \cup out
                /\ \A x \in Flying("ping") : x.seq = pingSeq => x \in DOMAIN flying' /\ flying'[x] = flying[x]
      BY <2>3, ThenFacts DEF TypeOK, Flying
    <2> QED BY <2>1, <2>2, <2>3
  <1>2. Probe(backend, pingSeq).seq = pingSeq /\ Probe(backend, pingSeq).conn = backend
    BY DEF Probe
  <1>3. \A x \in Flying("ping")' : x \in Flying("ping")
    BY <1>1 DEF Flying
  <1>4. \A x \in Flying("probe")' : x \in Flying("probe") \/ x = Probe(backend, pingSeq)
    BY <1>1 DEF Flying
  <1>5. pingSeq <= pingSeq
    BY DEF TypeOK
  <1>6. PingGate'
    <2>1. \A x \in Flying("ping") : x.seq = pingSeq => x \in Flying("ping")' /\ flying'[x] = flying[x]
      BY <1>1 DEF Flying
    <2>2. Ping(backend, pingSeq)' = Ping(backend, pingSeq)
      BY DEF Ping
    <2> QED BY <1>3, <2>1, <2>2 DEF PingGate, HeartInv
  <1> QED BY <1>2, <1>3, <1>4, <1>5, <1>6 DEF HeartInv, RuntimeOfBackend

\* A new backend starts a new generation: nothing in flight belongs to it but its probe.
LEMMA HeartAdopt ==
  ASSUME TypeOK, HeartInv, NEW c, Adopt(c), NEW e \in DOMAIN flying, NEW out, Then(e, out),
         \A x \in out : x.kind # "ping" /\ (x.kind = "probe" => x = Probe(c, NextSeq))
  PROVE HeartInv'
  <1>1. DOMAIN flying' \subseteq DOMAIN flying \cup out
    BY ThenFacts DEF TypeOK
  <1>2. Probe(c, NextSeq).seq = pingSeq + 1 /\ Probe(c, NextSeq).conn = c
    BY DEF Probe, NextSeq
  <1>3. backend' = c /\ pingSeq' = pingSeq + 1 /\ ~pingInFlight' /\ runtime' = Offline
    BY DEF Adopt, NextSeq
  <1>4. \A x \in Flying("ping")' : x \in Flying("ping")
    BY <1>1 DEF Flying
  <1>5. \A x \in Flying("probe")' : x \in Flying("probe") \/ x = Probe(c, NextSeq)
    BY <1>1 DEF Flying
  <1>6. \A x \in Flying("ping") \cup Flying("probe") : x.seq \in Nat /\ x.seq <= pingSeq
    BY DEF HeartInv, Flying, TypeOK, Cmd
  <1>7. pingSeq \in Nat
    BY DEF TypeOK
  <1>8. PingGate'
    BY <1>3, <1>4, <1>6, <1>7 DEF PingGate
  <1> QED BY <1>2, <1>3, <1>4, <1>5, <1>6, <1>7, <1>8 DEF HeartInv, RuntimeOfBackend

\* A tick while no ping of this generation is in flight starts one.
LEMMA HeartTick ==
  ASSUME TypeOK, HeartInv, Tick
  PROVE HeartInv'
  <1>1. PICK refresh \in SUBSET {OnConn("call", backend)} :
          Start(refresh \cup (IF pingInFlight THEN {} ELSE {Ping(backend, pingSeq)}))
    BY DEF Tick
  <1>2. pingInFlight' /\ UNCHANGED <<pingSeq, backend, runtime>>
    BY DEF Tick, heartVars
  <1>3. OnConn("call", backend).kind = "call"
    BY DEF OnConn
  <1>4. CASE pingInFlight
    <2> DEFINE out == refresh \cup {}
    <2>1. Start(out) /\ \A x \in out : x.kind = "call"
      BY <1>1, <1>3, <1>4
    <2>2. runtime' \in {backend, Offline} /\ pingInFlight' = pingInFlight
      BY <1>2, <1>4 DEF HeartInv, RuntimeOfBackend, TypeOK
    <2> HIDE DEF out
    <2> QED BY <1>2, <2>1, <2>2, HeartKept
  <1>5. CASE ~pingInFlight
    <2> DEFINE p == Ping(backend, pingSeq)
    <2>1. p.kind = "ping" /\ p.seq = pingSeq
      BY DEF Ping
    <2>2. Start(refresh \cup {p})
      BY <1>1, <1>5
    <2>3. p' = p
      BY <1>2 DEF Ping
    <2>4. (PingGate <=> (/\ \A e \in Flying("ping") : e.seq = pingSeq => pingInFlight /\ e = p /\ flying[e] = 1
                         /\ pingInFlight => \E e \in Flying("ping") : e.seq = pingSeq))
          /\ (PingGate' <=> (/\ \A e \in Flying("ping")' : e.seq = pingSeq' => pingInFlight' /\ e = p' /\ flying'[e] = 1
                             /\ pingInFlight' => \E e \in Flying("ping")' : e.seq = pingSeq'))
      BY DEF PingGate
    <2> HIDE DEF p
    <2>5. p \notin DOMAIN flying
      BY <1>5, <2>1, <2>4 DEF HeartInv, Flying
    <2>6. /\ DOMAIN flying' = DOMAIN flying \cup refresh \cup {p}
          /\ flying'[p] = 1
      <3> DEFINE out == refresh \cup {p}
      <3>1. Start(out) /\ p \in out /\ DOMAIN flying \cup out = DOMAIN flying \cup refresh \cup {p}
        BY <2>2
      <3> HIDE DEF out
      <3> QED BY <2>5, <3>1, StartFacts DEF TypeOK
    <2>7. Flying("ping")' = Flying("ping") \cup {p} /\ Flying("probe")' = Flying("probe")
      BY <1>3, <2>1, <2>6 DEF Flying
    <2>8. \A e \in Flying("ping") : e.seq # pingSeq
      BY <1>5, <2>4 DEF HeartInv
    <2>9. PingGate'
      BY <1>2, <2>1, <2>3, <2>4, <2>6, <2>7, <2>8
    <2>10. pingSeq <= pingSeq
      BY DEF TypeOK
    <2> QED BY <1>2, <2>1, <2>7, <2>9, <2>10 DEF HeartInv, RuntimeOfBackend
  <1> QED BY <1>4, <1>5

\* The answer of this generation's ping opens the gate.
LEMMA HeartPing ==
  ASSUME TypeOK, HeartInv, NEW e \in DOMAIN flying, NEW a, PingDone(e, a)
  PROVE HeartInv'
  <1>1. e.kind = "ping" /\ e.seq = pingSeq /\ ~pingInFlight' /\ UNCHANGED <<pingSeq, backend, runtime>>
    BY DEF PingDone, Current
  <1>2. PICK out : Then(e, out) /\ \A x \in out : x.kind # "ping" /\ (x.kind = "probe" => x = Probe(backend, pingSeq))
    <2>1. Dial("retry", cfg.host).kind = "retry" /\ Probe(backend, pingSeq).kind = "probe"
      BY DEF Dial, Probe
    <2>2. \/ Then(e, {}) \/ Then(e, {Dial("retry", cfg.host)}) \/ Then(e, {Probe(backend, pingSeq)})
      BY DEF PingDone, StartReconnect
    <2>3. CASE Then(e, {})
      BY <2>3
    <2>4. CASE Then(e, {Dial("retry", cfg.host)})
      BY <2>1, <2>4
    <2>5. CASE Then(e, {Probe(backend, pingSeq)})
      BY <2>1, <2>5
    <2> QED BY <2>2, <2>3, <2>4, <2>5
  <1>3. e \in Flying("ping") /\ flying[e] = 1 /\ \A x \in Flying("ping") : x.seq = pingSeq => x = e
    BY <1>1 DEF HeartInv, PingGate, Flying
  <1>4. DOMAIN flying' \subseteq DOMAIN flying \cup out /\ e \notin DOMAIN flying'
    BY <1>1, <1>2, <1>3, ThenFacts DEF TypeOK
  <1>5. \A x \in Flying("ping")' : x \in Flying("ping") /\ x.seq # pingSeq
    BY <1>2, <1>3, <1>4 DEF Flying
  <1>6. \A x \in Flying("probe")' : x \in Flying("probe") \/ x = Probe(backend, pingSeq)
    BY <1>2, <1>4 DEF Flying
  <1>7. PingGate'
    BY <1>1, <1>5 DEF PingGate
  <1>8. Probe(backend, pingSeq).seq = pingSeq /\ Probe(backend, pingSeq).conn = backend /\ pingSeq <= pingSeq
    BY DEF Probe, TypeOK
  <1> QED BY <1>1, <1>5, <1>6, <1>7, <1>8 DEF HeartInv, RuntimeOfBackend

\* HeartInv is inductive: one step per message and command.
LEMMA StepHeart == TypeOK /\ HeartInv /\ [Next]_vars => HeartInv'
  <1> SUFFICES ASSUME TypeOK, HeartInv, [Next]_vars PROVE HeartInv'
    OBVIOUS
  <1> USE DEF dialogVars, heartVars
  <1> DEFINE Same == UNCHANGED <<pingSeq, backend, pingInFlight, runtime>>
             Quiet(out) == \A x \in out : x.kind # "ping" /\ (x.kind = "probe" => x = Probe(backend, pingSeq))
  <1>r. runtime \in {backend, Offline}
    BY DEF HeartInv, RuntimeOfBackend
  <1>s. ASSUME Same, UNCHANGED flying \/ \E out : Start(out) /\ Quiet(out) PROVE HeartInv'
    <2>1. CASE UNCHANGED flying
      BY <1>s, <2>1 DEF HeartInv, RuntimeOfBackend, PingGate, Flying, Ping
    <2>2. ASSUME NEW out, Start(out), Quiet(out) PROVE HeartInv'
      BY <1>r, <1>s, <2>2, HeartKept
    <2> QED BY <1>s, <2>1, <2>2
  <1>t. ASSUME Same, NEW e \in DOMAIN flying, ~(e.kind = "ping" /\ e.seq = pingSeq),
               NEW out, Then(e, out), Quiet(out)
        PROVE HeartInv'
    BY <1>r, <1>t, HeartKept
  <1>d. \A k, h, c : Dial(k, h).kind = k /\ Dialed(k, h, c).kind = k /\ OnConn(k, c).kind = k
    BY DEF Dial, Dialed, OnConn
  <1>0. CASE UNCHANGED vars
    <2>1. Same /\ UNCHANGED flying
      BY <1>0 DEF vars
    <2> QED BY <2>1 DEF HeartInv, RuntimeOfBackend, PingGate, Flying, Ping
  <1>1. ASSUME NEW h \in Hosts, BeginConnect(h) PROVE HeartInv'
    <2>1. Quiet({Dial("connect", h)}) /\ Quiet({})
      BY <1>d
    <2>2. Same /\ (UNCHANGED flying \/ Start({Dial("connect", h)}))
      BY <1>1 DEF BeginConnect
    <2> QED BY <2>1, <2>2, <1>s
  <1>2. CASE AuthEnter \/ ConnectAgain
    <2>1. Quiet({Dial("connect", dialog)})
      BY <1>d
    <2>2. Same /\ Start({Dial("connect", dialog)})
      BY <1>2 DEF AuthEnter, ConnectAgain
    <2> QED BY <2>1, <2>2, <1>s
  <1>4. CASE Esc
    <2>1. Same /\ UNCHANGED flying
      BY <1>4 DEF Esc
    <2> QED BY <2>1 DEF HeartInv, RuntimeOfBackend, PingGate, Flying, Ping
  <1>5. CASE UserCall
    <2>1. PICK kind \in {"call", "forward"} : Start({OnConn(kind, backend)})
      BY <1>5 DEF UserCall
    <2>2. Quiet({OnConn(kind, backend)})
      BY <1>d
    <2>3. Same
      BY <1>5 DEF UserCall
    <2> QED BY <2>1, <2>2, <2>3, <1>s
  <1>6. CASE Tick
    BY <1>6, HeartTick
  <1>7. ASSUME NEW e \in DOMAIN flying, Dispatch(e) PROVE HeartInv'
    <2>n. Quiet({})
      OBVIOUS
    <2>1. CASE ForwardRun(e) \/ CallDone(e) \/ CloseRun(e) \/ ConnectFailed(e)
      <3>1. Same /\ e.kind # "ping" /\ Then(e, {})
        BY <2>1 DEF ForwardRun, CallDone, CloseRun, ConnectFailed
      <3> QED BY <3>1, <2>n, <1>t
    <2>2. CASE PingStale(e)
      <3>1. Same /\ e.seq # pingSeq /\ Then(e, {})
        BY <2>2 DEF PingStale, Current
      <3> QED BY <3>1, <2>n, <1>t
    <2>3. ASSUME NEW a \in {"ok", "lost", "failed"}, PingDone(e, a) PROVE HeartInv'
      BY <2>3, HeartPing
    <2>4. CASE ProbeDone(e)
      <3>1. e.kind = "probe" /\ Then(e, {}) /\ UNCHANGED <<pingSeq, backend, pingInFlight>>
        BY <2>4 DEF ProbeDone
      <3>2. e.seq = pingSeq => e.conn = backend
        BY <3>1 DEF HeartInv, Flying
      <3>3. runtime' \in {backend, Offline}
        BY <2>4, <3>2, <1>r DEF ProbeDone, Current
      <3> QED BY <3>1, <3>3, <2>n, HeartKept
    <2>5. CASE CallLost(e)
      <3>1. Same /\ e.kind # "ping" /\ Then(e, {Dial("retry", cfg.host)})
        BY <2>5 DEF CallLost, StartReconnect
      <3>2. Quiet({Dial("retry", cfg.host)})
        BY <1>d
      <3> QED BY <3>1, <3>2, <1>t
    <2>6. CASE ConnectRun(e) \/ RetryRun(e)
      <3>1. PICK k \in {"connected", "retried"} : \E c : Then(e, {Dialed(k, e.host, c)})
        BY <2>6 DEF ConnectRun, RetryRun
      <3>2. PICK c : Then(e, {Dialed(k, e.host, c)})
        BY <3>1
      <3>3. Same /\ e.kind # "ping"
        BY <2>6 DEF ConnectRun, RetryRun
      <3>4. Quiet({Dialed(k, e.host, c)})
        BY <1>d
      <3> QED BY <3>2, <3>3, <3>4, <1>t
    <2>7. CASE Connected(e)
      <3> DEFINE out == {OnConn("call", e.conn), Probe(e.conn, NextSeq)}
      <3>1. Adopt(e.conn) /\ Then(e, out)
        BY <2>7 DEF Connected
      <3>2. \A x \in out : x.kind # "ping" /\ (x.kind = "probe" => x = Probe(e.conn, NextSeq))
        BY <1>d DEF Probe
      <3> HIDE DEF out
      <3> QED BY <3>1, <3>2, HeartAdopt
    <2>8. CASE RetryDropped(e)
      <3>1. Same /\ e.kind # "ping" /\ Then(e, CloseOf(e.conn))
        BY <2>8 DEF RetryDropped, LateRetry
      <3>2. Quiet(CloseOf(e.conn))
        BY <1>d DEF CloseOf
      <3> QED BY <3>1, <3>2, <1>t
    <2>9. CASE RetryFailed(e)
      <3>1. Same /\ e.kind # "ping" /\ Then(e, NextAttempt)
        BY <2>9 DEF RetryFailed
      <3>2. Quiet(NextAttempt)
        BY <1>d DEF NextAttempt
      <3> QED BY <3>1, <3>2, <1>t
    <2>10. CASE Reconnected(e)
      <3>1. PICK refresh \in SUBSET {OnConn("call", e.conn)} :
              Then(e, Replaced(e) \cup refresh \cup {Probe(e.conn, NextSeq)})
        BY <2>10 DEF Reconnected
      <3> DEFINE out == Replaced(e) \cup refresh \cup {Probe(e.conn, NextSeq)}
      <3>2. Adopt(e.conn) /\ Then(e, out)
        BY <2>10, <3>1 DEF Reconnected
      <3>3. \A x \in out : x.kind # "ping" /\ (x.kind = "probe" => x = Probe(e.conn, NextSeq))
        BY <1>d DEF Probe, Replaced, CloseOf
      <3> HIDE DEF out
      <3> QED BY <3>2, <3>3, HeartAdopt
    <2> QED BY <1>7, <2>1, <2>2, <2>3, <2>4, <2>5, <2>6, <2>7, <2>8, <2>9, <2>10 DEF Dispatch
  <1> QED BY <1>0, <1>1, <1>2, <1>4, <1>5, <1>6, <1>7 DEF Next

\* In every reachable state what is in flight for this generation belongs to the
\* backend in use, and nothing is in flight for a later one (pingSeq, Update).
THEOREM HeartInvariant == Spec => []HeartInv
  <1> QED BY InitTypeOK, StepTypeOK, HeartInit, StepHeart, PTL DEF Spec

\* The heartbeat's gate is never left closed without a ping to open it, and
\* never lets a second ping of the same generation out (tickMsg, pingResultMsg).
THEOREM GateCorrect == Spec => []PingGate
  <1>1. HeartInv => PingGate
    BY DEF HeartInv
  <1> QED BY <1>1, HeartInvariant, PTL

\* The header names the engine of the backend in use or none (runtimeMsg).
THEOREM RuntimeCorrect == Spec => []RuntimeOfBackend
  <1>1. HeartInv => RuntimeOfBackend
    BY DEF HeartInv
  <1> QED BY <1>1, HeartInvariant, PTL

-----------------------------------------------------------------------------
\* The heartbeat, as the run checks it: its gate and the engine shown.
THEOREM HeartbeatCorrect == Spec => []HeartbeatRight
  <1>1. PingGate /\ RuntimeOfBackend => HeartbeatRight
    BY DEF HeartbeatRight
  <1> QED BY <1>1, GateCorrect, RuntimeCorrect, PTL

\* Reconnecting, as the run checks it: an attempt is under way, and the dot down.
THEOREM ReconnectCorrect == Spec => []ReconnectRight
  <1>1. RetryUnderWay /\ DownWhileReconnecting => ReconnectRight
    BY DEF ReconnectRight
  <1> QED BY <1>1, NeverStuckReconnecting, DownUntilReconnected, PTL

----------------------------------------------------------------------------
(* The commands on objects and projects: what their words are. *)

LEMMA Words ==
  ASSUME NEW op \in Ops
  PROVE /\ op.name \in {"tag", "rmi"} => op.to \in Tags \cup {None}
        /\ op.name = "tag" => op.to \in Tags
        /\ op.name \in {"pull", "run"} => op.ref \in Tags
        /\ op.name = "build" => op.to \in Tags \cup {None}
        /\ op.name = "run" => op.to \in Ctrs
        /\ op.name = "net" => op.ref \in Nets
        /\ op.name = "vol" => op.ref \in Vols
  <1>1. CASE op \in AgentOps
    BY <1>1 DEF AgentOps, Op, Tags, Ctrs, Nets, Vols, BuiltIn, Sweeps
  <1>2. CASE op \in InterfaceOps
    BY <1>2 DEF InterfaceOps, Op, Tags, Ctrs, Nets, Vols, BuiltIn
  <1>3. CASE op \in AgentProjectOps
    BY <1>3 DEF AgentProjectOps, Op, Tags, Engined
  <1>4. CASE op \in InterfaceProjectOps
    BY <1>4 DEF InterfaceProjectOps, Op, Tags, Lifecycle
  <1> QED BY <1>1, <1>2, <1>3, <1>4 DEF Ops

----------------------------------------------------------------------------
(* Rows of images. *)

Row == [id : Ids, tags : SUBSET Tags]

LEMMA RowAt ==
  ASSUME NEW rows \in Seq(Row), NEW i \in DOMAIN rows
  PROVE rows[i] \in Row
  <1> HIDE DEF Row
  <1> QED OBVIOUS

LEMMA FirstOf ==
  ASSUME NEW S \in SUBSET Nat, S # {}
  PROVE First(S) \in S /\ \A j \in S : First(S) <= j
BY LeastNumber DEF First

\* The n-th of a set of places has n of them up to it.
LEMMA PlaceCount ==
  ASSUME NEW S \in SUBSET Nat, IsFiniteSet(S), NEW s \in SetToSeqs(S),
         \A i, j \in DOMAIN s : i < j => s[i] < s[j],
         NEW n \in 1..Cardinality(S)
  PROVE s[n] \in S /\ Cardinality({j \in S : j <= s[n]}) = n
  <1> DEFINE T == {j \in S : j <= s[n]}
             f == [k \in 1..n |-> s[k]]
  <1>1. /\ s \in Seq(S) /\ Len(s) = Cardinality(S) /\ Cardinality(S) \in Nat
        /\ DOMAIN s = 1..Cardinality(S)
        /\ \A x \in S : \E i \in DOMAIN s : s[i] = x
    BY SetToSeqsAll, FS_CardinalityType
  <1>2. \A k \in 1..Cardinality(S) : s[k] \in S /\ s[k] \in Nat
    <2>1. s \in Seq(S)
      BY <1>1
    <2>2. \A k \in DOMAIN s : s[k] \in S
      BY <2>1
    <2> QED BY <1>1, <2>2
  <1>3. n \in Nat /\ 1..n \subseteq 1..Cardinality(S)
    <2>1. \A m \in Nat : n \in 1..m => n \in Nat /\ 1..n \subseteq 1..m
      OBVIOUS
    <2>2. Cardinality(S) \in Nat
      BY FS_CardinalityType
    <2> QED BY <2>1, <2>2
  <1>4. \A k \in 1..Cardinality(S) : s[k] <= s[n] <=> k <= n
    BY <1>1, <1>2
  <1>5. f \in Bijection(1..n, T)
    <2>1. f \in [1..n -> T]
      BY <1>2, <1>3, <1>4
    <2>2. \A i, j \in 1..n : f[i] = f[j] => i = j
      <3>1. \A i, j \in 1..Cardinality(S) : s[i] = s[j] => i = j
        BY <1>1, <1>2
      <3> QED BY <1>3, <3>1
    <2>3. \A x \in T : \E i \in 1..n : f[i] = x
      BY <1>1, <1>3, <1>4
    <2> HIDE DEF f
    <2> QED BY <2>1, <2>2, <2>3 DEF Bijection, Injection, Surjection, IsInjective
  <1>6. ExistsBijection(1..n, T)
    BY <1>5 DEF ExistsBijection
  <1>7. IsFiniteSet(T)
    BY FS_Subset
  <1>8. Cardinality(T) = n
    <2> HIDE DEF T
    <2> QED BY <1>3, <1>6, <1>7, FS_CountingElements
  <1> QED BY <1>2, <1>8

\* RowsAt keeps the rows at the places S, each of them, and no others.
LEMMA RowsAtPlaces ==
  ASSUME NEW rows \in Seq(Row), NEW S \in SUBSET DOMAIN rows
  PROVE /\ RowsAt(rows, S) \in Seq(Row)
        /\ \A i \in S : \E n \in DOMAIN RowsAt(rows, S) : RowsAt(rows, S)[n] = rows[i]
        /\ \A n \in DOMAIN RowsAt(rows, S) : \E i \in S : RowsAt(rows, S)[n] = rows[i]
  <1> DEFINE N == Cardinality(S)
             Count(i) == Cardinality({j \in S : j <= i})
             key == [x \in S |-> x]
  <1>1. DOMAIN rows = 1..Len(rows) /\ Len(rows) \in Nat
    OBVIOUS
  <1>2. S \in SUBSET Nat
    BY <1>1
  <1>3. IsFiniteSet(S)
    <2>1. IsFiniteSet(DOMAIN rows)
      BY <1>1, FS_Interval
    <2> QED BY <2>1, FS_Subset
  <1>4. PICK s \in SetToSeqs(S) : \A i, j \in DOMAIN s : i < j => s[i] < s[j]
    <2>1. key \in [S -> Nat] /\ \A x, y \in S : key[x] = key[y] => x = y
      BY <1>2
    <2>2. PICK s \in SetToSeqs(S) : \A i, j \in DOMAIN s : i < j => key[s[i]] < key[s[j]]
      <3> HIDE DEF key
      <3> QED BY <1>3, <2>1, OrderExists
    <2>3. s \in Seq(S)
      BY <1>3, SetToSeqsAll
    <2>4. \A i \in DOMAIN s : key[s[i]] = s[i]
      BY <2>3
    <2> QED BY <2>2, <2>4
  <1>5. /\ N \in Nat /\ DOMAIN s = 1..N
        /\ \A x \in S : \E i \in DOMAIN s : s[i] = x
    BY <1>3, SetToSeqsAll, FS_CardinalityType
  <1>6. \A n \in 1..N : s[n] \in S /\ Count(s[n]) = n
    BY <1>2, <1>3, <1>4, PlaceCount
  <1>7. \A i \in S : \E n \in 1..N : i = s[n]
    BY <1>5
  <1> HIDE DEF Count
  <1>8. \A n \in 1..N : (CHOOSE i \in S : Count(i) = n) = s[n]
    <2>1. SUFFICES ASSUME NEW n \in 1..N
                   PROVE (CHOOSE i \in S : Count(i) = n) = s[n]
      OBVIOUS
    <2>2. \A i \in S : Count(i) = n => i = s[n]
      BY <1>6, <1>7
    <2> QED BY <1>6, <2>2
  <1>9. RowsAt(rows, S) = [n \in 1..N |-> rows[s[n]]]
    <2>1. RowsAt(rows, S) = [n \in 1..N |-> rows[CHOOSE i \in S : Count(i) = n]]
      BY DEF RowsAt, Count
    <2> HIDE DEF N
    <2> QED BY <1>8, <2>1
  <1>10. \A n \in 1..N : rows[s[n]] \in Row
    BY <1>6, RowAt
  <1>11. RowsAt(rows, S) \in Seq(Row)
    <2> HIDE DEF N, Row
    <2> QED BY <1>5, <1>9, <1>10
  <1>12. DOMAIN RowsAt(rows, S) = 1..N /\ \A n \in 1..N : RowsAt(rows, S)[n] = rows[s[n]]
    BY <1>9
  <1> HIDE DEF N
  <1> QED BY <1>6, <1>7, <1>11, <1>12

----------------------------------------------------------------------------
(* The record of one call, on engine e.                                    *)

Early == {"asked", "lookup", "act", "list", "resolve", "members", "meta"}
Misled == {"usage", "not_found", "unsupported"}

CallShape(r) ==
  /\ r \in [op : {r.op}, at : {r.at}, found : {r.found}, did : {r.did}, code : {r.code}, tries : {r.tries},
            round : {r.round}, todo : {r.todo}, out : {r.out}, got : {r.got}]
  /\ r.code \in Codes /\ r.tries \in 0..2
  /\ r.at = "idle" => r = Idle
  /\ r.at # "idle" => r.op \in Ops

\* Which commands come by a place.
PlaceFits(r) ==
  /\ r.at = "asked" => r.op.name \in Sweeps
  /\ r.at \in Stages => r.op.name = "sysprune"
  /\ r.at \in {"fetch", "again", "start"} => r.op.name = "run"
  /\ r.at \in {"list", "batch", "window"} => r.op.name = "stats"
  /\ r.at \in {"members", "each"} => r.op.name \in Lifecycle
  /\ r.at = "meta" => r.op.name \in HostOps
  /\ r.at \in {"tasks", "probe", "remote", "tee", "sudotee"} => r.op.name \in HostOps \ {"backup"}
  /\ r.at \in {"create", "tar"} => r.op.name = "backup"
  /\ r.at = "readback" => r.op.name \in {"net", "vol"}

\* What a call has done by then.
WorkFits(r) ==
  /\ r.at \in Early => r.did = {} /\ r.tries = 0 /\ r.out = {} /\ r.got = {}
  /\ r.at = "asked" => r.code = "none"
  /\ r.at \in {"fetch", "again", "create"} => r.tries <= 1
  /\ r.at = "start" => "create" \in r.did
  /\ r.at \in Stages => r.code \in {"none", "error"}
  /\ r.op # None /\ r.op.name = "sysprune" => r.out \subseteq r.did
  /\ r.at \in Stages /\ r.code = "none" => r.out = r.did
  /\ r.at = "create" /\ r.tries = 0 => r.did = {}
  /\ r.at = "tar" => r.tries # 0
  /\ r.op # None /\ r.op.name = "backup" /\ r.at \notin {"create", "tar", "done"} => r.did = {}
  /\ r.at = "each" => r.got # {} /\ r.got = r.todo \cup r.out

BatchFits(r) ==
  r.at \in {"batch", "window"} => /\ r.found \subseteq Ctrs /\ r.got \subseteq r.found
                                  /\ r.todo \subseteq r.found /\ r.out \subseteq r.found
                                  /\ r.round \in {1, 2}
                                  /\ IsFiniteSet(r.out) /\ Cardinality(r.out) <= MaxWorkers

DoneFits(e, r) ==
  r.at = "done" => /\ r.code # "none"
                   /\ r.code \in Misled => r.did = {}
                   /\ r.op.name = "run" /\ r.code = "ok" => {"create", "start"} \subseteq r.did
                   /\ r.op.name = "sysprune" /\ r.code = "ok" => r.out = r.did
                   /\ r.op.name \in Lifecycle /\ e # "demo" /\ r.code = "ok" => r.out = r.got /\ r.got # {}

\* The second whose file a backup writes.
StampFits(r) == r.at = "tar" \/ (r.at = "create" /\ r.tries # 0) => r.round \in Stamps

CallFits(e, r) == CallShape(r) /\ PlaceFits(r) /\ WorkFits(r) /\ BatchFits(r) /\ DoneFits(e, r) /\ StampFits(r)

\* A call that is answered: how it may have gone so far.
LEMMA Answered ==
  ASSUME NEW e, NEW r, CallFits(e, r), r.at # "idle",
         NEW code \in Codes \ {"none"},
         code \in Misled => r.did = {},
         code = "ok" => r.op.name \notin {"run", "sysprune"} /\ (r.op.name \in Lifecycle => e = "demo")
  PROVE CallFits(e, [r EXCEPT !.at = "done", !.code = code])
  <1> DEFINE q == [r EXCEPT !.at = "done", !.code = code]
  <1>1. /\ q.op = r.op /\ q.at = "done" /\ q.code = code /\ q.found = r.found /\ q.did = r.did
        /\ q.tries = r.tries /\ q.round = r.round /\ q.todo = r.todo /\ q.out = r.out /\ q.got = r.got
    BY DEF CallFits, CallShape
  <1>2. CallShape(q)
    BY DEF CallFits, CallShape
  <1>3. PlaceFits(q) /\ WorkFits(q) /\ BatchFits(q) /\ DoneFits(e, q) /\ StampFits(q)
    <2> HIDE DEF q
    <2> QED BY <1>1 DEF CallFits, CallShape, PlaceFits, WorkFits, BatchFits, DoneFits, StampFits, Stages, Early
  <1> QED BY <1>2, <1>3 DEF CallFits

\* A call that has changed the engine, and is answered.
LEMMA DidWell ==
  ASSUME NEW e, NEW r, CallFits(e, r), r.at \notin {"idle", "done"}, NEW k,
         r.op.name \notin Lifecycle \cup {"run", "sysprune"}
  PROVE CallFits(e, [r EXCEPT !.did = @ \cup {k}, !.at = "done", !.code = "ok"])
  <1> DEFINE q == [r EXCEPT !.did = @ \cup {k}, !.at = "done", !.code = "ok"]
  <1>1. /\ q.op = r.op /\ q.at = "done" /\ q.code = "ok" /\ q.found = r.found
        /\ q.tries = r.tries /\ q.round = r.round /\ q.todo = r.todo /\ q.out = r.out /\ q.got = r.got
    BY DEF CallFits, CallShape
  <1>2. CallShape(q)
    BY DEF CallFits, CallShape, Codes
  <1>3. PlaceFits(q) /\ WorkFits(q) /\ BatchFits(q) /\ DoneFits(e, q) /\ StampFits(q)
    <2> HIDE DEF q
    <2> QED BY <1>1 DEF CallFits, CallShape, PlaceFits, WorkFits, BatchFits, DoneFits, StampFits, Stages, Early, Misled
  <1> QED BY <1>2, <1>3 DEF CallFits

----------------------------------------------------------------------------
(* The engine and the calls together.                                      *)

\* The demo's containers are never paused.
StatesOf(e) == IF e = "demo" THEN States \ {"paused"} ELSE States
CtrRow(e) == [image : Ids \cup {None}, state : StatesOf(e), project : {Project, None}, dir : Dirs \cup {None}]

EngineFits ==
  /\ engine \in Engines /\ front \in {"agent", "interface"}
  /\ images \in Seq(Row) /\ ctrs \in [Ctrs -> CtrRow(engine)]
  /\ nets \subseteq Nets /\ vols \subseteq Vols /\ cache \subseteq Ctrs

CallsFit ==
  /\ EngineFits
  /\ call = [c \in Calls |-> call[c]]
  /\ \A c \in Calls : CallFits(engine, call[c])

\* A step of call c to r that leaves the backend's samples, and no whole
\* archive, behind.
QuietTo(c, r) ==
  /\ CallFits(engine, r) /\ r.op = call[c].op /\ r.at # "idle"
  /\ call[c].at \notin {"idle", "done"}
  /\ engine = "docker" => call[c].at \notin {"batch", "window"} /\ cache' = cache
  /\ engine = "docker" /\ r.op.name = "backup" =>
       /\ call[c].at # "tar" /\ call[c].did = {}
       /\ r.at # "tar" /\ ~(r.at = "done" /\ r.code = "ok")
  /\ engine' = engine /\ front' = front
  /\ call' = [call EXCEPT ![c] = r]
  /\ EngineFits'
QuietStep(c) == \E r : QuietTo(c, r)

LEMMA AnswerStep ==
  ASSUME CallsFit, NEW c \in Calls, NEW code \in Codes \ {"none"}, Answer(c, code),
         call[c].at \notin {"idle", "done", "tar", "create"},
         engine = "docker" => call[c].at \notin {"batch", "window"},
         code \in Misled => call[c].did = {},
         code = "ok" => /\ call[c].op.name \notin {"run", "sysprune"}
                        /\ call[c].op.name \in Lifecycle \cup {"backup"} => engine = "demo"
  PROVE QuietStep(c)
  <1> DEFINE r == [call[c] EXCEPT !.at = "done", !.code = code]
  <1>1. CallFits(engine, call[c])
    BY DEF CallsFit
  <1>2. CallFits(engine, r)
    BY <1>1, Answered
  <1>3. r.op = call[c].op /\ r.at = "done" /\ r.code = code
    BY <1>1 DEF CallFits, CallShape
  <1>4. /\ call' = [call EXCEPT ![c] = r]
        /\ UNCHANGED <<engine, front, images, ctrs, nets, vols, cache>>
    BY DEF Answer, Goes, engineVars
  <1>5. EngineFits'
    BY <1>4 DEF CallsFit, EngineFits
  <1>6. call[c].op.name = "backup" => call[c].did = {}
    BY <1>1, ProjectsAssumption DEF CallFits, CallShape, WorkFits
  <1>7. QuietTo(c, r)
    <2> HIDE DEF r
    <2> QED BY <1>2, <1>3, <1>4, <1>5, <1>6 DEF QuietTo
  <1> QED BY <1>7 DEF QuietStep

\* A call under way may fail anywhere but in a stage of a prune.
LEMMA FailsStep ==
  ASSUME CallsFit, NEW c \in Calls, Fails(c),
         call[c].at \notin {"idle", "done", "tar", "create"},
         engine = "docker" => call[c].at \notin {"batch", "window"}
  PROVE QuietStep(c)
BY AnswerStep DEF Fails, Codes, Misled

\* The engine does what it is asked, and its reply may be lost.
LEMMA TurnsStep ==
  ASSUME CallsFit, NEW c \in Calls, NEW r, CallFits(engine, r), r.op = call[c].op, r.at # "idle", Turns(c, r),
         call[c].at \notin {"idle", "done"}, call[c].op.name # "backup",
         engine = "docker" => call[c].at \notin {"batch", "window"} /\ cache' = cache,
         engine' = engine, front' = front, EngineFits'
  PROVE QuietStep(c)
  <1> DEFINE lost == [r EXCEPT !.at = "done", !.code = "error"]
  <1>1. CallFits(engine, lost)
    BY Answered DEF Codes, Misled
  <1>2. lost.op = r.op /\ lost.at = "done"
    BY DEF CallFits, CallShape
  <1>3. call' = [call EXCEPT ![c] = r] \/ call' = [call EXCEPT ![c] = lost]
    BY DEF Turns
  <1> HIDE DEF lost
  <1>4. QuietTo(c, r) \/ QuietTo(c, lost)
    BY <1>1, <1>2, <1>3 DEF QuietTo
  <1> QED BY <1>4 DEF QuietStep

LEMMA ChangedStep ==
  ASSUME CallsFit, NEW c \in Calls, NEW k, Changed(c, k),
         call[c].at \notin {"idle", "done", "tar", "batch", "window"},
         call[c].op.name \notin Lifecycle \cup {"run", "sysprune", "backup"},
         images' \in Seq(Row), ctrs' \in [Ctrs -> CtrRow(engine)], nets' \subseteq Nets, vols' \subseteq Vols
  PROVE QuietStep(c)
  <1> DEFINE r == [call[c] EXCEPT !.did = @ \cup {k}, !.at = "done", !.code = "ok"]
  <1>1. CallFits(engine, call[c])
    BY DEF CallsFit
  <1>2. CallFits(engine, r)
    BY <1>1, DidWell
  <1>3. r.op = call[c].op /\ r.at = "done"
    BY <1>1 DEF CallFits, CallShape
  <1>4. Turns(c, r) /\ UNCHANGED <<engine, front, cache>>
    BY DEF Changed, Did
  <1>5. EngineFits'
    BY <1>4 DEF CallsFit, EngineFits
  <1> HIDE DEF r
  <1> QED BY <1>2, <1>3, <1>4, <1>5, TurnsStep

\* A call that goes on, or changes the engine, and is at r then.
LEMMA MoveStep ==
  ASSUME CallsFit, NEW c \in Calls, NEW r, CallFits(engine, r), r.op = call[c].op,
         r.at \notin {"idle", "done", "tar"},
         call[c].at \notin {"idle", "done", "tar", "create"},
         engine = "docker" => call[c].at \notin {"batch", "window"} /\ cache' = cache,
         call' = [call EXCEPT ![c] = r], engine' = engine, front' = front,
         images' \in Seq(Row), ctrs' \in [Ctrs -> CtrRow(engine)], nets' \subseteq Nets, vols' \subseteq Vols, cache' \subseteq Ctrs
  PROVE QuietStep(c)
  <1>1. EngineFits'
    BY DEF CallsFit, EngineFits
  <1>2. call[c].op.name = "backup" => call[c].did = {}
    BY ProjectsAssumption DEF CallsFit, CallFits, CallShape, WorkFits
  <1>3. QuietTo(c, r)
    BY <1>1, <1>2 DEF QuietTo
  <1> QED BY <1>3 DEF QuietStep

LEMMA GoesStep ==
  ASSUME CallsFit, NEW c \in Calls, NEW r, CallFits(engine, r), r.op = call[c].op, Goes(c, r),
         r.at \notin {"idle", "done", "tar"},
         call[c].at \notin {"idle", "done", "tar", "create"},
         engine = "docker" => call[c].at \notin {"batch", "window"}
  PROVE QuietStep(c)
  <1>1. call' = [call EXCEPT ![c] = r] /\ UNCHANGED <<engine, front, images, ctrs, nets, vols, cache>>
    BY DEF Goes, engineVars
  <1> QED BY <1>1, MoveStep DEF CallsFit, EngineFits

----------------------------------------------------------------------------
(* What becomes of the rows.                                               *)

LEMMA ResolveCode ==
  ASSUME NEW rows, NEW ref
  PROVE ResolveImage(rows, ref).code \in {"ok", "not_found", "usage"}
BY DEF ResolveImage

LEMMA ResolveTyped ==
  ASSUME NEW rows \in Seq(Row), NEW ref
  PROVE /\ ResolveImage(rows, ref).id \in Ids \cup {None}
        /\ ResolveImage(rows, ref).code = "ok" => ResolveImage(rows, ref).id \in Ids
  <1> DEFINE tagged == {i \in DOMAIN rows : ref \in rows[i].tags}
             exact  == {i \in DOMAIN rows : rows[i].id = ref}
             hits   == IF ref = Prefix THEN {i \in DOMAIN rows : Prefixed(rows[i].id)} ELSE {}
  <1>1. DOMAIN rows \subseteq Nat
    OBVIOUS
  <1>2. \A i \in DOMAIN rows : rows[i].id \in Ids
    BY RowAt DEF Row
  <1>3. tagged # {} => First(tagged) \in DOMAIN rows
    BY <1>1, FirstOf
  <1>4. hits # {} => First(hits) \in DOMAIN rows
    BY <1>1, FirstOf
  <1>5. exact # {} => ref \in Ids
    BY <1>2
  <1> HIDE DEF hits
  <1>6. ResolveImage(rows, ref) =
          IF tagged # {} THEN [code |-> "ok", id |-> rows[First(tagged)].id]
          ELSE IF exact # {} THEN [code |-> "ok", id |-> ref]
          ELSE IF hits = {} THEN [code |-> "not_found", id |-> None]
          ELSE IF Cardinality(hits) = 1 THEN [code |-> "ok", id |-> rows[First(hits)].id]
          ELSE [code |-> "usage", id |-> None]
    BY DEF ResolveImage, hits
  <1> HIDE DEF tagged, exact
  <1> QED BY <1>2, <1>3, <1>4, <1>5, <1>6

LEMMA UntaggedTyped ==
  ASSUME NEW rows \in Seq(Row), NEW t
  PROVE Untagged(rows, t) \in Seq(Row)
  <1>1. \A i \in DOMAIN rows : [rows[i] EXCEPT !.tags = @ \ {t}] \in Row
    BY RowAt DEF Row
  <1>2. DOMAIN rows = 1..Len(rows) /\ Len(rows) \in Nat
    OBVIOUS
  <1> HIDE DEF Row
  <1> QED BY <1>1, <1>2 DEF Untagged

LEMMA MovedTyped ==
  ASSUME NEW rows \in Seq(Row), NEW id, NEW t \in Tags
  PROVE Moved(rows, id, t) \in Seq(Row)
  <1> DEFINE u == Untagged(rows, t)
  <1>1. u \in Seq(Row)
    BY UntaggedTyped
  <1> HIDE DEF u
  <1>2. \A i \in DOMAIN u : u[i] \in Row /\ [u[i] EXCEPT !.tags = @ \cup {t}] \in Row
    BY <1>1, RowAt DEF Row
  <1>3. DOMAIN u = 1..Len(u) /\ Len(u) \in Nat
    BY <1>1
  <1>4. Tagged(u, id, t) \in Seq(Row)
    <2> HIDE DEF Row
    <2> QED BY <1>2, <1>3 DEF Tagged
  <1> QED BY <1>4 DEF Moved, u

LEMMA AppendTyped ==
  ASSUME NEW rows \in Seq(Row), NEW id \in Ids, NEW T \in SUBSET Tags
  PROVE Append(rows, [id |-> id, tags |-> T]) \in Seq(Row)
  <1>1. [id |-> id, tags |-> T] \in Row
    BY DEF Row
  <1> HIDE DEF Row
  <1> QED BY <1>1

LEMMA BringsTyped ==
  ASSUME NEW rows \in Seq(Row), NEW t \in Tags
  PROVE Brings(rows, t) \in Seq(Row)
BY MovedTyped, UntaggedTyped, AppendTyped DEF Brings, Ids

LEMMA PulledTyped ==
  ASSUME NEW rows \in Seq(Row), NEW t \in Tags
  PROVE Pulled(rows, t) \subseteq Seq(Row)
BY BringsTyped DEF Pulled

LEMMA WithoutTyped ==
  ASSUME images \in Seq(Row), NEW S
  PROVE ImagesWithout(S) \in Seq(Row)
BY RowsAtPlaces DEF ImagesWithout

LEMMA DemoRowsTyped ==
  ASSUME images \in Seq(Row), NEW ref, DemoRows(ref) # {}
  PROVE First(DemoRows(ref)) \in DOMAIN images /\ images[First(DemoRows(ref))].id \in Ids
  <1>1. DemoRows(ref) \subseteq DOMAIN images /\ DOMAIN images \subseteq Nat
    BY DEF DemoRows
  <1>2. First(DemoRows(ref)) \in DOMAIN images
    BY <1>1, FirstOf
  <1> QED BY <1>2, RowAt DEF Row

LEMMA NewBuildTyped ==
  ASSUME images \in Seq(Row), NEW t \in Tags \cup {None}
  PROVE NewBuild(t) \in Seq(Row)
BY AppendTyped DEF NewBuild, Ids

LEMMA EmptiedTyped ==
  ASSUME ctrs \in [Ctrs -> CtrRow(engine)], NEW S
  PROVE Emptied(S) \in [Ctrs -> CtrRow(engine)]
BY DEF Emptied, CtrRow, StatesOf, Absent, States

----------------------------------------------------------------------------
(* The steps of the commands on images.                                    *)

\* At the place where it acts, a call has done nothing yet.
LEMMA ActsFit ==
  ASSUME CallsFit, NEW c \in Calls, call[c].at = "act"
  PROVE call[c].op \in Ops /\ call[c].did = {} /\ call[c].tries = 0 /\ call[c].out = {} /\ call[c].got = {}
BY DEF CallsFit, CallFits, CallShape, WorkFits, Early

\* From one early place to another.
LEMMA EarlyMove ==
  ASSUME NEW e, NEW r, CallFits(e, r), r.at \in {"asked", "lookup", "resolve", "list"}, NEW x
  PROVE /\ CallFits(e, [r EXCEPT !.at = "act", !.found = x])
        /\ CallFits(e, [r EXCEPT !.at = "act"])
        /\ r.at = "asked" /\ r.op.name = "sysprune" => CallFits(e, [r EXCEPT !.at = "containers"])
        /\ r.op.name \in Lifecycle => CallFits(e, [r EXCEPT !.found = x, !.at = "members"])
        /\ r.op.name \in HostOps => CallFits(e, [r EXCEPT !.found = x, !.at = "meta"])
  <1> DEFINE Is(q, at) ==
               /\ q.op = r.op /\ q.at = at /\ q.did = r.did /\ q.code = r.code /\ q.tries = r.tries
               /\ q.round = r.round /\ q.todo = r.todo /\ q.out = r.out /\ q.got = r.got
  <1>1. ASSUME NEW q, NEW at \in {"act", "containers", "members", "meta"}, Is(q, at), CallShape(q),
               at = "containers" => r.at = "asked" /\ r.op.name = "sysprune",
               at = "members" => r.op.name \in Lifecycle, at = "meta" => r.op.name \in HostOps
        PROVE CallFits(e, q)
    BY <1>1 DEF CallFits, CallShape, PlaceFits, WorkFits, BatchFits, DoneFits, StampFits, Stages, Early
  <1>2. /\ Is([r EXCEPT !.at = "act", !.found = x], "act") /\ CallShape([r EXCEPT !.at = "act", !.found = x])
        /\ Is([r EXCEPT !.at = "act"], "act") /\ CallShape([r EXCEPT !.at = "act"])
        /\ Is([r EXCEPT !.at = "containers"], "containers") /\ CallShape([r EXCEPT !.at = "containers"])
        /\ Is([r EXCEPT !.found = x, !.at = "members"], "members") /\ CallShape([r EXCEPT !.found = x, !.at = "members"])
        /\ Is([r EXCEPT !.found = x, !.at = "meta"], "meta") /\ CallShape([r EXCEPT !.found = x, !.at = "meta"])
    BY DEF CallFits, CallShape
  <1> HIDE DEF Is
  <1> QED BY <1>1, <1>2

LEMMA ToAct ==
  ASSUME CallsFit, NEW c \in Calls, call[c].at = "lookup", NEW x,
         \/ Goes(c, [call[c] EXCEPT !.at = "act", !.found = x])
         \/ Goes(c, [call[c] EXCEPT !.at = "act"])
  PROVE QuietStep(c)
  <1>1. CallFits(engine, call[c])
    BY DEF CallsFit
  <1> DEFINE p == [call[c] EXCEPT !.at = "act", !.found = x]
             q == [call[c] EXCEPT !.at = "act"]
  <1>2. CallFits(engine, p) /\ CallFits(engine, q)
    BY <1>1, EarlyMove
  <1>3. p.op = call[c].op /\ p.at = "act" /\ q.op = call[c].op /\ q.at = "act"
    BY <1>1 DEF CallFits, CallShape
  <1>4. CASE Goes(c, p)
    <2> HIDE DEF p
    <2> QED BY <1>2, <1>3, <1>4, GoesStep
  <1>5. CASE Goes(c, q)
    <2> HIDE DEF q
    <2> QED BY <1>2, <1>3, <1>5, GoesStep
  <1> QED BY <1>4, <1>5

LEMMA ConfirmedStep ==
  ASSUME CallsFit, NEW c \in Calls, Confirmed(c)
  PROVE QuietStep(c)
  <1> DEFINE to == Handled(call[c].op)
             r == [call[c] EXCEPT !.at = to]
  <1>1. call[c].at = "asked" /\ call[c].op.name \in Sweeps /\ CallFits(engine, call[c])
    BY DEF Confirmed, CallsFit, CallFits, PlaceFits
  <1>2. to = "act" \/ (to = "containers" /\ call[c].op.name = "sysprune")
    BY <1>1 DEF Handled, Sweeps
  <1>3. Goes(c, r)
    BY DEF Confirmed
  <1> HIDE DEF to
  <1>4. CallFits(engine, r) /\ r.op = call[c].op /\ r.at = to
    <2>1. r.op = call[c].op /\ r.at = to
      BY <1>1 DEF CallFits, CallShape
    <2> QED BY <1>1, <1>2, <2>1, EarlyMove
  <1> HIDE DEF r
  <1> QED BY <1>1, <1>2, <1>3, <1>4, GoesStep

LEMMA LookupStep ==
  ASSUME CallsFit, NEW c \in Calls, NEW name, LookupImage(c, name)
  PROVE QuietStep(c)
  <1> DEFINE hit == ResolveImage(ListImages, call[c].op.ref)
  <1>1. call[c].at = "lookup" /\ call[c].did = {}
    BY DEF LookupImage, CallsFit, CallFits, WorkFits, Early
  <1>2. CASE hit.code = "ok"
    <2>1. Goes(c, [call[c] EXCEPT !.at = "act", !.found = hit.id])
      BY <1>2 DEF LookupImage
    <2> HIDE DEF hit
    <2> QED BY <1>1, <2>1, ToAct
  <1>3. CASE hit.code # "ok"
    <2>1. Answer(c, hit.code)
      BY <1>3 DEF LookupImage
    <2>2. hit.code \in {"not_found", "usage"}
      BY <1>3, ResolveCode
    <2> HIDE DEF hit
    <2> QED BY <1>1, <2>1, <2>2, AnswerStep DEF Codes, Misled
  <1> QED BY <1>2, <1>3

LEMMA CheckNewStep ==
  ASSUME CallsFit, NEW c \in Calls, NEW name, NEW list, CheckNew(c, name, list)
  PROVE QuietStep(c)
  <1>1. call[c].at = "lookup" /\ call[c].did = {}
    BY DEF CheckNew, CallsFit, CallFits, WorkFits, Early
  <1>2. Answer(c, "usage") \/ Goes(c, [call[c] EXCEPT !.at = "act"])
    BY DEF CheckNew
  <1> QED BY <1>1, <1>2, ToAct, AnswerStep DEF Codes, Misled

\* A command whose place is where it acts, and which changes the images.
LEMMA NewImagesStep ==
  ASSUME CallsFit, NEW c \in Calls, call[c].at = "act", NEW k, NEW rows \in Seq(Row), NewImages(c, k, rows),
         call[c].op.name \in {"tag", "rmi", "pull", "build", "prune"}
  PROVE QuietStep(c)
  <1>1. images' \in Seq(Row) /\ Changed(c, k) /\ UNCHANGED <<ctrs, nets, vols>>
    BY DEF NewImages
  <1> QED BY <1>1, ChangedStep DEF CallsFit, EngineFits, Lifecycle

LEMMA ActAnswer ==
  ASSUME CallsFit, NEW c \in Calls, call[c].at = "act", NEW code \in Codes \ {"none"}, Answer(c, code),
         code = "ok" => call[c].op.name \notin Lifecycle \cup {"run", "sysprune", "backup"}
  PROVE QuietStep(c)
BY ActsFit, AnswerStep

LEMMA TagByStep ==
  ASSUME CallsFit, NEW c \in Calls, Acts(c, "tag"), TagBy(c)
  PROVE QuietStep(c)
  <1> DEFINE hit == ResolveImage(images, call[c].op.ref)
             rows == Moved(images, hit.id, call[c].op.to)
  <1>1. call[c].at = "act" /\ call[c].op.name = "tag"
    BY DEF Acts
  <1>2. Answer(c, "not_found") \/ NewImages(c, "tag", rows)
    BY DEF TagBy
  <1>3. rows \in Seq(Row)
    BY <1>1, ActsFit, Words, MovedTyped DEF CallsFit, EngineFits
  <1> HIDE DEF rows
  <1> QED BY <1>1, <1>2, <1>3, ActAnswer, NewImagesStep DEF Codes

LEMMA RemoveByStep ==
  ASSUME CallsFit, NEW c \in Calls, Acts(c, "rmi"), RemoveBy(c)
  PROVE QuietStep(c)
  <1> DEFINE hit == ResolveImage(images, call[c].op.ref)
             rows == Untagged(images, call[c].op.ref)
             rest == ImagesWithout({i \in DOMAIN images : images[i].id = hit.id})
  <1>1. call[c].at = "act" /\ call[c].op.name = "rmi"
    BY DEF Acts
  <1>2. Answer(c, "not_found") \/ NewImages(c, "rm", rows) \/ Answer(c, "error") \/ NewImages(c, "rm", rest)
    BY ResolveCode DEF RemoveBy, Fails
  <1>3. rows \in Seq(Row) /\ rest \in Seq(Row)
    BY UntaggedTyped, WithoutTyped DEF CallsFit, EngineFits
  <1> HIDE DEF rows, rest
  <1> QED BY <1>1, <1>2, <1>3, ActAnswer, NewImagesStep DEF Codes

LEMMA PullByStep ==
  ASSUME CallsFit, NEW c \in Calls, Acts(c, "pull"), PullBy(c)
  PROVE QuietStep(c)
  <1>1. call[c].at = "act" /\ call[c].op.name = "pull"
    BY DEF Acts
  <1>2. PICK rows \in Pulled(images, call[c].op.ref) : NewImages(c, "pull", rows)
    BY DEF PullBy
  <1>3. rows \in Seq(Row)
    BY <1>1, <1>2, ActsFit, Words, PulledTyped DEF CallsFit, EngineFits
  <1> QED BY <1>1, <1>2, <1>3, NewImagesStep

LEMMA BuildByStep ==
  ASSUME CallsFit, NEW c \in Calls, Acts(c, "build"), BuildBy(c)
  PROVE QuietStep(c)
  <1> DEFINE t == call[c].op.to
             rows == IF t = None THEN NewBuild(t) ELSE Brings(images, t)
  <1>1. call[c].at = "act" /\ call[c].op.name = "build" /\ t \in Tags \cup {None}
    BY ActsFit, Words DEF Acts
  <1>2. rows \in Seq(Row)
    BY <1>1, NewBuildTyped, BringsTyped DEF CallsFit, EngineFits
  <1>3. NewImages(c, "build", rows)
    BY DEF BuildBy
  <1> HIDE DEF rows
  <1> QED BY <1>1, <1>2, <1>3, NewImagesStep

\* A push changes the registry alone.
LEMMA PushStep ==
  ASSUME CallsFit, NEW c \in Calls, Acts(c, "push"), Goes(c, Did(c, "push"))
  PROVE QuietStep(c)
  <1>1. call[c].at = "act" /\ call[c].op.name = "push"
    BY DEF Acts
  <1>2. Changed(c, "push") /\ UNCHANGED <<images, ctrs, nets, vols>>
    BY DEF Goes, Changed, Turns, engineVars
  <1> QED BY <1>1, <1>2, ChangedStep DEF CallsFit, EngineFits, Lifecycle

LEMMA ImageSteps ==
  ASSUME CallsFit, NEW c \in Calls, ImageStep(c)
  PROVE QuietStep(c)
  <1>1. CASE ImageTagOp(c)
    BY <1>1, LookupStep DEF ImageTagOp
  <1>2. CASE ImageRmOp(c)
    BY <1>2, LookupStep DEF ImageRmOp
  <1>3. CASE ImagePushOp(c)
    BY <1>3, LookupStep DEF ImagePushOp
  <1>4. CASE ImageHistoryOp(c)
    BY <1>4, LookupStep DEF ImageHistoryOp
  <1>5. CASE CheckBuildContext(c)
    <2>1. call[c].at = "lookup" /\ call[c].did = {}
      BY <1>5 DEF CheckBuildContext, CallsFit, CallFits, WorkFits, Early
    <2> QED BY <1>5, <2>1, ToAct, AnswerStep DEF CheckBuildContext, Codes, Misled
  <1>6. CASE TagImage(c)
    BY <1>6, TagByStep DEF TagImage, On
  <1>7. CASE NerdctlTag(c)
    BY <1>7, TagByStep DEF NerdctlTag, On
  <1>8. CASE DemoTag(c)
    <2> DEFINE found == DemoRows(call[c].op.ref)
               rows == Append(images, [id |-> images[First(found)].id, tags |-> {call[c].op.to}])
    <2>1. call[c].at = "act" /\ call[c].op.name = "tag" /\ {call[c].op.to} \in SUBSET Tags
      BY <1>8, ActsFit, Words DEF DemoTag, On, Acts
    <2>2. IF found = {} THEN Answer(c, "error") ELSE NewImages(c, "tag", rows)
      BY <1>8 DEF DemoTag, Fails
    <2>3. found # {} => rows \in Seq(Row)
      BY <2>1, DemoRowsTyped, AppendTyped DEF CallsFit, EngineFits
    <2> HIDE DEF found, rows
    <2> QED BY <2>1, <2>2, <2>3, ActAnswer, NewImagesStep DEF Codes
  <1>9. CASE RemoveImage(c)
    BY <1>9, RemoveByStep DEF RemoveImage, On
  <1>10. CASE NerdctlRemove(c)
    BY <1>10, RemoveByStep DEF NerdctlRemove, On
  <1>11. CASE CriRemove(c)
    <2> DEFINE hit == ResolveImage(images, call[c].op.ref)
               rest == ImagesWithout({i \in DOMAIN images : images[i].id = hit.id})
    <2>1. call[c].at = "act" /\ call[c].op.name = "rmi"
      BY <1>11 DEF CriRemove, On, Acts
    <2>2. Answer(c, "not_found") \/ NewImages(c, "rm", rest) \/ Answer(c, "error")
      BY <1>11 DEF CriRemove, Fails
    <2>3. rest \in Seq(Row)
      BY WithoutTyped DEF CallsFit, EngineFits
    <2> HIDE DEF rest
    <2> QED BY <2>1, <2>2, <2>3, ActAnswer, NewImagesStep DEF Codes
  <1>12. CASE DemoRemove(c)
    <2> DEFINE rows == ImagesWithout({First(DemoRows(call[c].op.ref))})
    <2>1. call[c].at = "act" /\ call[c].op.name = "rmi"
      BY <1>12 DEF DemoRemove, On, Acts
    <2>2. Answer(c, "error") \/ NewImages(c, "rm", rows)
      BY <1>12 DEF DemoRemove, Fails
    <2>3. rows \in Seq(Row)
      BY WithoutTyped DEF CallsFit, EngineFits
    <2> HIDE DEF rows
    <2> QED BY <2>1, <2>2, <2>3, ActAnswer, NewImagesStep DEF Codes
  <1>13. CASE PushImage(c)
    BY <1>13, PushStep DEF PushImage, On
  <1>14. CASE NerdctlPush(c)
    <2>1. Acts(c, "push") /\ (Goes(c, Did(c, "push")) \/ Answer(c, "error"))
      BY <1>14 DEF NerdctlPush, On, Fails
    <2> QED BY <2>1, PushStep, ActAnswer DEF Acts, Codes
  <1>15. CASE DemoPush(c)
    BY <1>15, PushStep DEF DemoPush, On
  <1>16. CASE ImageHistory(c)
    <2>1. call[c].at = "act" /\ call[c].op.name = "history" /\ \E code \in {"ok", "not_found"} : Answer(c, code)
      BY <1>16 DEF ImageHistory, On, Acts
    <2> QED BY <2>1, ActAnswer DEF Codes, Lifecycle
  <1>17. CASE DemoHistory(c)
    <2>1. call[c].at = "act" /\ call[c].op.name = "history" /\ \E code \in {"ok", "error"} : Answer(c, code)
      BY <1>17 DEF DemoHistory, On, Acts, Fails
    <2> QED BY <2>1, ActAnswer DEF Codes, Lifecycle
  <1>18. CASE PullImage(c)
    BY <1>18, PullByStep DEF PullImage, On
  <1>19. CASE NerdctlPull(c)
    BY <1>19, PullByStep DEF NerdctlPull, On
  <1>20. CASE CriPull(c)
    BY <1>20, PullByStep DEF CriPull, On
  <1>21. CASE DemoPull(c)
    <2>1. call[c].at = "act" /\ call[c].op.name = "pull" /\ NewImages(c, "pull", images)
      BY <1>21 DEF DemoPull, On, Acts
    <2> QED BY <2>1, NewImagesStep DEF CallsFit, EngineFits
  <1>22. CASE BuildImage(c)
    BY <1>22, BuildByStep DEF BuildImage, On
  <1>23. CASE NerdctlBuild(c)
    BY <1>23, BuildByStep DEF NerdctlBuild, On
  <1>24. CASE DemoBuild(c)
    <2> DEFINE rows == NewBuild(call[c].op.to)
    <2>1. call[c].at = "act" /\ call[c].op.name = "build" /\ NewImages(c, "build", rows)
      BY <1>24 DEF DemoBuild, On, Acts
    <2>2. rows \in Seq(Row)
      BY <2>1, ActsFit, Words, NewBuildTyped DEF CallsFit, EngineFits
    <2> HIDE DEF rows
    <2> QED BY <2>1, <2>2, NewImagesStep
  <1>25. CASE PruneImages(c)
    <2>1. PICK S : Acts(c, "prune") /\ NewImages(c, "prune", ImagesWithout(S))
      BY <1>25 DEF PruneImages, On
    <2>2. ImagesWithout(S) \in Seq(Row)
      BY WithoutTyped DEF CallsFit, EngineFits
    <2> QED BY <2>1, <2>2, NewImagesStep DEF Acts
  <1>26. CASE NerdctlPruneImages(c)
    <2>1. PICK S : Acts(c, "prune") /\ NewImages(c, "prune", ImagesWithout(S))
      BY <1>26 DEF NerdctlPruneImages, On
    <2>2. ImagesWithout(S) \in Seq(Row)
      BY WithoutTyped DEF CallsFit, EngineFits
    <2> QED BY <2>1, <2>2, NewImagesStep DEF Acts
  <1>27. CASE CriPruneImages(c)
    <2>1. PICK S : Acts(c, "prune") /\ NewImages(c, "prune", ImagesWithout(S))
      BY <1>27 DEF CriPruneImages, On
    <2>2. ImagesWithout(S) \in Seq(Row)
      BY WithoutTyped DEF CallsFit, EngineFits
    <2> QED BY <2>1, <2>2, NewImagesStep DEF Acts
  <1>28. CASE DemoPruneImages(c)
    <2>1. PICK S : Acts(c, "prune") /\ NewImages(c, "prune", ImagesWithout(S))
      BY <1>28 DEF DemoPruneImages, On
    <2>2. ImagesWithout(S) \in Seq(Row)
      BY WithoutTyped DEF CallsFit, EngineFits
    <2> QED BY <2>1, <2>2, NewImagesStep DEF Acts
  <1> QED
    BY <1>1, <1>2, <1>3, <1>4, <1>5, <1>6, <1>7, <1>8, <1>9, <1>10, <1>11, <1>12, <1>13, <1>14, <1>15, <1>16, <1>17, <1>18, <1>19, <1>20, <1>21, <1>22, <1>23, <1>24, <1>25, <1>26, <1>27, <1>28 DEF ImageStep

----------------------------------------------------------------------------
(* The steps of the commands on networks and volumes.                      *)

LEMMA NewNetworkStep ==
  ASSUME CallsFit, NEW c \in Calls, Acts(c, "net"), NewNetwork(c)
  PROVE QuietStep(c)
  <1> DEFINE r == [Did(c, "net") EXCEPT !.at = "readback", !.code = "none"]
  <1>1. call[c].at = "act" /\ call[c].op.name = "net" /\ call[c].op.ref \in Nets /\ CallFits(engine, call[c])
    BY ActsFit, Words DEF Acts, CallsFit
  <1>2. CASE call[c].op.ref \in nets
    BY <1>1, <1>2, FailsStep DEF NewNetwork
  <1>3. CASE call[c].op.ref \notin nets
    <2>1. /\ Turns(c, r) /\ nets' = nets \cup {call[c].op.ref}
          /\ UNCHANGED <<engine, front, images, ctrs, vols, cache>>
      BY <1>3 DEF NewNetwork
    <2>2. /\ CallShape(r) /\ r.op = call[c].op /\ r.at = "readback" /\ r.code = "none" /\ r.tries = call[c].tries
          /\ r.out = call[c].out
      BY <1>1 DEF Did, CallFits, CallShape, Codes
    <2>3. CallFits(engine, r)
      <3> HIDE DEF r
      <3> QED BY <1>1, <2>2 DEF CallFits, PlaceFits, WorkFits, BatchFits, DoneFits, StampFits, Stages, Early
    <2>4. EngineFits'
      BY <1>1, <2>1 DEF CallsFit, EngineFits
    <2> HIDE DEF r
    <2> QED BY <1>1, <2>1, <2>2, <2>3, <2>4, TurnsStep
  <1> QED BY <1>2, <1>3

LEMMA NewVolumeStep ==
  ASSUME CallsFit, NEW c \in Calls, Acts(c, "vol"), NewVolume(c)
  PROVE QuietStep(c)
  <1> DEFINE did == IF call[c].op.ref \in vols THEN {} ELSE {"vol"}
             r == [call[c] EXCEPT !.did = did, !.at = "readback"]
  <1>1. call[c].at = "act" /\ call[c].op.name = "vol" /\ call[c].op.ref \in Vols /\ CallFits(engine, call[c])
    BY ActsFit, Words DEF Acts, CallsFit
  <1>2. /\ Turns(c, r) /\ vols' = vols \cup {call[c].op.ref}
        /\ UNCHANGED <<engine, front, images, ctrs, nets, cache>>
    BY DEF NewVolume
  <1> HIDE DEF did
  <1>3. /\ CallShape(r) /\ r.op = call[c].op /\ r.at = "readback" /\ r.tries = call[c].tries /\ r.out = call[c].out
    BY <1>1 DEF CallFits, CallShape
  <1>4. CallFits(engine, r)
    <2> HIDE DEF r
    <2> QED BY <1>1, <1>3 DEF CallFits, PlaceFits, WorkFits, BatchFits, DoneFits, StampFits, Stages, Early
  <1>5. EngineFits'
    BY <1>1, <1>2 DEF CallsFit, EngineFits
  <1> HIDE DEF r
  <1> QED BY <1>1, <1>2, <1>3, <1>4, <1>5, TurnsStep

LEMMA ReadBackStep ==
  ASSUME CallsFit, NEW c \in Calls, NEW name \in {"net", "vol"}, NEW list, ReadBack(c, name, list)
  PROVE QuietStep(c)
  <1>1. PICK x : Goes(c, [call[c] EXCEPT !.at = "done", !.code = "ok", !.found = x])
    BY DEF ReadBack
  <1> DEFINE r == [call[c] EXCEPT !.at = "done", !.code = "ok", !.found = x]
  <1>2. call[c].at = "readback" /\ call[c].op.name = name /\ CallFits(engine, call[c])
    BY DEF ReadBack, CallsFit
  <1>3. /\ CallShape(r) /\ r.op = call[c].op /\ r.at = "done" /\ r.code = "ok" /\ r.tries = call[c].tries
        /\ r.out = call[c].out /\ r.did = call[c].did
    BY <1>2 DEF CallFits, CallShape, Codes
  <1>4. CallFits(engine, r)
    <2> HIDE DEF r
    <2> QED BY <1>2, <1>3 DEF CallFits, PlaceFits, WorkFits, BatchFits, DoneFits, StampFits, Stages, Early, Misled, Lifecycle
  <1>5. call' = [call EXCEPT ![c] = r] /\ UNCHANGED <<engine, front, images, ctrs, nets, vols, cache>>
    BY <1>1 DEF Goes, engineVars
  <1>6. EngineFits'
    BY <1>5 DEF CallsFit, EngineFits
  <1>7. QuietTo(c, r)
    <2> HIDE DEF r
    <2> QED BY <1>2, <1>3, <1>4, <1>5, <1>6 DEF QuietTo
  <1> QED BY <1>7 DEF QuietStep

LEMMA DropsNetwork ==
  ASSUME CallsFit, NEW c \in Calls, NEW free, Acts(c, "netrm"), RemoveNetworkBy(c, free)
  PROVE QuietStep(c)
  <1>1. call[c].at = "act" /\ call[c].op.name = "netrm"
    BY DEF Acts
  <1>2. \/ Fails(c)
        \/ nets' = nets \ {call[c].op.ref} /\ Changed(c, "net") /\ UNCHANGED <<images, ctrs, vols>>
    BY DEF RemoveNetworkBy, Drops
  <1> QED BY <1>1, <1>2, FailsStep, ChangedStep DEF CallsFit, EngineFits, Lifecycle

LEMMA DropsVolume ==
  ASSUME CallsFit, NEW c \in Calls, NEW free, Acts(c, "volrm"), RemoveVolumeBy(c, free)
  PROVE QuietStep(c)
  <1>1. call[c].at = "act" /\ call[c].op.name = "volrm"
    BY DEF Acts
  <1>2. \/ Fails(c)
        \/ vols' = vols \ {call[c].op.ref} /\ Changed(c, "vol") /\ UNCHANGED <<images, ctrs, nets>>
    BY DEF RemoveVolumeBy, Drops
  <1> QED BY <1>1, <1>2, FailsStep, ChangedStep DEF CallsFit, EngineFits, Lifecycle

LEMMA VolPrune ==
  ASSUME CallsFit, NEW c \in Calls, NEW set, Acts(c, "volprune"), NewVolumes(c, "prune", set), set \subseteq vols
  PROVE QuietStep(c)
BY ChangedStep DEF Acts, NewVolumes, CallsFit, EngineFits, Lifecycle

LEMMA NetworkSteps ==
  ASSUME CallsFit, NEW c \in Calls, NetworkStep(c)
  PROVE QuietStep(c)
  <1>1. CASE CheckNetworkCreate(c)
    BY <1>1, CheckNewStep DEF CheckNetworkCreate
  <1>2. CASE CreateNetwork(c)
    BY <1>2, NewNetworkStep DEF CreateNetwork, On
  <1>3. CASE NerdctlCreateNetwork(c)
    BY <1>3, NewNetworkStep DEF NerdctlCreateNetwork, On
  <1>4. CASE DemoCreateNetwork(c)
    BY <1>4, NewNetworkStep DEF DemoCreateNetwork, On
  <1>5. CASE NetworkCreated(c)
    BY <1>5, ReadBackStep DEF NetworkCreated
  <1>6. CASE RemoveNetwork(c)
    BY <1>6, DropsNetwork DEF RemoveNetwork, On
  <1>7. CASE NerdctlRemoveNetwork(c)
    BY <1>7, DropsNetwork DEF NerdctlRemoveNetwork, On
  <1>8. CASE DemoRemoveNetwork(c)
    BY <1>8, DropsNetwork DEF DemoRemoveNetwork, On
  <1> QED
    BY <1>1, <1>2, <1>3, <1>4, <1>5, <1>6, <1>7, <1>8 DEF NetworkStep

LEMMA VolumeSteps ==
  ASSUME CallsFit, NEW c \in Calls, VolumeStep(c)
  PROVE QuietStep(c)
  <1>1. CASE CheckVolumeCreate(c)
    BY <1>1, CheckNewStep DEF CheckVolumeCreate
  <1>2. CASE CreateVolume(c)
    BY <1>2, NewVolumeStep DEF CreateVolume, On
  <1>3. CASE NerdctlCreateVolume(c)
    BY <1>3, NewVolumeStep DEF NerdctlCreateVolume, On
  <1>4. CASE DemoCreateVolume(c)
    BY <1>4, NewVolumeStep, FailsStep DEF DemoCreateVolume, On, Acts
  <1>5. CASE VolumeCreated(c)
    BY <1>5, ReadBackStep DEF VolumeCreated
  <1>6. CASE RemoveVolume(c)
    BY <1>6, DropsVolume DEF RemoveVolume, On
  <1>7. CASE NerdctlRemoveVolume(c)
    BY <1>7, DropsVolume DEF NerdctlRemoveVolume, On
  <1>8. CASE DemoRemoveVolume(c)
    BY <1>8, DropsVolume DEF DemoRemoveVolume, On
  <1>9. CASE PruneVolumes(c)
    BY <1>9, VolPrune DEF PruneVolumes, On
  <1>10. CASE NerdctlPruneVolumes(c)
    BY <1>10, VolPrune DEF NerdctlPruneVolumes, On
  <1>11. CASE DemoPruneVolumes(c)
    BY <1>11, VolPrune DEF DemoPruneVolumes, On
  <1> QED
    BY <1>1, <1>2, <1>3, <1>4, <1>5, <1>6, <1>7, <1>8, <1>9, <1>10, <1>11 DEF VolumeStep

----------------------------------------------------------------------------
(* The steps of `system prune`.                                            *)

LEMMA PrunesTyped ==
  ASSUME EngineFits, NEW gone, NEW freed, NEW rows, Prunes(gone, freed, rows)
  PROVE images' \in Seq(Row) /\ ctrs' \in [Ctrs -> CtrRow(engine)] /\ nets' \subseteq Nets /\ vols' \subseteq Vols
BY EmptiedTyped, WithoutTyped DEF Prunes, EngineFits

\* A prune that is answered, by what it did or by an error.
LEMMA PrunedStep ==
  ASSUME CallsFit, NEW c \in Calls, Acts(c, "sysprune"), NEW r, NEW gone, NEW freed, NEW rows,
         Prunes(gone, freed, rows), call' = [call EXCEPT ![c] = r], UNCHANGED <<engine, front, cache>>,
         CallShape(r), r.op = call[c].op, r.at = "done", r.tries = call[c].tries, r.code \in {"ok", "error"},
         r.out \subseteq r.did, r.code = "ok" => r.out = r.did
  PROVE QuietStep(c)
  <1>1. call[c].at = "act" /\ call[c].op.name = "sysprune" /\ CallFits(engine, call[c]) /\ EngineFits
    BY DEF Acts, CallsFit
  <1>2. CallFits(engine, r)
    BY <1>1 DEF CallFits, PlaceFits, WorkFits, BatchFits, DoneFits, StampFits, Stages, Early, Misled, Lifecycle
  <1>3. EngineFits'
    BY <1>1, PrunesTyped DEF EngineFits
  <1>4. QuietTo(c, r)
    BY <1>1, <1>2, <1>3 DEF QuietTo
  <1> QED BY <1>4 DEF QuietStep

LEMMA PruneAtOnceStep ==
  ASSUME CallsFit, NEW c \in Calls, Acts(c, "sysprune"), NEW stages, NEW gone, NEW rows,
         PruneAtOnce(c, stages, gone, rows)
  PROVE QuietStep(c)
  <1> DEFINE r == [call[c] EXCEPT !.did = stages, !.out = stages, !.at = "done", !.code = "ok"]
  <1>1. CallFits(engine, call[c]) /\ call[c].op \in Ops
    BY ActsFit DEF Acts, CallsFit
  <1>2. PICK g, f, i : Prunes(g, f, i)
    BY DEF PruneAtOnce, PrunesAll
  <1>3. call' = [call EXCEPT ![c] = r] /\ UNCHANGED <<engine, front, cache>>
    BY DEF PruneAtOnce
  <1>4. /\ CallShape(r) /\ r.op = call[c].op /\ r.at = "done" /\ r.code = "ok" /\ r.did = stages /\ r.out = stages
        /\ r.tries = call[c].tries
    BY <1>1 DEF CallFits, CallShape, Codes
  <1> HIDE DEF r
  <1> QED BY <1>2, <1>3, <1>4, PrunedStep

LEMMA PruneBreaksStep ==
  ASSUME CallsFit, NEW c \in Calls, Acts(c, "sysprune"), NEW stages, NEW rows, PruneBreaksOff(c, stages, rows)
  PROVE QuietStep(c)
  <1> DEFINE r == [call[c] EXCEPT !.did = stages, !.at = "done", !.code = "error"]
  <1>1. CallFits(engine, call[c]) /\ call[c].op \in Ops /\ call[c].out = {}
    BY ActsFit DEF Acts, CallsFit
  <1>2. PICK g, f, i : Prunes(g, f, i)
    BY DEF PruneBreaksOff, PrunesPart
  <1>3. call' = [call EXCEPT ![c] = r] /\ UNCHANGED <<engine, front, cache>>
    BY DEF PruneBreaksOff
  <1>4. /\ CallShape(r) /\ r.op = call[c].op /\ r.at = "done" /\ r.code = "error" /\ r.out = {}
        /\ r.tries = call[c].tries
    BY <1>1 DEF CallFits, CallShape, Codes
  <1> HIDE DEF r
  <1> QED BY <1>2, <1>3, <1>4, PrunedStep

\* A call in a stage goes on to the next one, or is answered after the last.
LEMMA StageStep ==
  ASSUME CallsFit, NEW c \in Calls, call[c].at \in Stages, NEW ok \in BOOLEAN, NEW r,
         CallShape(r), r.op = call[c].op, r.at = Following(call[c].at), r.tries = call[c].tries,
         r.code = IF ok THEN (IF call[c].code = "none" /\ call[c].at = "cache" THEN "ok" ELSE call[c].code) ELSE "error",
         r.out \subseteq r.did, r.code # "error" => r.out = r.did,
         call' = [call EXCEPT ![c] = r], EngineFits', UNCHANGED <<engine, front, cache>>
  PROVE QuietStep(c)
  <1>1. /\ call[c].op.name = "sysprune" /\ call[c].code \in {"none", "error"} /\ CallFits(engine, call[c])
        /\ call[c].at \in {"containers", "networks", "images", "cache"}
    BY DEF CallsFit, CallFits, PlaceFits, WorkFits, Stages
  <1>2. /\ r.at \in {"networks", "images", "cache", "done"}
        /\ r.code \in {"none", "error", "ok"}
        /\ r.at = "done" => r.code # "none"
        /\ r.at # "done" => r.code # "ok"
    BY <1>1 DEF Following
  <1>3. CallFits(engine, r)
    BY <1>1, <1>2 DEF CallFits, CallShape, PlaceFits, WorkFits, BatchFits, DoneFits, StampFits, Stages, Early, Misled, Lifecycle
  <1>4. QuietTo(c, r)
    BY <1>1, <1>2, <1>3 DEF QuietTo
  <1> QED BY <1>4 DEF QuietStep

LEMMA PruneStageStep ==
  ASSUME CallsFit, NEW c \in Calls, PruneStage(c)
  PROVE QuietStep(c)
  <1> DEFINE to == AfterStage(c, TRUE)
             r == [to EXCEPT !.did = @ \cup {call[c].at}]
  <1>1. call[c].at \in Stages /\ call[c].op.name = "sysprune" /\ call[c].out \subseteq call[c].did /\ CallFits(engine, call[c])
        /\ call[c].op \in Ops /\ (call[c].code = "none" => call[c].out = call[c].did) /\ call[c].code \in {"none", "error"}
    BY ProjectsAssumption DEF PruneStage, CallsFit, CallFits, CallShape, PlaceFits, WorkFits, Stages
  <1>2. call' = [call EXCEPT ![c] = r] /\ UNCHANGED <<engine, front, cache>> /\ \E g, f, i : Prunes(g, f, i)
    BY DEF PruneStage, PrunesAll
  <1>3. /\ CallShape(to) /\ to.op = call[c].op /\ to.at = Following(call[c].at) /\ to.tries = call[c].tries
        /\ to.code = IF call[c].code = "none" /\ call[c].at = "cache" THEN "ok" ELSE call[c].code
        /\ to.did = call[c].did /\ to.out = call[c].out \cup {call[c].at}
    <2>1. to = [call[c] EXCEPT !.at = Following(call[c].at), !.out = @ \cup {call[c].at},
                   !.code = IF @ = "none" /\ call[c].at = "cache" THEN "ok" ELSE @]
      BY DEF AfterStage
    <2>2. Following(call[c].at) # "idle"
      BY <1>1 DEF Following
    <2> HIDE DEF to
    <2> QED BY <1>1, <2>1, <2>2 DEF CallFits, CallShape, Codes
  <1> HIDE DEF to
  <1>4. /\ CallShape(r) /\ r.op = to.op /\ r.at = to.at /\ r.tries = to.tries /\ r.code = to.code
        /\ r.out = to.out /\ r.did = to.did \cup {call[c].at}
    <2>1. to.at # "idle"
      BY <1>1, <1>3 DEF Following
    <2> QED BY <1>3, <2>1 DEF CallShape
  <1>5. EngineFits'
    BY <1>2, PrunesTyped DEF CallsFit, EngineFits
  <1> HIDE DEF r
  <1> QED BY <1>1, <1>2, <1>3, <1>4, <1>5, StageStep

LEMMA PruneStageFailsStep ==
  ASSUME CallsFit, NEW c \in Calls, PruneStageFails(c)
  PROVE QuietStep(c)
  <1> DEFINE p == AfterStage(c, FALSE)
             q == [p EXCEPT !.did = @ \cup {call[c].at}]
  <1>1. /\ call[c].at \in Stages /\ call[c].out \subseteq call[c].did /\ CallFits(engine, call[c]) /\ call[c].op \in Ops
    BY ProjectsAssumption DEF PruneStageFails, CallsFit, CallFits, CallShape, PlaceFits, WorkFits, Stages
  <1>2. /\ CallShape(p) /\ p.op = call[c].op /\ p.at = Following(call[c].at) /\ p.tries = call[c].tries
        /\ p.code = "error" /\ p.did = call[c].did /\ p.out = call[c].out
    <2>1. p = [call[c] EXCEPT !.at = Following(call[c].at), !.out = @, !.code = "error"]
      BY DEF AfterStage
    <2>2. Following(call[c].at) # "idle"
      BY <1>1 DEF Following
    <2> HIDE DEF p
    <2> QED BY <1>1, <2>1, <2>2 DEF CallFits, CallShape, Codes
  <1>3. CASE Goes(c, p)
    <2>1. call' = [call EXCEPT ![c] = p] /\ UNCHANGED <<engine, front, images, ctrs, nets, vols, cache>>
      BY <1>3 DEF Goes, engineVars
    <2>2. EngineFits'
      BY <2>1 DEF CallsFit, EngineFits
    <2> HIDE DEF p
    <2> QED BY <1>1, <1>2, <2>1, <2>2, StageStep
  <1>4. CASE /\ \E g, f, i : Prunes(g, f, i)
             /\ call' = [call EXCEPT ![c] = q] /\ UNCHANGED <<engine, front, cache>>
    <2> HIDE DEF p
    <2>1. /\ CallShape(q) /\ q.op = p.op /\ q.at = p.at /\ q.tries = p.tries /\ q.code = p.code
          /\ q.out = p.out /\ q.did = p.did \cup {call[c].at}
      <3>1. p.at # "idle"
        BY <1>1, <1>2 DEF Following
      <3> QED BY <1>2, <3>1 DEF CallShape
    <2>2. EngineFits'
      BY <1>4, PrunesTyped DEF CallsFit, EngineFits
    <2> HIDE DEF q
    <2> QED BY <1>1, <1>2, <1>4, <2>1, <2>2, StageStep
  <1> QED BY <1>3, <1>4 DEF PruneStageFails, PrunesPart

----------------------------------------------------------------------------
(* The steps of `run`.                                                     *)

LEMMA NewContainerTyped ==
  ASSUME NEW id \in Ids \cup {None}, NEW state \in States \ {"paused"}
  PROVE NewContainer(id, state) \in CtrRow(engine)
BY DEF NewContainer, Absent, CtrRow, StatesOf, States

LEMMA CreateContainerStep ==
  ASSUME CallsFit, NEW c \in Calls, CreateContainer(c)
  PROVE QuietStep(c)
  <1> DEFINE tried == [call[c] EXCEPT !.tries = @ + 1]
             fetch == [tried EXCEPT !.at = "fetch"]
             fails == [tried EXCEPT !.at = "done", !.code = "error"]
             start == [tried EXCEPT !.did = @ \cup {"create"}, !.at = "start"]
             id    == ResolveImage(images, call[c].op.ref).id
  <1>1. /\ call[c].at \in {"act", "again"} /\ call[c].op.name = "run" /\ call[c].op \in Ops
        /\ CallFits(engine, call[c])
        /\ call[c].tries \in 0..1
        /\ call[c].at = "act" => call[c].tries = 0
    BY DEF CreateContainer, On, Acts, CallsFit, CallFits, CallShape, PlaceFits, WorkFits, Early
  <1>2. /\ fetch.op = call[c].op /\ fetch.at = "fetch" /\ fetch.tries = call[c].tries + 1
        /\ fails.op = call[c].op /\ fails.at = "done" /\ fails.tries = call[c].tries + 1 /\ fails.code = "error"
        /\ start.op = call[c].op /\ start.at = "start" /\ start.tries = call[c].tries + 1 /\ "create" \in start.did
    BY <1>1 DEF CallFits, CallShape
  <1>3. CallShape(fetch) /\ CallShape(fails) /\ CallShape(start)
    <2>1. tried.tries \in 0..2 /\ tried.op \in Ops /\ tried.code \in Codes
      BY <1>1 DEF CallFits, CallShape
    <2>2. tried \in [op : {tried.op}, at : {tried.at}, found : {tried.found}, did : {tried.did}, code : {tried.code},
                     tries : {tried.tries}, round : {tried.round}, todo : {tried.todo}, out : {tried.out}, got : {tried.got}]
      BY <1>1 DEF CallFits, CallShape
    <2> HIDE DEF tried
    <2> QED BY <2>1, <2>2 DEF CallShape, Codes
  <1> HIDE DEF fetch, fails, start
  <1>4. CallFits(engine, fails) /\ CallFits(engine, start) /\ (call[c].at = "act" => CallFits(engine, fetch))
    BY <1>1, <1>2, <1>3
    DEF CallFits, PlaceFits, WorkFits, BatchFits, DoneFits, StampFits, Stages, Early, Misled, Lifecycle
  <1>5. \/ call[c].at = "act" /\ Goes(c, fetch)
        \/ Goes(c, fails)
        \/ /\ ctrs' = [ctrs EXCEPT ![call[c].op.to] = NewContainer(id, "created")]
           /\ Turns(c, start)
           /\ UNCHANGED <<engine, front, images, nets, vols, cache>>
    BY DEF CreateContainer, MayPull, fetch, fails, start
  <1>6. CASE call[c].at = "act" /\ Goes(c, fetch)
    BY <1>1, <1>2, <1>4, <1>6, GoesStep
  <1>7. CASE Goes(c, fails)
    <2>1. call' = [call EXCEPT ![c] = fails] /\ UNCHANGED <<engine, front, images, ctrs, nets, vols, cache>>
      BY <1>7 DEF Goes, engineVars
    <2>2. EngineFits'
      BY <2>1 DEF CallsFit, EngineFits
    <2>3. QuietTo(c, fails)
      BY <1>1, <1>2, <1>4, <2>1, <2>2 DEF QuietTo
    <2> QED BY <2>3 DEF QuietStep
  <1>8. CASE /\ ctrs' = [ctrs EXCEPT ![call[c].op.to] = NewContainer(id, "created")]
             /\ Turns(c, start)
             /\ UNCHANGED <<engine, front, images, nets, vols, cache>>
    <2>1. NewContainer(id, "created") \in CtrRow(engine)
      BY ResolveTyped, NewContainerTyped DEF CallsFit, EngineFits, States
    <2>2. ctrs' \in [Ctrs -> CtrRow(engine)]
      <3> HIDE DEF CtrRow
      <3> QED BY <1>8, <2>1 DEF CallsFit, EngineFits
    <2>3. EngineFits'
      BY <1>8, <2>2 DEF CallsFit, EngineFits
    <2> QED BY <1>1, <1>2, <1>4, <1>8, <2>3, TurnsStep
  <1> QED BY <1>5, <1>6, <1>7, <1>8

LEMMA PullForRunStep ==
  ASSUME CallsFit, NEW c \in Calls, PullForRun(c)
  PROVE QuietStep(c)
  <1> DEFINE r == [call[c] EXCEPT !.did = @ \cup {"pull"}, !.at = "again"]
  <1>1. /\ call[c].at = "fetch" /\ call[c].op.name = "run" /\ call[c].op \in Ops
        /\ CallFits(engine, call[c]) /\ call[c].tries <= 1
    BY DEF PullForRun, CallsFit, CallFits, CallShape, PlaceFits, WorkFits
  <1>2. CASE Fails(c)
    BY <1>1, <1>2, FailsStep
  <1>3. CASE /\ images' \in Pulled(images, call[c].op.ref)
             /\ Turns(c, r)
             /\ UNCHANGED <<engine, front, ctrs, nets, vols, cache>>
    <2>1. CallShape(r) /\ r.op = call[c].op /\ r.at = "again" /\ r.tries = call[c].tries
      BY <1>1 DEF CallFits, CallShape
    <2>2. images' \in Seq(Row)
      BY <1>1, <1>3, Words, PulledTyped DEF CallsFit, EngineFits
    <2> HIDE DEF r
    <2>3. CallFits(engine, r)
      BY <1>1, <2>1 DEF CallFits, PlaceFits, WorkFits, BatchFits, DoneFits, StampFits, Stages, Early
    <2>4. EngineFits'
      BY <1>3, <2>2 DEF CallsFit, EngineFits
    <2> QED BY <1>1, <1>3, <2>1, <2>3, <2>4, TurnsStep
  <1>4. \/ Fails(c)
        \/ /\ images' \in Pulled(images, call[c].op.ref)
           /\ Turns(c, r)
           /\ UNCHANGED <<engine, front, ctrs, nets, vols, cache>>
    BY Zenon DEF PullForRun
  <1> QED BY <1>2, <1>3, <1>4

LEMMA StartContainerStep ==
  ASSUME CallsFit, NEW c \in Calls, StartContainer(c)
  PROVE QuietStep(c)
  <1> DEFINE r == [call[c] EXCEPT !.did = @ \cup {"start"}, !.at = "done", !.code = "ok"]
  <1>1. /\ call[c].at = "start" /\ call[c].op.name = "run" /\ call[c].op \in Ops
        /\ CallFits(engine, call[c]) /\ "create" \in call[c].did
    BY DEF StartContainer, CallsFit, CallFits, CallShape, PlaceFits, WorkFits
  <1>2. CASE Fails(c)
    BY <1>1, <1>2, FailsStep
  <1>3. CASE /\ ctrs' = [ctrs EXCEPT ![call[c].op.to].state = "running"]
             /\ Changed(c, "start") /\ UNCHANGED <<images, nets, vols>>
    <2>1. /\ CallShape(r) /\ r.op = call[c].op /\ r.at = "done" /\ r.tries = call[c].tries /\ r.code = "ok"
          /\ {"create", "start"} \subseteq r.did
      BY <1>1 DEF CallFits, CallShape, Codes
    <2>2. EngineFits'
      <3>1. ctrs \in [Ctrs -> CtrRow(engine)] /\ call[c].op.to \in Ctrs
        BY <1>1, Words DEF CallsFit, EngineFits
      <3>2. "running" \in StatesOf(engine)
        BY DEF StatesOf, States
      <3>3. ctrs' \in [Ctrs -> CtrRow(engine)]
        BY <1>3, <3>1, <3>2 DEF CtrRow
      <3> QED BY <1>3, <3>3 DEF CallsFit, EngineFits, Changed
    <2>3. Turns(c, r) /\ UNCHANGED <<engine, front, cache>>
      BY <1>3 DEF Changed, Did
    <2> HIDE DEF r
    <2>4. CallFits(engine, r)
      BY <1>1, <2>1 DEF CallFits, PlaceFits, WorkFits, BatchFits, DoneFits, StampFits, Stages, Early, Misled, Lifecycle
    <2> QED BY <1>1, <2>1, <2>2, <2>3, <2>4, TurnsStep
  <1> QED BY <1>2, <1>3 DEF StartContainer

LEMMA RunAtOnceStep ==
  ASSUME CallsFit, NEW c \in Calls, Acts(c, "run"), NEW rows \in Seq(Row), NEW id \in Ids \cup {None},
         RunAtOnce(c, rows, id)
  PROVE QuietStep(c)
  <1> DEFINE n == call[c].op.to
             fails == [call[c] EXCEPT !.at = "done", !.code = "error"]
             did == [Did(c, "start") EXCEPT !.did = @ \cup {"create"}]
  <1>1. /\ call[c].at = "act" /\ call[c].op.name = "run" /\ call[c].op \in Ops /\ n \in Ctrs
        /\ CallFits(engine, call[c])
    BY ActsFit, Words DEF Acts, CallsFit
  <1>2. /\ fails.op = call[c].op /\ fails.at = "done" /\ fails.tries = call[c].tries /\ fails.code = "error"
        /\ did.op = call[c].op /\ did.at = "done" /\ did.tries = call[c].tries /\ did.code = "ok"
        /\ {"create", "start"} \subseteq did.did
    BY <1>1 DEF CallFits, CallShape, Did
  <1>3. CallShape(fails) /\ CallShape(did)
    BY <1>1 DEF CallFits, CallShape, Codes, Did
  <1> HIDE DEF fails, did
  <1>4. CallFits(engine, fails) /\ CallFits(engine, did)
    BY <1>1, <1>2, <1>3
    DEF CallFits, PlaceFits, WorkFits, BatchFits, DoneFits, StampFits, Stages, Early, Misled, Lifecycle
  <1>5. /\ images' = rows /\ UNCHANGED <<engine, front, nets, vols, cache>>
        /\ \/ ctrs' = ctrs /\ call' = [call EXCEPT ![c] = fails]
           \/ ctrs' = [ctrs EXCEPT ![n] = NewContainer(id, "running")] /\ Turns(c, did)
    BY DEF RunAtOnce, fails, did
  <1>6. NewContainer(id, "running") \in CtrRow(engine)
    BY NewContainerTyped DEF States
  <1>7. EngineFits'
    <2> HIDE DEF CtrRow
    <2> QED BY <1>1, <1>5, <1>6 DEF CallsFit, EngineFits
  <1>8. CASE call' = [call EXCEPT ![c] = fails]
    <2>1. QuietTo(c, fails)
      BY <1>1, <1>2, <1>4, <1>5, <1>7, <1>8 DEF QuietTo
    <2> QED BY <2>1 DEF QuietStep
  <1>9. CASE Turns(c, did)
    BY <1>1, <1>2, <1>4, <1>5, <1>7, <1>9, TurnsStep
  <1> QED BY <1>5, <1>8, <1>9

LEMMA NerdctlRunStep ==
  ASSUME CallsFit, NEW c \in Calls, NerdctlRun(c)
  PROVE QuietStep(c)
  <1>1. Acts(c, "run") /\ call[c].op.ref \in Tags /\ images \in Seq(Row)
    BY ActsFit, Words DEF NerdctlRun, On, Acts, CallsFit, EngineFits
  <1>2. PICK rows \in {images} \cup Pulled(images, call[c].op.ref) :
               RunAtOnce(c, rows, ResolveImage(rows, call[c].op.ref).id)
    BY DEF NerdctlRun
  <1>3. rows \in Seq(Row)
    BY <1>1, <1>2, PulledTyped
  <1>4. ResolveImage(rows, call[c].op.ref).id \in Ids \cup {None}
    BY <1>3, ResolveTyped
  <1> QED BY <1>1, <1>2, <1>3, <1>4, RunAtOnceStep

LEMMA DemoRunStep ==
  ASSUME CallsFit, NEW c \in Calls, DemoRun(c)
  PROVE QuietStep(c)
  <1> DEFINE found == DemoRows(call[c].op.ref)
             first == images[First(found)].id
             built == NewBuild(call[c].op.ref)
  <1>1. Acts(c, "run") /\ call[c].op.ref \in Tags /\ images \in Seq(Row)
    BY ActsFit, Words DEF DemoRun, On, Acts, CallsFit, EngineFits
  <1>2. IF found # {} THEN RunAtOnce(c, images, first) ELSE RunAtOnce(c, built, "built")
    BY DEF DemoRun
  <1>3. built \in Seq(Row) /\ "built" \in Ids
    BY <1>1, NewBuildTyped DEF Ids
  <1>4. found # {} => first \in Ids
    BY <1>1, DemoRowsTyped
  <1> HIDE DEF found, first, built
  <1> QED BY <1>1, <1>2, <1>3, <1>4, RunAtOnceStep

----------------------------------------------------------------------------
(* The steps of `stats`.                                                   *)

LEMMA StatsListStep ==
  ASSUME CallsFit, NEW c \in Calls, StatsList(c)
  PROVE QuietStep(c)
  <1> DEFINE round == IF front = "agent" THEN 1 ELSE 2
             r == [call[c] EXCEPT !.at = "batch", !.round = round, !.todo = Picked(c), !.found = Picked(c)]
  <1>1. /\ call[c].at = "list" /\ call[c].op.name = "stats" /\ call[c].op \in Ops /\ CallFits(engine, call[c])
        /\ call[c].did = {} /\ call[c].out = {} /\ call[c].got = {}
    BY DEF StatsList, CallsFit, CallFits, CallShape, PlaceFits, WorkFits, Early
  <1>2. CASE Picked(c) = {}
    <2>1. Answer(c, "ok") \/ Answer(c, "not_found")
      BY <1>2 DEF StatsList
    <2> QED BY <1>1, <2>1, AnswerStep DEF Codes, Misled, Lifecycle
  <1>3. CASE Picked(c) # {}
    <2>1. Goes(c, r)
      BY <1>3 DEF StatsList
    <2>2. Picked(c) \subseteq Ctrs /\ round \in {1, 2}
      BY DEF Picked
    <2> HIDE DEF round
    <2>3. /\ CallShape(r) /\ r.op = call[c].op /\ r.at = "batch" /\ r.tries = call[c].tries /\ r.round = round
          /\ r.out = {} /\ r.got = {} /\ r.found = Picked(c) /\ r.todo = Picked(c)
      BY <1>1 DEF CallFits, CallShape
    <2>4. IsFiniteSet({}) /\ Cardinality({}) <= MaxWorkers
      BY FS_EmptySet, BoundsAssumption
    <2> HIDE DEF r
    <2>5. CallFits(engine, r)
      BY <1>1, <2>2, <2>3, <2>4 DEF CallFits, PlaceFits, WorkFits, BatchFits, DoneFits, StampFits, Stages, Early
    <2> QED BY <1>1, <2>1, <2>3, <2>5, GoesStep
  <1> QED BY <1>2, <1>3

\* What is known of a call whose batch, or the window after it, is under way.
LEMMA BatchFacts ==
  ASSUME CallsFit, NEW c \in Calls, call[c].at \in {"batch", "window"}
  PROVE /\ call[c].op.name = "stats" /\ call[c].op \in Ops /\ CallFits(engine, call[c])
        /\ call[c].found \subseteq Ctrs /\ call[c].got \subseteq call[c].found
        /\ call[c].todo \subseteq call[c].found /\ call[c].out \subseteq call[c].found
        /\ call[c].round \in {1, 2} /\ call[c].tries \in 0..2
        /\ IsFiniteSet(call[c].out) /\ Cardinality(call[c].out) <= MaxWorkers
BY DEF CallsFit, CallFits, CallShape, PlaceFits, BatchFits

\* Where a call with these fields fits.
LEMMA BatchOn ==
  ASSUME NEW e, NEW r, CallShape(r), r.op \in Ops, r.op.name = "stats", r.at \in {"batch", "window", "done"},
         r.found \subseteq Ctrs, r.got \subseteq r.found, r.todo \subseteq r.found, r.out \subseteq r.found,
         r.round \in {1, 2}, IsFiniteSet(r.out), Cardinality(r.out) <= MaxWorkers,
         r.at = "done" => r.code \in {"ok", "error"}
  PROVE CallFits(e, r)
BY DEF CallFits, CallShape, PlaceFits, WorkFits, BatchFits, DoneFits, StampFits, Stages, Early, Misled, Lifecycle

LEMMA BatchEndsAt ==
  ASSUME CallsFit, NEW c \in Calls, call[c].at = "batch"
  PROVE LET r == BatchEnds(c)
        IN  /\ CallShape(r) /\ r.op = call[c].op /\ r.found = call[c].found /\ r.out = call[c].out
            /\ r.got = call[c].got /\ r.todo = call[c].todo /\ r.round = call[c].round
            /\ r.at \in {"window", "done"}
            /\ r.at = "done" => r.code = "ok"
  <1>1. CallFits(engine, call[c]) /\ call[c].op \in Ops
    BY BatchFacts
  <1>2. BatchEnds(c) \in {[call[c] EXCEPT !.at = "done", !.code = "ok"], [call[c] EXCEPT !.at = "window"]}
    BY DEF BatchEnds
  <1> QED BY <1>1, <1>2 DEF CallFits, CallShape, Codes

LEMMA BatchAtOnceStep ==
  ASSUME CallsFit, NEW c \in Calls, engine # "docker", NEW seen, NEW kept, BatchAtOnce(c, seen, kept),
         seen \subseteq call[c].found, kept \subseteq Ctrs
  PROVE QuietStep(c)
  <1> DEFINE b == BatchEnds(c)
             r == [b EXCEPT !.got = seen, !.todo = {}]
  <1>1. call[c].at = "batch"
    BY DEF BatchAtOnce
  <1>2. call' = [call EXCEPT ![c] = r] /\ cache' = kept /\ UNCHANGED <<engine, front, images, ctrs, nets, vols>>
    BY DEF BatchAtOnce, engineVars
  <1>3. /\ CallShape(b) /\ b.op = call[c].op /\ b.found = call[c].found /\ b.out = call[c].out
        /\ b.round = call[c].round /\ b.at \in {"window", "done"}
        /\ b.at = "done" => b.code = "ok"
    BY <1>1, BatchEndsAt
  <1> HIDE DEF b
  <1>4. /\ CallShape(r) /\ r.op = b.op /\ r.found = b.found /\ r.out = b.out /\ r.round = b.round /\ r.at = b.at
        /\ r.code = b.code /\ r.got = seen /\ r.todo = {}
    BY <1>3 DEF CallShape
  <1> HIDE DEF r
  <1>5. CallFits(engine, r)
    BY <1>1, <1>3, <1>4, BatchFacts, BatchOn
  <1>6. EngineFits'
    BY <1>2 DEF CallsFit, EngineFits
  <1>7. QuietTo(c, r)
    BY <1>1, <1>2, <1>3, <1>4, <1>5, <1>6, BatchFacts DEF QuietTo
  <1> QED BY <1>7 DEF QuietStep

\* A step of call c to r, in its batch or in the window after it: either a
\* batch is under way then, or the samples are those of what it lists.
SampleTo(c, r) ==
  /\ CallFits(engine, r) /\ r.op = call[c].op /\ r.at # "idle"
  /\ call[c].at \in {"batch", "window"} /\ r.op.name = "stats"
  /\ \/ r.at = "batch"
     \/ r.at \in {"window", "done"} /\ r.round > 0 /\ cache' \subseteq r.found
     \/ /\ cache' = cache /\ call[c].at = "window" /\ r.at = "done" /\ r.round = call[c].round /\ r.found = call[c].found
  /\ engine' = engine /\ front' = front
  /\ call' = [call EXCEPT ![c] = r]
  /\ EngineFits'
SampleStep(c) == \E r : SampleTo(c, r)

LEMMA StartWorkerStep ==
  ASSUME CallsFit, NEW c \in Calls, StartWorker(c)
  PROVE SampleStep(c)
  <1>1. /\ call[c].at = "batch" /\ Cardinality(call[c].out) < MaxWorkers
    BY DEF StartWorker, MayStart
  <1>2. PICK n \in call[c].todo : Goes(c, [call[c] EXCEPT !.todo = @ \ {n}, !.out = @ \cup {n}])
    BY DEF StartWorker
  <1> DEFINE r == [call[c] EXCEPT !.todo = @ \ {n}, !.out = @ \cup {n}]
  <1>3. /\ CallShape(r) /\ r.op = call[c].op /\ r.at = "batch" /\ r.found = call[c].found /\ r.round = call[c].round
        /\ r.todo = call[c].todo \ {n} /\ r.out = call[c].out \cup {n} /\ r.got = call[c].got
    BY <1>1, BatchFacts DEF CallFits, CallShape
  <1>4. IsFiniteSet(call[c].out \cup {n}) /\ Cardinality(call[c].out \cup {n}) <= MaxWorkers
    <2>1. IsFiniteSet(call[c].out)
      BY <1>1, BatchFacts
    <2>2. /\ IsFiniteSet(call[c].out \cup {n})
          /\ Cardinality(call[c].out \cup {n}) \in {Cardinality(call[c].out), Cardinality(call[c].out) + 1}
      BY <2>1, FS_AddElement
    <2>3. Cardinality(call[c].out) \in Nat
      BY <2>1, FS_CardinalityType
    <2> QED BY <1>1, <2>2, <2>3, BoundsAssumption
  <1>5. call' = [call EXCEPT ![c] = r] /\ UNCHANGED <<engine, front, images, ctrs, nets, vols, cache>>
    BY <1>2 DEF Goes, engineVars
  <1>6. EngineFits'
    BY <1>5 DEF CallsFit, EngineFits
  <1> HIDE DEF r
  <1>7. CallFits(engine, r)
    BY <1>1, <1>3, <1>4, BatchFacts, BatchOn
  <1>8. SampleTo(c, r)
    BY <1>1, <1>3, <1>5, <1>6, <1>7, BatchFacts DEF SampleTo
  <1> QED BY <1>8 DEF SampleStep

LEMMA SampleStepFits ==
  ASSUME CallsFit, NEW c \in Calls, Sample(c)
  PROVE SampleStep(c)
  <1>1. call[c].at = "batch"
    BY DEF Sample
  <1>2. PICK n \in call[c].out :
          /\ call' = [call EXCEPT ![c] = [call[c] EXCEPT !.out = @ \ {n}, !.got = IF Running(n) THEN @ \cup {n} ELSE @]]
          /\ cache' = IF Running(n) THEN cache \cup {n} ELSE cache
    BY DEF Sample
  <1> DEFINE r == [call[c] EXCEPT !.out = @ \ {n}, !.got = IF Running(n) THEN @ \cup {n} ELSE @]
  <1>3. /\ CallShape(r) /\ r.op = call[c].op /\ r.at = "batch" /\ r.found = call[c].found /\ r.round = call[c].round
        /\ r.todo = call[c].todo /\ r.out = call[c].out \ {n} /\ r.got \subseteq call[c].got \cup {n}
    BY <1>1, BatchFacts DEF CallFits, CallShape
  <1>4. IsFiniteSet(call[c].out \ {n}) /\ Cardinality(call[c].out \ {n}) <= MaxWorkers
    <2>1. IsFiniteSet(call[c].out) /\ Cardinality(call[c].out) <= MaxWorkers
      BY <1>1, BatchFacts
    <2>2. /\ IsFiniteSet(call[c].out \ {n}) /\ Cardinality(call[c].out \ {n}) <= Cardinality(call[c].out)
      BY <2>1, FS_Subset
    <2>3. Cardinality(call[c].out) \in Nat /\ Cardinality(call[c].out \ {n}) \in Nat
      BY <2>1, <2>2, FS_CardinalityType
    <2> QED BY <2>1, <2>2, <2>3, BoundsAssumption
  <1>5. call' = [call EXCEPT ![c] = r] /\ UNCHANGED <<engine, front, images, ctrs, nets, vols>>
    BY <1>2 DEF Sample, engineVars
  <1>6. n \in Ctrs
    BY <1>1, <1>2, BatchFacts
  <1>7. EngineFits'
    BY <1>2, <1>5, <1>6 DEF CallsFit, EngineFits
  <1> HIDE DEF r
  <1>8. CallFits(engine, r)
    BY <1>1, <1>2, <1>3, <1>4, BatchFacts, BatchOn
  <1>9. SampleTo(c, r)
    BY <1>1, <1>3, <1>5, <1>7, <1>8, BatchFacts DEF SampleTo
  <1> QED BY <1>9 DEF SampleStep

LEMMA EndBatchStep ==
  ASSUME CallsFit, NEW c \in Calls, EndBatch(c)
  PROVE SampleStep(c)
  <1> DEFINE r == BatchEnds(c)
  <1>1. call[c].at = "batch"
    BY DEF EndBatch
  <1>2. /\ call' = [call EXCEPT ![c] = r] /\ cache' = cache \cap call[c].found
        /\ UNCHANGED <<engine, front, images, ctrs, nets, vols>>
    BY DEF EndBatch, Purged, engineVars
  <1>3. /\ CallShape(r) /\ r.op = call[c].op /\ r.found = call[c].found /\ r.out = call[c].out
        /\ r.got = call[c].got /\ r.todo = call[c].todo /\ r.round = call[c].round /\ r.at \in {"window", "done"}
        /\ r.at = "done" => r.code = "ok"
    BY <1>1, BatchEndsAt
  <1> HIDE DEF r
  <1>4. CallFits(engine, r)
    BY <1>1, <1>3, BatchFacts, BatchOn
  <1>5. EngineFits'
    BY <1>2 DEF CallsFit, EngineFits
  <1>6. r.round > 0
    BY <1>1, <1>3, BatchFacts
  <1>7. SampleTo(c, r)
    BY <1>1, <1>2, <1>3, <1>4, <1>5, <1>6, BatchFacts DEF SampleTo
  <1> QED BY <1>7 DEF SampleStep

LEMMA SleepStep ==
  ASSUME CallsFit, NEW c \in Calls, SleepCtx(c)
  PROVE SampleStep(c)
  <1> DEFINE p == [call[c] EXCEPT !.at = "batch", !.round = 2, !.todo = call[c].found, !.got = {}]
             q == [call[c] EXCEPT !.at = "done", !.code = "error"]
  <1>1. call[c].at = "window"
    BY DEF SleepCtx
  <1>2. /\ call' \in {[call EXCEPT ![c] = p], [call EXCEPT ![c] = q]}
        /\ UNCHANGED <<engine, front, images, ctrs, nets, vols, cache>>
    BY DEF SleepCtx, Fails, Answer, Goes, engineVars
  <1>3. /\ CallShape(p) /\ p.op = call[c].op /\ p.at = "batch" /\ p.found = call[c].found /\ p.round = 2
        /\ p.todo = call[c].found /\ p.out = call[c].out /\ p.got = {}
    BY <1>1, BatchFacts DEF CallFits, CallShape
  <1>4. /\ CallShape(q) /\ q.op = call[c].op /\ q.at = "done" /\ q.found = call[c].found /\ q.round = call[c].round
        /\ q.todo = call[c].todo /\ q.out = call[c].out /\ q.got = call[c].got /\ q.code = "error"
    BY <1>1, BatchFacts DEF CallFits, CallShape, Codes
  <1>5. EngineFits'
    BY <1>2 DEF CallsFit, EngineFits
  <1> HIDE DEF p, q
  <1>6. CallFits(engine, p) /\ CallFits(engine, q)
    BY <1>1, <1>3, <1>4, BatchFacts, BatchOn
  <1>7. SampleTo(c, p) \/ SampleTo(c, q)
    BY <1>1, <1>2, <1>3, <1>4, <1>5, <1>6, BatchFacts DEF SampleTo
  <1> QED BY <1>7 DEF SampleStep

\* Every step of a command on objects.
LEMMA ObjectSteps ==
  ASSUME CallsFit, NEW c \in Calls, ObjectStep(c)
  PROVE QuietStep(c) \/ SampleStep(c)
  <1>1. CASE ImageStep(c)
    BY <1>1, ImageSteps
  <1>2. CASE NetworkStep(c)
    BY <1>2, NetworkSteps
  <1>3. CASE VolumeStep(c)
    BY <1>3, VolumeSteps
  <1>4. CASE Refused(c)
    BY <1>4, FailsStep DEF Refused
  <1>5. CASE Unsupported(c)
    BY <1>5, ActAnswer DEF Unsupported, Codes
  <1>6. CASE PruneStage(c)
    BY <1>6, PruneStageStep
  <1>7. CASE PruneStageFails(c)
    BY <1>7, PruneStageFailsStep
  <1>8. CASE NerdctlSystemPrune(c)
    BY <1>8, PruneAtOnceStep, PruneBreaksStep DEF NerdctlSystemPrune, On
  <1>9. CASE CriSystemPrune(c)
    BY <1>9, PruneAtOnceStep, PruneBreaksStep DEF CriSystemPrune, On
  <1>10. CASE DemoSystemPrune(c)
    BY <1>10, PruneAtOnceStep DEF DemoSystemPrune, On
  <1>11. CASE CreateContainer(c)
    BY <1>11, CreateContainerStep
  <1>12. CASE PullForRun(c)
    BY <1>12, PullForRunStep
  <1>13. CASE StartContainer(c)
    BY <1>13, StartContainerStep
  <1>14. CASE NerdctlRun(c)
    BY <1>14, NerdctlRunStep
  <1>15. CASE DemoRun(c)
    BY <1>15, DemoRunStep
  <1>16. CASE CriRunContainer(c)
    BY <1>16, ActAnswer DEF CriRunContainer, On, Acts, Codes
  <1>17. CASE StatsList(c)
    BY <1>17, StatsListStep
  <1>18. CASE StartWorker(c)
    BY <1>18, StartWorkerStep
  <1>19. CASE Sample(c)
    BY <1>19, SampleStepFits
  <1>20. CASE EndBatch(c)
    BY <1>20, EndBatchStep
  <1>21. CASE SleepCtx(c)
    BY <1>21, SleepStep
  <1>22. CASE NerdctlStats(c)
    BY <1>22, BatchAtOnceStep DEF NerdctlStats, CallsFit, EngineFits
  <1>23. CASE CriStats(c)
    BY <1>23, BatchAtOnceStep DEF CriStats, CallsFit, EngineFits
  <1>24. CASE DemoStats(c)
    BY <1>24, BatchAtOnceStep DEF DemoStats, CallsFit, EngineFits
  <1>25. CASE Confirmed(c)
    BY <1>25, ConfirmedStep
  <1> QED
    BY <1>25, <1>1, <1>2, <1>3, <1>4, <1>5, <1>6, <1>7, <1>8, <1>9, <1>10, <1>11, <1>12, <1>13, <1>14, <1>15, <1>16, <1>17, <1>18, <1>19, <1>20, <1>21, <1>22, <1>23, <1>24 DEF ObjectStep

----------------------------------------------------------------------------
(* The steps of the compose commands.                                      *)

\* A step that leaves docker's archives, and no false verdict, behind.
HostKept ==
  /\ host' = host
  /\ engine = "docker" => archive' = archive
  /\ sudo' = sudo \/ (sudo' = "no" => Plain)
QuietHost(c) == QuietStep(c) /\ HostKept

LEMMA StepsHost ==
  ASSUME CallsFit, NEW c \in Calls, NEW r, CallFits(engine, r), r.op = call[c].op, Steps(c, r),
         r.at \notin {"idle", "done", "tar"},
         call[c].at \notin {"idle", "done", "tar", "create", "batch", "window"}
  PROVE QuietHost(c)
  <1>1. Goes(c, r) /\ HostKept
    BY DEF Steps, hostVars, HostKept
  <1> QED BY <1>1, GoesStep DEF QuietHost

LEMMA EndsHost ==
  ASSUME CallsFit, NEW c \in Calls, NEW code \in Codes \ {"none"}, Ends(c, code),
         call[c].at \notin {"idle", "done", "tar", "create", "batch", "window"},
         code \in Misled => call[c].did = {},
         code = "ok" => /\ call[c].op.name \notin {"run", "sysprune"}
                        /\ call[c].op.name \in Lifecycle \cup {"backup"} => engine = "demo"
  PROVE QuietHost(c)
  <1>1. Answer(c, code) /\ HostKept
    BY DEF Ends, hostVars, HostKept
  <1> QED BY <1>1, AnswerStep DEF QuietHost

LEMMA FailsHost ==
  ASSUME CallsFit, NEW c \in Calls, Ends(c, "error"),
         call[c].at \notin {"idle", "done", "tar", "create", "batch", "window"}
  PROVE QuietHost(c)
BY EndsHost DEF Codes, Misled

LEMMA ResolveStep ==
  ASSUME CallsFit, NEW c \in Calls, NEW names, NEW possible \in BOOLEAN, NEW next \in {"members", "meta"},
         Resolve(c, names, possible, next),
         next = "members" => names \subseteq Lifecycle, next = "meta" => names \subseteq HostOps
  PROVE QuietHost(c)
  <1> DEFINE hit == ResolveCompose(call[c].op.ref)
             r == [call[c] EXCEPT !.found = hit.id, !.at = next]
  <1>1. call[c].at = "resolve" /\ call[c].op.name \in names /\ CallFits(engine, call[c]) /\ call[c].did = {}
    BY DEF Resolve, CallsFit, CallFits, WorkFits, Early
  <1>2. hit.code \in {"ok", "not_found", "usage"}
    BY DEF ResolveCompose
  <1>3. (hit.code # "ok" /\ Ends(c, hit.code)) \/ Ends(c, "usage") \/ Steps(c, r)
    BY DEF Resolve
  <1> HIDE DEF hit
  <1>4. CallFits(engine, r) /\ r.op = call[c].op /\ r.at = next
    <2>1. r.op = call[c].op /\ r.at = next
      BY <1>1 DEF CallFits, CallShape
    <2>2. CASE next = "members"
      BY <1>1, <2>1, <2>2, EarlyMove
    <2>3. CASE next = "meta"
      BY <1>1, <2>1, <2>3, EarlyMove
    <2> QED BY <2>2, <2>3
  <1> HIDE DEF r
  <1>5. CASE hit.code # "ok" /\ Ends(c, hit.code)
    BY <1>1, <1>2, <1>5, EndsHost DEF Codes, Misled
  <1>6. CASE Ends(c, "usage")
    BY <1>1, <1>6, EndsHost DEF Codes, Misled
  <1>7. CASE Steps(c, r)
    BY <1>1, <1>4, <1>7, StepsHost
  <1> QED BY <1>3, <1>5, <1>6, <1>7

LEMMA ListMembersStep ==
  ASSUME CallsFit, NEW c \in Calls, NEW list, ListMembers(c, list)
  PROVE QuietHost(c)
  <1> DEFINE r == [call[c] EXCEPT !.at = "each", !.todo = list, !.got = list]
  <1>1. /\ call[c].at = "members" /\ CallFits(engine, call[c]) /\ call[c].op \in Ops
        /\ call[c].op.name \in Lifecycle /\ call[c].out = {}
    BY DEF ListMembers, CallsFit, CallFits, CallShape, PlaceFits, WorkFits, Early
  <1>2. Ends(c, "error") \/ (list # {} /\ Steps(c, r))
    BY DEF ListMembers
  <1>3. /\ CallShape(r) /\ r.op = call[c].op /\ r.at = "each" /\ r.todo = list /\ r.got = list /\ r.out = {}
        /\ r.did = call[c].did /\ r.tries = call[c].tries
    BY <1>1 DEF CallFits, CallShape
  <1> HIDE DEF r
  <1>4. list # {} => CallFits(engine, r)
    BY <1>1, <1>3 DEF CallFits, PlaceFits, WorkFits, BatchFits, DoneFits, StampFits, Stages, Early, Lifecycle
  <1> QED BY <1>1, <1>2, <1>3, <1>4, FailsHost, StepsHost

LEMMA ActOnMemberStep ==
  ASSUME CallsFit, NEW c \in Calls, ActOnMember(c)
  PROVE QuietHost(c)
  <1>1. /\ call[c].at = "each" /\ CallFits(engine, call[c]) /\ call[c].op \in Ops
        /\ call[c].op.name \in Lifecycle /\ call[c].got = call[c].todo \cup call[c].out /\ call[c].got # {}
    BY DEF ActOnMember, CallsFit, CallFits, CallShape, PlaceFits, WorkFits
  <1>2. CASE Ends(c, "error")
    BY <1>1, <1>2, FailsHost
  <1>3. ASSUME NEW n \in call[c].todo, NEW to, to # None,
               to = IF Exists(n) THEN Acted(call[c].op.name, ctrs[n].state) ELSE None,
               ctrs' = IF to = "none" THEN Emptied({n}) ELSE [ctrs EXCEPT ![n].state = to],
               Turns(c, [call[c] EXCEPT !.todo = @ \ {n}, !.out = @ \cup {n}]), engine # "demo",
               UNCHANGED <<engine, front, images, nets, vols, cache, hostVars>>
        PROVE QuietHost(c)
    <2> DEFINE r == [call[c] EXCEPT !.todo = @ \ {n}, !.out = @ \cup {n}]
    <2>1. /\ CallShape(r) /\ r.op = call[c].op /\ r.at = "each" /\ r.todo = call[c].todo \ {n}
          /\ r.out = call[c].out \cup {n} /\ r.got = call[c].got /\ r.did = call[c].did /\ r.tries = call[c].tries
      BY <1>1 DEF CallFits, CallShape
    <2>2. ctrs' \in [Ctrs -> CtrRow(engine)]
      <3>1. CASE to = "none"
        BY <1>3, <3>1, EmptiedTyped DEF CallsFit, EngineFits
      <3>2. CASE to # "none"
        <4>1. to = Acted(call[c].op.name, ctrs[n].state)
          BY <1>3
        <4>2. n \in Ctrs => to \in States
          BY <1>1, <1>3, <4>1 DEF Acted, Lifecycle, States, CallsFit, EngineFits, CtrRow, StatesOf
        <4>3. ctrs \in [Ctrs -> CtrRow(engine)]
          BY DEF CallsFit, EngineFits
        <4> QED BY <1>3, <3>2, <4>2, <4>3 DEF CtrRow, StatesOf
      <3> QED BY <3>1, <3>2
    <2> HIDE DEF r
    <2>3. CallFits(engine, r)
      BY <1>1, <2>1 DEF CallFits, PlaceFits, WorkFits, BatchFits, DoneFits, StampFits, Stages, Early, Lifecycle
    <2>4. Turns(c, r)
      BY <1>3 DEF r
    <2>5. EngineFits'
      BY <1>3, <2>2 DEF CallsFit, EngineFits
    <2>6. call[c].op.name # "backup"
      BY <1>1 DEF Lifecycle
    <2>7. QuietStep(c)
      BY <1>1, <1>3, <2>1, <2>3, <2>4, <2>5, <2>6, TurnsStep
    <2> QED BY <1>3, <2>7 DEF QuietHost, HostKept, hostVars
  <1> QED BY <1>2, <1>3 DEF ActOnMember

LEMMA EndEachStep ==
  ASSUME CallsFit, NEW c \in Calls, EndEach(c)
  PROVE QuietHost(c)
  <1> DEFINE r == [call[c] EXCEPT !.at = "done", !.code = "ok"]
  <1>1. /\ call[c].at = "each" /\ CallFits(engine, call[c]) /\ call[c].op \in Ops /\ call[c].todo = {}
        /\ call[c].op.name \in Lifecycle /\ call[c].got = call[c].todo \cup call[c].out /\ call[c].got # {}
    BY DEF EndEach, AllActed, CallsFit, CallFits, CallShape, PlaceFits, WorkFits
  <1>2. /\ call' = [call EXCEPT ![c] = r] /\ UNCHANGED <<engine, front, images, ctrs, nets, vols, cache>> /\ HostKept
    BY DEF EndEach, Ends, Answer, Goes, engineVars, hostVars, HostKept
  <1>3. /\ CallShape(r) /\ r.op = call[c].op /\ r.at = "done" /\ r.code = "ok" /\ r.out = r.got /\ r.got # {}
        /\ r.tries = call[c].tries
    BY <1>1 DEF CallFits, CallShape, Codes
  <1>4. EngineFits'
    BY <1>2 DEF CallsFit, EngineFits
  <1> HIDE DEF r
  <1>5. CallFits(engine, r)
    BY <1>1, <1>3 DEF CallFits, PlaceFits, WorkFits, BatchFits, DoneFits, StampFits, Stages, Early, Misled, Lifecycle
  <1>6. QuietTo(c, r)
    BY <1>1, <1>2, <1>3, <1>4, <1>5 DEF QuietTo, Lifecycle
  <1> QED BY <1>2, <1>6 DEF QuietHost, QuietStep

----------------------------------------------------------------------------
(* The demo engine's.                                                      *)

LEMMA DemoAnswer ==
  ASSUME CallsFit, NEW c \in Calls, engine = "demo", call[c].at \in {"members", "meta"},
         NEW code \in {"ok", "error"}, Answer(c, code), host' = host, sudo' = sudo
  PROVE QuietHost(c)
  <1>1. call[c].op.name \in Lifecycle \cup HostOps
    BY DEF CallsFit, CallFits, PlaceFits
  <1>2. QuietStep(c)
    BY <1>1, AnswerStep DEF Codes, Misled, Lifecycle, HostOps, Engined
  <1> QED BY <1>2 DEF QuietHost, HostKept

LEMMA SetStateStep ==
  ASSUME CallsFit, NEW c \in Calls, engine = "demo", call[c].at \in {"members", "meta"}, NEW status,
         SetComposeState(c, status)
  PROVE QuietHost(c)
BY DemoAnswer DEF SetComposeState, Ends, hostVars

LEMMA DemoFilesStep ==
  ASSUME CallsFit, NEW c \in Calls, engine = "demo", call[c].at \in {"members", "meta"}, NEW kept, NEW text,
         DemoFiles(c, kept, text)
  PROVE QuietHost(c)
BY DemoAnswer DEF DemoFiles, Ends, hostVars

----------------------------------------------------------------------------
(* nerdctl's lists of tasks.                                               *)

LEMMA TasksStep ==
  ASSUME CallsFit, NEW c \in Calls, NEW name \in Engined, NEW more, Tasks(c, name, more)
  PROVE QuietHost(c)
  <1> DEFINE todo == ProjectContainers(call[c].found) \cup more
             r == [call[c] EXCEPT !.at = "tasks", !.todo = todo]
  <1>1. call[c].at = "meta" /\ call[c].op.name = name /\ CallFits(engine, call[c])
    BY DEF Tasks, CallsFit
  <1>2. Steps(c, r)
    BY DEF Tasks
  <1> HIDE DEF todo
  <1>3. /\ CallShape(r) /\ r.op = call[c].op /\ r.at = "tasks" /\ r.tries = call[c].tries /\ r.out = call[c].out
        /\ r.did = call[c].did
    BY <1>1 DEF CallFits, CallShape
  <1> HIDE DEF r
  <1>4. CallFits(engine, r)
    BY <1>1, <1>3
    DEF CallFits, PlaceFits, WorkFits, BatchFits, DoneFits, StampFits, Stages, Early, HostOps, Engined
  <1> QED BY <1>1, <1>2, <1>3, <1>4, StepsHost

LEMMA PullsTyped ==
  ASSUME images \in Seq(Row), NEW S
  PROVE PullsFor(S) \subseteq Seq(Row)
  <1>1. ImagesOf(S) \subseteq Tags
    <2>1. \A i \in DOMAIN images : images[i].tags \subseteq Tags
      BY RowAt DEF Row
    <2> QED BY <2>1 DEF ImagesOf
  <1> QED BY <1>1, PulledTyped DEF PullsFor

LEMMA RunTaskStep ==
  ASSUME CallsFit, NEW c \in Calls, RunTask(c)
  PROVE QuietHost(c)
  <1>1. PICK n \in call[c].todo :
          LET left == [call[c] EXCEPT !.todo = @ \ {n}]
              failed == [left EXCEPT !.got = @ \cup {n}]
          IN  \/ /\ TaskDoes(c, n) /\ UNCHANGED <<engine, front, vols, cache, hostVars>>
                 /\ call' = [call EXCEPT ![c] = left] \/ call' = [call EXCEPT ![c] = failed]
              \/ Steps(c, failed)
    BY DEF RunTask
  <1> DEFINE left == [call[c] EXCEPT !.todo = @ \ {n}]
             failed == [left EXCEPT !.got = @ \cup {n}]
  <1>2. call[c].at = "tasks" /\ CallFits(engine, call[c]) /\ call[c].op.name \in HostOps
    BY DEF RunTask, CallsFit, CallFits, PlaceFits
  <1>3. /\ CallShape(left) /\ left.op = call[c].op /\ left.at = "tasks" /\ left.tries = call[c].tries
        /\ left.out = call[c].out /\ left.did = call[c].did
    BY <1>2 DEF CallFits, CallShape
  <1>4. \/ /\ TaskDoes(c, n) /\ UNCHANGED <<engine, front, vols, cache, hostVars>>
           /\ call' = [call EXCEPT ![c] = left] \/ call' = [call EXCEPT ![c] = failed]
        \/ Steps(c, failed)
    BY <1>1
  <1> HIDE DEF left
  <1>5. /\ CallShape(failed) /\ failed.op = left.op /\ failed.at = left.at /\ failed.tries = left.tries
        /\ failed.out = left.out /\ failed.did = left.did
    BY <1>3 DEF CallShape
  <1> HIDE DEF failed
  <1>6. CallFits(engine, left) /\ CallFits(engine, failed)
    BY <1>2, <1>3, <1>5
    DEF CallFits, PlaceFits, WorkFits, BatchFits, DoneFits, StampFits, Stages, Early
  <1>7. CASE Steps(c, failed)
    BY <1>2, <1>3, <1>5, <1>6, <1>7, StepsHost
  <1>8. CASE /\ TaskDoes(c, n) /\ UNCHANGED <<engine, front, vols, cache, hostVars>>
             /\ call' = [call EXCEPT ![c] = left] \/ call' = [call EXCEPT ![c] = failed]
    <2>1. images' \in Seq(Row)
      BY <1>8, PullsTyped DEF TaskDoes, CallsFit, EngineFits
    <2>2. nets' \subseteq Nets
      BY <1>8 DEF TaskDoes, CallsFit, EngineFits
    <2>3. ctrs' \in [Ctrs -> CtrRow(engine)]
      <3>1. ctrs' \in {ctrs, [ctrs EXCEPT ![n].state = "running"], Emptied({n})}
        BY <1>8 DEF TaskDoes
      <3>2. ctrs \in [Ctrs -> CtrRow(engine)]
        BY DEF CallsFit, EngineFits
      <3>3. [ctrs EXCEPT ![n].state = "running"] \in [Ctrs -> CtrRow(engine)]
        BY <3>2 DEF CtrRow, StatesOf, States
      <3> QED BY <3>1, <3>2, <3>3, EmptiedTyped
    <2>4. vols' \subseteq Vols /\ cache' \subseteq Ctrs /\ UNCHANGED <<engine, front, cache>>
      BY <1>8 DEF CallsFit, EngineFits
    <2>5. QuietStep(c)
      BY <1>2, <1>3, <1>5, <1>6, <1>8, <2>1, <2>2, <2>3, <2>4, MoveStep
    <2> QED BY <1>8, <2>5 DEF QuietHost, HostKept, hostVars
  <1> QED BY <1>4, <1>7, <1>8

----------------------------------------------------------------------------
(* Commands on the host.                                                   *)

\* From one place to another of a command on the host.
LEMMA HostMove ==
  ASSUME NEW e, NEW r, CallFits(e, r), r.op \in Ops, NEW q,
         CallShape(q), q.op = r.op, q.tries = r.tries, q.out = r.out, q.did = r.did, q.got = r.got,
         r.at \in {"meta", "probe", "tee", "sudotee"},
         \/ q.at = "create" /\ r.at = "meta" /\ r.op.name = "backup"
         \/ q.at \in {"probe", "remote", "tee", "sudotee"} /\ r.op.name # "backup"
  PROVE CallFits(e, q)
BY DEF CallFits, PlaceFits, WorkFits, BatchFits, DoneFits, StampFits, Stages, Early, HostOps, Engined

LEMMA MetaStep ==
  ASSUME CallsFit, NEW c \in Calls, ComposeProjectMeta(c)
  PROVE QuietHost(c)
  <1>1. /\ call[c].at = "meta" /\ CallFits(engine, call[c]) /\ call[c].op \in Ops
        /\ call[c].op.name \in HostOps \ {"newproject"}
    BY DEF ComposeProjectMeta, CallsFit, CallFits, CallShape, PlaceFits
  <1>2. Ends(c, "error") \/ \E x : Steps(c, [call[c] EXCEPT !.found = x, !.at = AfterMeta(call[c].op.name)])
    BY DEF ComposeProjectMeta
  <1>3. CASE Ends(c, "error")
    BY <1>1, <1>3, FailsHost
  <1>4. ASSUME NEW x, Steps(c, [call[c] EXCEPT !.found = x, !.at = AfterMeta(call[c].op.name)])
        PROVE QuietHost(c)
    <2> DEFINE to == AfterMeta(call[c].op.name)
               r == [call[c] EXCEPT !.found = x, !.at = to]
    <2>1. \/ to = "create" /\ call[c].op.name = "backup"
          \/ to \in {"probe", "tee", "remote"} /\ call[c].op.name # "backup"
      BY DEF AfterMeta, Engined
    <2> HIDE DEF to
    <2>2. /\ CallShape(r) /\ r.op = call[c].op /\ r.at = to /\ r.tries = call[c].tries /\ r.out = call[c].out
          /\ r.did = call[c].did /\ r.got = call[c].got
      BY <1>1, <2>1 DEF CallFits, CallShape
    <2>3. Steps(c, r)
      BY <1>4 DEF to
    <2> HIDE DEF r
    <2>4. CallFits(engine, r)
      BY <1>1, <2>1, <2>2, HostMove
    <2> QED BY <1>1, <2>1, <2>2, <2>3, <2>4, StepsHost
  <1> QED BY <1>2, <1>3, <1>4

LEMMA HostGoes ==
  ASSUME CallsFit, NEW c \in Calls, call[c].at \in {"meta", "probe", "tee", "sudotee"}, call[c].op.name # "backup",
         NEW to \in {"probe", "remote", "tee", "sudotee"}, Goes(c, [call[c] EXCEPT !.at = to])
  PROVE QuietStep(c)
  <1> DEFINE r == [call[c] EXCEPT !.at = to]
  <1>1. CallFits(engine, call[c]) /\ call[c].op \in Ops
    BY DEF CallsFit, CallFits, CallShape
  <1>2. /\ CallShape(r) /\ r.op = call[c].op /\ r.at = to /\ r.tries = call[c].tries /\ r.out = call[c].out
        /\ r.did = call[c].did /\ r.got = call[c].got
    BY <1>1 DEF CallFits, CallShape
  <1>3. Goes(c, r)
    OBVIOUS
  <1> HIDE DEF r
  <1>4. CallFits(engine, r)
    BY <1>1, <1>2, HostMove
  <1> QED BY <1>2, <1>3, <1>4, GoesStep

LEMMA NewProjectStep ==
  ASSUME CallsFit, NEW c \in Calls, CreateComposeFile(c)
  PROVE QuietHost(c)
  <1>1. call[c].at = "meta" /\ call[c].op.name = "newproject"
    BY DEF CreateComposeFile
  <1>2. Ends(c, "error") \/ Steps(c, [call[c] EXCEPT !.at = "tee"])
    BY DEF CreateComposeFile
  <1>3. CASE Ends(c, "error")
    BY <1>1, <1>3, FailsHost
  <1>4. CASE Steps(c, [call[c] EXCEPT !.at = "tee"])
    BY <1>1, <1>4, HostGoes DEF Steps, QuietHost, HostKept, hostVars
  <1> QED BY <1>2, <1>3, <1>4

\* A host that turned a plain command down is never taken for one that needs
\* no sudo.
LEMMA ProbeStep ==
  ASSUME CallsFit, NEW c \in Calls, ProbeSudo(c)
  PROVE QuietHost(c)
  <1>1. call[c].at = "probe" /\ call[c].op.name # "backup"
    BY DEF ProbeSudo, CallsFit, CallFits, PlaceFits
  <1>2. QuietStep(c)
    BY <1>1, HostGoes DEF ProbeSudo
  <1>3. sudo' = sudo \/ (sudo' = "no" => Plain)
    <2>1. PICK plain \in {FALSE, Plain}, sudoRan \in BOOLEAN :
            sudo' = IF sudo = "unknown" THEN Verdict(plain, sudoRan) ELSE sudo
      BY DEF ProbeSudo
    <2>2. Verdict(plain, sudoRan) = "no" => plain
      BY DEF Verdict
    <2>3. plain => Plain
      BY <2>1
    <2> QED BY <2>1, <2>2, <2>3
  <1> QED BY <1>2, <1>3 DEF QuietHost, HostKept, ProbeSudo

LEMMA RemoteStep ==
  ASSUME CallsFit, NEW c \in Calls, RunRemote(c)
  PROVE QuietHost(c)
  <1> DEFINE here == {n \in Members : ctrs[n].dir = call[c].found}
             up == [n \in Ctrs |-> IF n \in here THEN [ctrs[n] EXCEPT !.state = "running"] ELSE ctrs[n]]
  <1>1. call[c].at = "remote" /\ call[c].op.name \in HostOps \ {"backup"}
    BY DEF RunRemote, CallsFit, CallFits, PlaceFits
  <1>2. \/ Ends(c, "error")
        \/ /\ ctrs' \in {up, Emptied(here), Emptied(Members), ctrs} /\ images' \in PullsFor(here) \cup {images}
           /\ Changed(c, "remote") /\ UNCHANGED <<nets, vols, hostVars>>
    BY DEF RunRemote
  <1>3. CASE Ends(c, "error")
    BY <1>1, <1>3, FailsHost
  <1>4. CASE /\ ctrs' \in {up, Emptied(here), Emptied(Members), ctrs} /\ images' \in PullsFor(here) \cup {images}
             /\ Changed(c, "remote") /\ UNCHANGED <<nets, vols, hostVars>>
    <2>1. up \in [Ctrs -> CtrRow(engine)]
      <3> HIDE DEF here
      <3> QED BY DEF CallsFit, EngineFits, CtrRow, StatesOf, States
    <2> HIDE DEF up, here
    <2>2. ctrs' \in [Ctrs -> CtrRow(engine)] /\ images' \in Seq(Row)
      BY <1>4, <2>1, EmptiedTyped, PullsTyped DEF CallsFit, EngineFits
    <2>3. QuietStep(c)
      BY <1>1, <1>4, <2>2, ChangedStep DEF CallsFit, EngineFits, HostOps, Engined, Lifecycle
    <2> QED BY <1>4, <2>3 DEF QuietHost, HostKept, hostVars
  <1> QED BY <1>2, <1>3, <1>4

LEMMA WriteStep ==
  ASSUME CallsFit, NEW c \in Calls, WriteFile(c)
  PROVE QuietHost(c)
  <1>1. /\ call[c].at \in {"tee", "sudotee"} /\ call[c].op.name \in HostOps \ {"backup"}
        /\ HostKept
    BY DEF WriteFile, HostKept, CallsFit, CallFits, PlaceFits
  <1>2. \/ \E to \in {"probe", "sudotee"} : Goes(c, [call[c] EXCEPT !.at = to])
        \/ Goes(c, Did(c, "write"))
        \/ Fails(c)
    BY DEF WriteFile, Fails, Answer
  <1>3. CASE \E to \in {"probe", "sudotee"} : Goes(c, [call[c] EXCEPT !.at = to])
    BY <1>1, <1>3, HostGoes DEF QuietHost
  <1>4. CASE Goes(c, Did(c, "write"))
    <2>1. Changed(c, "write") /\ UNCHANGED <<images, ctrs, nets, vols>>
      BY <1>4 DEF Goes, Changed, Turns, engineVars
    <2> QED BY <1>1, <2>1, ChangedStep DEF QuietHost, CallsFit, EngineFits, HostOps, Engined, Lifecycle
  <1>5. CASE Fails(c)
    BY <1>1, <1>5, FailsStep DEF QuietHost
  <1> QED BY <1>2, <1>3, <1>4, <1>5

----------------------------------------------------------------------------
(* Backups.                                                                *)

\* A step of a backup c to r: an archive is begun, or cannot be; or it ends,
\* whole, removed, or left behind.
Saved(r) == r.at = "done" /\ r.code = "ok"
SaveTo(c, r) ==
  /\ CallFits(engine, r) /\ r.op = call[c].op /\ r.op.name = "backup"
  /\ \/ /\ call[c].at = "create" /\ r.did = call[c].did /\ (call[c].tries # 0 => r.round = call[c].round)
        /\ \/ r.at = "tar" /\ archive' = [archive EXCEPT ![r.round] = "part"]
           \/ r.at \in {"create", "done"} /\ ~Saved(r) /\ archive' = archive
     \/ /\ call[c].at = "tar" /\ r.at \in {"create", "done"} /\ r.round = call[c].round
        /\ \/ Saved(r) /\ archive' = [archive EXCEPT ![r.round] = "whole"]
           \/ ~Saved(r) /\ archive' = [archive EXCEPT ![r.round] = "none"]
           \/ ~Saved(r) /\ "left" \in r.did /\ archive' = [archive EXCEPT ![r.round] = "part"]
  /\ call' = [call EXCEPT ![c] = r]
  /\ UNCHANGED <<engine, front, images, ctrs, nets, vols, cache, host, sudo>>
SaveStep(c) == \E r : SaveTo(c, r)

LEMMA FailedFits ==
  ASSUME NEW e, NEW r, CallShape(r), r.op \in Ops, r.op.name = "backup", r.tries \in {1, 2}, r.round \in Stamps
  PROVE LET q == Failed(r)
        IN  /\ CallFits(e, q) /\ q.op = r.op /\ q.at \in {"create", "done"} /\ ~Saved(q)
            /\ q.did = r.did /\ q.round = r.round
  <1> DEFINE p == [r EXCEPT !.at = "create"]
             q == [r EXCEPT !.at = "done", !.code = "error"]
  <1>1. /\ CallShape(p) /\ p.op = r.op /\ p.at = "create" /\ p.did = r.did /\ p.round = r.round /\ p.tries = r.tries
        /\ CallShape(q) /\ q.op = r.op /\ q.at = "done" /\ q.did = r.did /\ q.round = r.round /\ q.code = "error"
    BY DEF CallShape, Codes
  <1>2. Failed(r) = IF r.tries = 1 THEN p ELSE q
    BY DEF Failed
  <1> HIDE DEF p, q
  <1>3. CallFits(e, q) /\ (r.tries = 1 => CallFits(e, p))
    BY <1>1 DEF CallFits, PlaceFits, WorkFits, BatchFits, DoneFits, StampFits, Stages, Early, Misled, Lifecycle
  <1> QED BY <1>1, <1>2, <1>3 DEF Saved

LEMMA CreateArchiveStep ==
  ASSUME CallsFit, NEW c \in Calls, CreateArchive(c)
  PROVE SaveStep(c)
  <1>1. /\ call[c].at = "create" /\ CallFits(engine, call[c]) /\ call[c].op \in Ops /\ call[c].op.name = "backup"
        /\ call[c].tries \in 0..1
        /\ call[c].tries # 0 => call[c].round \in Stamps
    BY DEF CreateArchive, CallsFit, CallFits, CallShape, PlaceFits, WorkFits, StampFits
  <1>2. PICK s \in IF call[c].tries = 0 THEN Stamps ELSE {call[c].round} :
          LET tried == [call[c] EXCEPT !.round = s, !.tries = @ + 1]
          IN  \/ archive' = [archive EXCEPT ![s] = "part"] /\ Goes(c, [tried EXCEPT !.at = "tar"])
              \/ UNCHANGED archive /\ Goes(c, Failed(tried))
    BY DEF CreateArchive
  <1> DEFINE tried == [call[c] EXCEPT !.round = s, !.tries = @ + 1]
             r == [tried EXCEPT !.at = "tar"]
             q == Failed(tried)
  <1>3. s \in Stamps /\ (call[c].tries # 0 => s = call[c].round)
    BY <1>1, <1>2
  <1>4. /\ CallShape(tried) /\ tried.op = call[c].op /\ tried.did = call[c].did /\ tried.round = s
        /\ tried.tries \in {1, 2}
    <2>1. call[c].tries + 1 \in {1, 2} /\ call[c].tries + 1 \in 0..2
      BY <1>1
    <2>2. CallShape(call[c]) /\ call[c].at # "idle"
      BY <1>1 DEF CallFits
    <2>3. /\ tried.op = call[c].op /\ tried.at = call[c].at /\ tried.found = call[c].found /\ tried.did = call[c].did
          /\ tried.code = call[c].code /\ tried.tries = call[c].tries + 1 /\ tried.round = s
      BY <2>2 DEF CallShape
    <2>4. CallShape(tried)
      BY <1>1, <2>1, <2>2, <2>3 DEF CallShape
    <2> QED BY <2>1, <2>3, <2>4
  <1>5. \/ archive' = [archive EXCEPT ![s] = "part"] /\ Goes(c, r)
        \/ archive' = archive /\ Goes(c, q)
    BY <1>2
  <1> HIDE DEF tried
  <1>6. CallShape(r) /\ r.op = call[c].op /\ r.at = "tar" /\ r.round = s /\ r.did = call[c].did /\ r.tries # 0
    BY <1>1, <1>4 DEF CallShape
  <1> HIDE DEF r
  <1>7. CallFits(engine, r)
    BY <1>1, <1>3, <1>6 DEF CallFits, PlaceFits, WorkFits, BatchFits, DoneFits, StampFits, Stages, Early
  <1>8. CallFits(engine, q) /\ q.op = call[c].op /\ q.at \in {"create", "done"} /\ ~Saved(q) /\ q.did = call[c].did /\ q.round = s
    BY <1>1, <1>3, <1>4, FailedFits
  <1> HIDE DEF q
  <1>9. SaveTo(c, r) \/ SaveTo(c, q)
    BY <1>1, <1>3, <1>5, <1>6, <1>7, <1>8 DEF SaveTo, CreateArchive, Goes, engineVars
  <1> QED BY <1>9 DEF SaveStep

LEMMA ArchiveEndsStep ==
  ASSUME CallsFit, NEW c \in Calls, ArchiveEnds(c)
  PROVE SaveStep(c)
  <1>1. /\ call[c].at = "tar" /\ CallFits(engine, call[c]) /\ call[c].op \in Ops /\ call[c].op.name = "backup"
        /\ call[c].round \in Stamps /\ call[c].tries \in {1, 2}
    BY DEF ArchiveEnds, CallsFit, CallFits, CallShape, PlaceFits, WorkFits, StampFits
  <1>2. PICK end \in {"ok", "failed", "stuck", "unclosed"} :
          /\ archive' = [archive EXCEPT ![call[c].round] = Kept(end)]
          /\ Goes(c, IF end = "ok" THEN [call[c] EXCEPT !.at = "done", !.code = "ok"]
                     ELSE Failed([call[c] EXCEPT !.did = IF end = "failed" THEN @ ELSE {"left"}]))
    BY DEF ArchiveEnds
  <1> DEFINE good == [call[c] EXCEPT !.at = "done", !.code = "ok"]
             kept == [call[c] EXCEPT !.did = IF end = "failed" THEN @ ELSE {"left"}]
             bad == Failed(kept)
  <1>3. UNCHANGED <<host, sudo>>
    BY DEF ArchiveEnds
  <1>4. /\ CallShape(good) /\ good.op = call[c].op /\ good.at = "done" /\ good.code = "ok"
        /\ good.round = call[c].round /\ good.tries = call[c].tries
    BY <1>1 DEF CallFits, CallShape, Codes
  <1>5. /\ CallShape(kept) /\ kept.op = call[c].op /\ kept.tries = call[c].tries /\ kept.round = call[c].round
        /\ (end # "failed" => "left" \in kept.did)
    BY <1>1 DEF CallFits, CallShape
  <1>6. \/ archive' = [archive EXCEPT ![call[c].round] = "whole"] /\ Goes(c, good)
        \/ archive' = [archive EXCEPT ![call[c].round] = "none"] /\ Goes(c, bad)
        \/ archive' = [archive EXCEPT ![call[c].round] = "part"] /\ Goes(c, bad) /\ "left" \in kept.did
    BY <1>2, <1>5 DEF Kept
  <1> HIDE DEF good, kept
  <1>7. CallFits(engine, good)
    BY <1>1, <1>4 DEF CallFits, PlaceFits, WorkFits, BatchFits, DoneFits, StampFits, Stages, Early, Misled, Lifecycle
  <1>8. CallFits(engine, bad) /\ bad.op = call[c].op /\ bad.at \in {"create", "done"} /\ ~Saved(bad)
        /\ bad.did = kept.did /\ bad.round = call[c].round
    BY <1>1, <1>5, FailedFits
  <1> HIDE DEF bad
  <1>9. SaveTo(c, good) \/ SaveTo(c, bad)
    BY <1>1, <1>3, <1>4, <1>6, <1>7, <1>8 DEF SaveTo, Saved, Goes, engineVars
  <1> QED BY <1>9 DEF SaveStep

----------------------------------------------------------------------------
(* All of it: the steps, and what they keep.                               *)

LEMMA ProjectSteps ==
  ASSUME CallsFit, NEW c \in Calls, Step(c), ~(ObjectStep(c) /\ UNCHANGED hostVars)
  PROVE QuietHost(c) \/ SaveStep(c)
  <1>1. CASE ComposeStreamOp(c)
    <2>1. Resolve(c, Engined, SupportsHostCompose, "meta") /\ SupportsHostCompose \in BOOLEAN
      BY <1>1 DEF ComposeStreamOp, SupportsHostCompose
    <2> QED BY <2>1, ResolveStep DEF HostOps, Engined
  <1>2. CASE ComposeConfigOp(c)
    <2>1. Resolve(c, {"config"}, SupportsHostCompose, "meta") /\ SupportsHostCompose \in BOOLEAN
      BY <1>2 DEF ComposeConfigOp, SupportsHostCompose
    <2> QED BY <2>1, ResolveStep DEF HostOps, Engined
  <1>3. CASE ComposeBackupOp(c)
    <2>1. Resolve(c, {"backup"}, SupportsHostCompose, "meta") /\ SupportsHostCompose \in BOOLEAN
      BY <1>3 DEF ComposeBackupOp, SupportsHostCompose
    <2> QED BY <2>1, ResolveStep DEF HostOps, Engined
  <1>4. CASE ComposeRestartOp(c)
    <2>1. Resolve(c, {"restart"}, TRUE, "members") /\ TRUE \in BOOLEAN
      BY <1>4 DEF ComposeRestartOp
    <2> QED BY <2>1, ResolveStep DEF Lifecycle
  <1>5. CASE ComposeForEach(c)
    BY <1>5, ListMembersStep DEF ComposeForEach
  <1>6. CASE NerdctlForEach(c)
    BY <1>6, ListMembersStep DEF NerdctlForEach
  <1>7. CASE ActOnMember(c)
    BY <1>7, ActOnMemberStep
  <1>8. CASE EndEach(c)
    BY <1>8, EndEachStep
  <1>9. CASE CriCompose(c)
    <2>1. call[c].at \in {"members", "meta"} /\ Ends(c, "unsupported") /\ call[c].did = {}
      BY <1>9 DEF CriCompose, CallsFit, CallFits, WorkFits, Early
    <2> QED BY <2>1, EndsHost DEF Codes
  <1>10. CASE DemoLifecycle(c)
    BY <1>10, SetStateStep DEF DemoLifecycle, Demo
  <1>11. CASE DemoRemoveProject(c)
    BY <1>11, SetStateStep DEF DemoRemoveProject, Demo
  <1>12. CASE DemoUp(c)
    BY <1>12, SetStateStep DEF DemoUp, Demo
  <1>13. CASE DemoDown(c)
    BY <1>13, SetStateStep DEF DemoDown, Demo
  <1>14. CASE DemoCreate(c)
    BY <1>14, DemoAnswer DEF DemoCreate, Demo
  <1>15. CASE DemoPullProject(c)
    BY <1>15, DemoFilesStep DEF DemoPullProject, Demo
  <1>16. CASE DemoConfig(c)
    BY <1>16, DemoFilesStep DEF DemoConfig, Demo
  <1>17. CASE DemoRead(c)
    BY <1>17, DemoFilesStep DEF DemoRead, Demo
  <1>18. CASE DemoWrite(c)
    BY <1>18, DemoFilesStep DEF DemoWrite, Demo
  <1>19. CASE DemoBackup(c)
    BY <1>19, DemoFilesStep DEF DemoBackup, Demo
  <1>20. CASE NerdctlUp(c)
    BY <1>20, TasksStep DEF NerdctlUp, Engined
  <1>21. CASE NerdctlPullProject(c)
    BY <1>21, TasksStep DEF NerdctlPullProject, Engined
  <1>22. CASE NerdctlDown(c)
    BY <1>22, TasksStep DEF NerdctlDown, Engined
  <1>23. CASE NerdctlFiles(c)
    BY <1>23, FailsHost DEF NerdctlFiles
  <1>24. CASE RunTask(c)
    BY <1>24, RunTaskStep
  <1>25. CASE EndTasks(c)
    <2>1. call[c].at = "tasks" /\ call[c].op.name \in HostOps \ {"backup"} /\ Ends(c, "ok")
      BY <1>25 DEF EndTasks, TasksEnd, CallsFit, CallFits, PlaceFits
    <2> QED BY <2>1, EndsHost DEF Codes, Misled, HostOps, Engined, Lifecycle
  <1>26. CASE ComposeProjectMeta(c)
    BY <1>26, MetaStep
  <1>27. CASE CreateComposeFile(c)
    BY <1>27, NewProjectStep
  <1>28. CASE ProbeSudo(c)
    BY <1>28, ProbeStep
  <1>29. CASE RunRemote(c)
    BY <1>29, RemoteStep
  <1>30. CASE CreateArchive(c)
    BY <1>30, CreateArchiveStep
  <1>31. CASE ArchiveEnds(c)
    BY <1>31, ArchiveEndsStep
  <1>32. CASE WriteFile(c)
    BY <1>32, WriteStep
  <1>33. CASE OpDone(c)
    <2>1. call[c].at = "tasks" /\ Ends(c, "shown")
      BY <1>33 DEF OpDone, TasksEnd
    <2> QED BY <2>1, EndsHost DEF Codes, Misled
  <1> QED
    BY <1>1, <1>2, <1>3, <1>4, <1>5, <1>6, <1>7, <1>8, <1>9, <1>10, <1>11, <1>12, <1>13, <1>14, <1>15, <1>16, <1>17, <1>18, <1>19, <1>20, <1>21, <1>22, <1>23, <1>24, <1>25, <1>26, <1>27, <1>28, <1>29, <1>30, <1>31, <1>32, <1>33 DEF Step

\* The samples docker's backend keeps while no batch is under way.
CacheFits ==
  engine = "docker" /\ cache # {} =>
    \E c \in Calls : \/ call[c].at = "batch"
                     \/ /\ call[c].at \in {"window", "done"} /\ call[c].op.name = "stats"
                        /\ call[c].round > 0 /\ cache \subseteq call[c].found

\* The archives on disk, as the one backup there is knows them.
Backing(c) == call[c].op # None /\ call[c].op.name = "backup"
NoArchive == \A s \in Stamps : archive[s] = "none"
SavedBy(r) ==
  /\ \A s \in Stamps \ {r.round} : archive[s] = "none"
  /\ Saved(r) => archive[r.round] = "whole"
  /\ r.at # "tar" /\ ~Saved(r) => "left" \in r.did \/ NoArchive
ArchiveFits ==
  engine = "docker" =>
    /\ archive = [s \in Stamps |-> archive[s]]
    /\ (\A c \in Calls : ~Backing(c)) => NoArchive
    /\ \A c \in Calls : Backing(c) /\ (\A k \in Calls \ {c} : ~Backing(k)) => SavedBy(call[c])

ProjectsInv == CallsFit /\ CacheFits /\ ArchiveFits /\ SudoRight

\* One call changes, the others stay.
LEMMA OneCall ==
  ASSUME CallsFit, NEW c \in Calls, NEW r, CallFits(engine, r), call' = [call EXCEPT ![c] = r],
         engine' = engine, EngineFits'
  PROVE CallsFit' /\ call'[c] = r /\ \A k \in Calls \ {c} : call'[k] = call[k]
  <1>1. call'[c] = r /\ \A k \in Calls \ {c} : call'[k] = call[k]
    BY DEF CallsFit
  <1>2. call' = [k \in Calls |-> call'[k]]
    BY DEF CallsFit
  <1>3. \A k \in Calls : CallFits(engine', call'[k])
    BY <1>1 DEF CallsFit
  <1> QED BY <1>1, <1>2, <1>3 DEF CallsFit

LEMMA QuietKeeps ==
  ASSUME ProjectsInv, NEW c \in Calls, QuietHost(c)
  PROVE ProjectsInv'
  <1>1. PICK r : QuietTo(c, r)
    BY DEF QuietHost, QuietStep
  <1>2. CallsFit' /\ call'[c] = r /\ \A k \in Calls \ {c} : call'[k] = call[k]
    BY <1>1, OneCall DEF QuietTo, ProjectsInv
  <1>3. CacheFits'
    <2> SUFFICES ASSUME engine = "docker", cache # {} PROVE CacheFits'
      BY <1>1 DEF CacheFits, QuietTo
    <2>1. PICK k \in Calls : \/ call[k].at = "batch"
                             \/ /\ call[k].at \in {"window", "done"} /\ call[k].op.name = "stats"
                                /\ call[k].round > 0 /\ cache \subseteq call[k].found
      BY DEF ProjectsInv, CacheFits
    <2>2. k # c /\ cache' = cache
      BY <1>1, <2>1 DEF QuietTo
    <2> QED BY <1>2, <2>1, <2>2 DEF CacheFits
  <1>4. ArchiveFits'
    <2> SUFFICES ASSUME engine = "docker" PROVE ArchiveFits'
      BY <1>1 DEF ArchiveFits, QuietTo
    <2>1. archive' = archive /\ engine' = engine
      BY <1>1 DEF QuietHost, HostKept, QuietTo
    <2>2. \A k \in Calls : Backing(k)' <=> Backing(k)
      BY <1>1, <1>2 DEF Backing, QuietTo
    <2>3. Backing(c) /\ SavedBy(call[c]) => SavedBy(r)'
      BY <1>1, <2>1 DEF SavedBy, Saved, NoArchive, QuietTo, Backing
    <2>4. \A k \in Calls : Backing(k) /\ SavedBy(call[k]) => SavedBy(call[k])'
      <3>1. ASSUME NEW k \in Calls \ {c} PROVE SavedBy(call[k]) => SavedBy(call[k])'
        BY <1>2, <2>1 DEF SavedBy, Saved, NoArchive
      <3> QED BY <1>2, <2>3, <3>1
    <2>5. NoArchive => NoArchive'
      BY <2>1 DEF NoArchive
    <2> QED BY <2>1, <2>2, <2>4, <2>5 DEF ProjectsInv, ArchiveFits
  <1>5. SudoRight'
    BY DEF QuietHost, HostKept, ProjectsInv, SudoRight, Plain
  <1> QED BY <1>2, <1>3, <1>4, <1>5 DEF ProjectsInv

LEMMA SampleKeeps ==
  ASSUME ProjectsInv, NEW c \in Calls, SampleStep(c), UNCHANGED hostVars
  PROVE ProjectsInv'
  <1>1. PICK r : SampleTo(c, r)
    BY DEF SampleStep
  <1>2. CallsFit' /\ call'[c] = r /\ \A k \in Calls \ {c} : call'[k] = call[k]
    BY <1>1, OneCall DEF SampleTo, ProjectsInv
  <1>3. CacheFits'
    <2>1. CASE r.at = "batch" \/ (r.at \in {"window", "done"} /\ r.round > 0 /\ cache' \subseteq r.found)
      BY <1>1, <1>2, <2>1 DEF SampleTo, CacheFits
    <2>2. CASE /\ cache' = cache /\ call[c].at = "window" /\ r.at = "done" /\ r.round = call[c].round
               /\ r.found = call[c].found
      BY <1>1, <1>2, <2>2 DEF SampleTo, CacheFits, ProjectsInv
    <2> QED BY <1>1, <2>1, <2>2 DEF SampleTo
  <1>4. ArchiveFits'
    <2>1. archive' = archive /\ engine' = engine /\ ~Backing(c)
      BY <1>1 DEF SampleTo, hostVars, Backing
    <2>2. \A k \in Calls : Backing(k)' <=> Backing(k)
      BY <1>1, <1>2 DEF Backing, SampleTo
    <2>3. \A k \in Calls \ {c} : SavedBy(call[k]) => SavedBy(call[k])'
      BY <1>2, <2>1 DEF SavedBy, Saved, NoArchive
    <2>4. NoArchive => NoArchive'
      BY <2>1 DEF NoArchive
    <2> QED BY <2>1, <2>2, <2>3, <2>4 DEF ProjectsInv, ArchiveFits
  <1>5. SudoRight'
    BY DEF hostVars, ProjectsInv, SudoRight, Plain
  <1> QED BY <1>2, <1>3, <1>4, <1>5 DEF ProjectsInv

LEMMA SaveKeeps ==
  ASSUME ProjectsInv, NEW c \in Calls, SaveStep(c)
  PROVE ProjectsInv'
  <1>1. PICK r : SaveTo(c, r)
    BY DEF SaveStep
  <1>2. EngineFits'
    BY <1>1 DEF SaveTo, ProjectsInv, CallsFit, EngineFits
  <1>3. CallsFit' /\ call'[c] = r /\ \A k \in Calls \ {c} : call'[k] = call[k]
    BY <1>1, <1>2, OneCall DEF SaveTo, ProjectsInv
  <1>4. CacheFits'
    <2> SUFFICES ASSUME engine = "docker", cache # {} PROVE CacheFits'
      BY <1>1 DEF CacheFits, SaveTo
    <2>1. PICK k \in Calls : \/ call[k].at = "batch"
                             \/ /\ call[k].at \in {"window", "done"} /\ call[k].op.name = "stats"
                                /\ call[k].round > 0 /\ cache \subseteq call[k].found
      BY DEF ProjectsInv, CacheFits
    <2>2. k # c /\ cache' = cache
      BY <1>1, <2>1 DEF SaveTo
    <2> QED BY <1>3, <2>1, <2>2 DEF CacheFits
  <1>5. ArchiveFits'
    <2> SUFFICES ASSUME engine = "docker" PROVE ArchiveFits'
      BY <1>1 DEF ArchiveFits, SaveTo
    <2>1. /\ engine' = engine /\ archive = [s \in Stamps |-> archive[s]]
          /\ \A k \in Calls : Backing(k)' <=> Backing(k)
      BY <1>1, <1>3 DEF Backing, SaveTo, ProjectsInv, ArchiveFits
    <2>2. Backing(c)
      BY <1>1, ProjectsAssumption DEF SaveTo, Backing, CallFits, CallShape, Idle
    <2>3. archive' = [s \in Stamps |-> archive'[s]]
      BY <1>1, <2>1 DEF SaveTo
    <2>4. (\A k \in Calls \ {c} : ~Backing(k)) => SavedBy(r)'
      <3> SUFFICES ASSUME SavedBy(call[c]) PROVE SavedBy(r)'
        BY <2>2 DEF ProjectsInv, ArchiveFits
      <3>1. CASE call[c].at = "create"
        <4>1. \A s \in Stamps \ {r.round} : archive[s] = "none"
          <5>1. CASE call[c].tries = 0
            <6>1. call[c].did = {}
              BY <3>1, <5>1 DEF ProjectsInv, CallsFit, CallFits, WorkFits
            <6> QED BY <3>1, <6>1 DEF SavedBy, Saved, NoArchive
          <5>2. CASE call[c].tries # 0
            BY <1>1, <3>1, <5>2 DEF SaveTo, SavedBy
          <5> QED BY <5>1, <5>2
        <4>2. CASE r.at = "tar" /\ archive' = [archive EXCEPT ![r.round] = "part"]
          <5>1. \A s \in Stamps \ {r.round} : archive'[s] = "none"
            BY <2>1, <4>1, <4>2
          <5> QED BY <4>2, <5>1 DEF SavedBy, Saved
        <4>3. CASE ~Saved(r) /\ archive' = archive
          BY <1>1, <3>1, <4>1, <4>3 DEF SaveTo, SavedBy, Saved, NoArchive
        <4> QED BY <1>1, <3>1, <4>2, <4>3 DEF SaveTo
      <3>2. CASE call[c].at = "tar"
        <4>1. r.round = call[c].round /\ r.round \in Stamps /\ r.at # "tar"
          BY <1>1, <3>2 DEF SaveTo, ProjectsInv, CallsFit, CallFits, StampFits
        <4>2. PICK kept \in {"whole", "none", "part"} :
                /\ archive' = [archive EXCEPT ![r.round] = kept]
                /\ Saved(r) => kept = "whole"
                /\ ~Saved(r) => kept = "none" \/ "left" \in r.did
          BY <1>1, <3>2 DEF SaveTo
        <4>3. archive'[r.round] = kept /\ \A s \in Stamps \ {r.round} : archive'[s] = "none"
          BY <2>1, <4>1, <4>2 DEF SavedBy
        <4> QED BY <4>1, <4>2, <4>3 DEF SavedBy, Saved, NoArchive
      <3> QED BY <1>1, <3>1, <3>2 DEF SaveTo
    <2> QED BY <1>3, <2>1, <2>2, <2>3, <2>4 DEF ArchiveFits
  <1>6. SudoRight'
    BY <1>1 DEF SaveTo, ProjectsInv, SudoRight, Plain
  <1> QED BY <1>3, <1>4, <1>5, <1>6 DEF ProjectsInv

\* A call that is made.
SubmitTo(c, r) ==
  /\ CallFits(engine, r) /\ call[c].at = "idle" /\ r.op \in Ops
  /\ r.op.name = "backup" => r.at \in {"resolve", "meta"}
  /\ call' = [call EXCEPT ![c] = r]
  /\ UNCHANGED <<engine, front, images, ctrs, nets, vols, cache, hostVars>>

\* A call begins with nothing done.
FreshCall(r, op, at) ==
  /\ CallShape(r) /\ r.op = op /\ r.at = at /\ r.did = {} /\ r.tries = 0 /\ r.out = {} /\ r.got = {} /\ r.code = "none"

LEMMA FreshCalls ==
  ASSUME NEW op \in Ops, NEW at, at # "idle", NEW found
  PROVE /\ FreshCall([Idle EXCEPT !.op = op, !.at = at], op, at)
        /\ FreshCall([Idle EXCEPT !.op = op, !.found = found, !.at = at], op, at)
  <1>1. /\ CallShape(Idle) /\ Idle.code = "none" /\ Idle.tries = 0 /\ Idle.did = {} /\ Idle.out = {} /\ Idle.got = {}
    BY DEF Idle, CallShape, Codes
  <1>2. FreshCall([Idle EXCEPT !.op = op, !.at = at], op, at)
    BY <1>1 DEF CallShape, FreshCall
  <1>3. FreshCall([Idle EXCEPT !.op = op, !.found = found, !.at = at], op, at)
    BY <1>1 DEF CallShape, FreshCall
  <1> QED BY <1>2, <1>3

LEMMA NewCall ==
  ASSUME NEW e, NEW op \in Ops, NEW at \in Early \cup {"containers"}, NEW r, FreshCall(r, op, at),
         at = "asked" => op.name \in Sweeps, at = "containers" => op.name = "sysprune", at = "list" => op.name = "stats",
         at = "members" => op.name \in Lifecycle, at = "meta" => op.name \in HostOps
  PROVE CallFits(e, r) /\ r.op = op /\ r.at = at
BY DEF FreshCall, CallFits, PlaceFits, WorkFits, BatchFits, DoneFits, StampFits, Stages, Early

LEMMA SubmitObject ==
  ASSUME CallsFit, NEW c \in Calls, Submit(c), UNCHANGED hostVars
  PROVE \E r : SubmitTo(c, r)
  <1>1. PICK op \in AgentOps \cup InterfaceOps : MaySubmit(c) /\ Goes(c, [Idle EXCEPT !.op = op, !.at = Begins(op)])
    BY DEF Submit
  <1>2. op \in Ops /\ op.name # "backup"
    <2>1. op \in Ops
      BY <1>1 DEF Ops
    <2>2. op.name # "backup"
      BY <1>1 DEF AgentOps, InterfaceOps, Op, Sweeps
    <2> QED BY <2>1, <2>2
  <1>3. /\ Begins(op) \in {"asked", "lookup", "list", "containers", "act"}
        /\ Begins(op) = "asked" => op.name \in Sweeps
        /\ Begins(op) = "containers" => op.name = "sysprune"
        /\ Begins(op) = "list" => op.name = "stats"
    BY DEF Begins, Handled
  <1> DEFINE r == [Idle EXCEPT !.op = op, !.at = Begins(op)]
  <1>4. CallFits(engine, r) /\ r.op = op /\ r.at = Begins(op)
    <2> DEFINE at == Begins(op)
    <2>1. at \in Early \cup {"containers"} /\ at # "members" /\ at # "meta"
      BY <1>3 DEF Early
    <2>2. /\ at = "asked" => op.name \in Sweeps
          /\ (at = "containers" => op.name = "sysprune") /\ (at = "list" => op.name = "stats")
      BY <1>3
    <2>3. FreshCall(r, op, at)
      BY <1>2, <1>3, FreshCalls
    <2> HIDE DEF at, r
    <2>4. CallFits(engine, r) /\ r.op = op /\ r.at = at
      BY <1>2, <2>1, <2>2, <2>3, NewCall
    <2> QED BY <2>4 DEF at
  <1>5. Goes(c, r)
    BY <1>1
  <1> HIDE DEF r
  <1>6. SubmitTo(c, r)
    BY <1>1, <1>2, <1>4, <1>5 DEF SubmitTo, Goes, engineVars, MaySubmit
  <1> QED BY <1>6

LEMMA SubmitCompose ==
  ASSUME CallsFit, NEW c \in Calls, SubmitProject(c)
  PROVE \E r : SubmitTo(c, r)
  <1>1. CASE \E op \in AgentProjectOps : Steps(c, [Idle EXCEPT !.op = op, !.at = "resolve"])
    <2>1. PICK op \in AgentProjectOps : Steps(c, [Idle EXCEPT !.op = op, !.at = "resolve"])
      BY <1>1
    <2> DEFINE r == [Idle EXCEPT !.op = op, !.at = "resolve"]
    <2>2. CallFits(engine, r) /\ r.op = op /\ r.at = "resolve" /\ op \in Ops
      <3>1. op \in Ops /\ "resolve" \in Early
        BY DEF Ops, Early
      <3>2. FreshCall(r, op, "resolve")
        BY <3>1, FreshCalls
      <3> HIDE DEF r
      <3> QED BY <3>1, <3>2, NewCall
    <2>3. Steps(c, r)
      BY <2>1
    <2> HIDE DEF r
    <2>4. SubmitTo(c, r)
      BY <2>2, <2>3 DEF SubmitTo, Steps, Goes, engineVars, SubmitProject, MaySubmit
    <2> QED BY <2>4
  <1>2. CASE \E op \in InterfaceProjectOps :
                Steps(c, [Idle EXCEPT !.op = op, !.found = op.ref, !.at = IF op.name \in Lifecycle THEN "members" ELSE "meta"])
    <2>1. PICK op \in InterfaceProjectOps :
                Steps(c, [Idle EXCEPT !.op = op, !.found = op.ref, !.at = IF op.name \in Lifecycle THEN "members" ELSE "meta"])
      BY <1>2
    <2> DEFINE at == IF op.name \in Lifecycle THEN "members" ELSE "meta"
               r == [Idle EXCEPT !.op = op, !.found = op.ref, !.at = at]
    <2>2. op \in Ops /\ op.name \in Lifecycle \cup HostOps
      <3>1. op \in Ops
        BY <2>1 DEF Ops
      <3>2. CASE op \in {Op(n, "shop", None, FALSE) : n \in (Lifecycle \ {"restart"}) \cup {"down"}}
        BY <3>1, <3>2 DEF Op, HostOps, Engined
      <3>3. CASE op \in {Op(n, "/srv", None, FALSE) : n \in {"rmproject", "up", "backup", "read", "write", "newproject"}}
        BY <3>1, <3>3 DEF Op, Lifecycle, HostOps, Engined
      <3> QED BY <2>1, <3>2, <3>3 DEF InterfaceProjectOps
    <2>3. /\ at \in {"members", "meta"} /\ (at = "members" => op.name \in Lifecycle)
          /\ (at = "meta" => op.name \in HostOps) /\ (op.name = "backup" => at = "meta")
      BY <2>2 DEF Lifecycle
    <2>4. Steps(c, r)
      BY <2>1
    <2> HIDE DEF at
    <2>5. CallFits(engine, r) /\ r.op = op /\ r.at = at
      <3>1. at \in Early \cup {"containers"} /\ at \notin {"asked", "containers", "list"}
        BY <2>3 DEF Early
      <3>2. FreshCall(r, op, at)
        BY <2>2, <2>3, FreshCalls
      <3> HIDE DEF r
      <3> QED BY <2>2, <2>3, <3>1, <3>2, NewCall
    <2> HIDE DEF r
    <2>6. SubmitTo(c, r)
      BY <2>2, <2>3, <2>4, <2>5 DEF SubmitTo, Steps, Goes, engineVars, SubmitProject, MaySubmit
    <2> QED BY <2>6
  <1> QED BY <1>1, <1>2 DEF SubmitProject

LEMMA SubmitKeeps ==
  ASSUME ProjectsInv, NEW c \in Calls, NEW r, SubmitTo(c, r)
  PROVE ProjectsInv'
  <1>1. EngineFits'
    BY DEF SubmitTo, ProjectsInv, CallsFit, EngineFits
  <1>2. CallsFit' /\ call'[c] = r /\ \A k \in Calls \ {c} : call'[k] = call[k]
    BY <1>1, OneCall DEF SubmitTo, ProjectsInv
  <1>3. CacheFits'
    BY <1>2 DEF CacheFits, SubmitTo, ProjectsInv
  <1>4. ArchiveFits'
    <2>1. engine' = engine /\ archive' = archive
      BY DEF SubmitTo, hostVars
    <2>2. /\ ~Backing(c) /\ (Backing(c)' <=> r.op.name = "backup")
          /\ \A k \in Calls \ {c} : Backing(k)' <=> Backing(k)
      BY <1>2, ProjectsAssumption DEF SubmitTo, Backing, ProjectsInv, CallsFit, CallFits, CallShape, Idle
    <2>3. \A k \in Calls \ {c} : SavedBy(call[k]) => SavedBy(call[k])'
      BY <1>2, <2>1 DEF SavedBy, Saved, NoArchive
    <2>4. NoArchive => NoArchive'
      BY <2>1 DEF NoArchive
    <2>6. \A k \in Calls : Backing(k)' /\ (\A j \in Calls \ {k} : ~Backing(j)') /\ engine = "docker" => SavedBy(call[k])'
      <3>1. CASE r.op.name = "backup"
        <4>1. ASSUME NEW k \in Calls, Backing(k)', \A j \in Calls \ {k} : ~Backing(j)', engine = "docker"
              PROVE SavedBy(call[k])'
          <5>1. k = c
            BY <2>2, <3>1, <4>1
          <5>2. \A j \in Calls : ~Backing(j)
            BY <2>2, <4>1, <5>1
          <5>3. NoArchive
            BY <4>1, <5>2 DEF ProjectsInv, ArchiveFits
          <5> QED BY <2>1, <1>2, <3>1, <5>1, <5>3 DEF SubmitTo, SavedBy, Saved, NoArchive
        <4> QED BY <4>1
      <3>2. CASE r.op.name # "backup"
        BY <2>2, <2>3, <3>2 DEF ProjectsInv, ArchiveFits
      <3> QED BY <3>1, <3>2
    <2>7. engine = "docker" /\ (\A k \in Calls : ~Backing(k)') => NoArchive'
      BY <2>2, <2>4 DEF ProjectsInv, ArchiveFits
    <2> QED BY <2>1, <2>6, <2>7 DEF ProjectsInv, ArchiveFits
  <1>5. SudoRight'
    BY DEF SubmitTo, hostVars, ProjectsInv, SudoRight, Plain
  <1> QED BY <1>2, <1>3, <1>4, <1>5 DEF ProjectsInv

\* Steps that leave the calls, the samples and the host alone.
LEMMA OthersKeep ==
  ASSUME ProjectsInv, EngineFits', UNCHANGED <<engine, cache, call, hostVars>>
  PROVE ProjectsInv'
  <1>1. CallsFit'
    BY DEF ProjectsInv, CallsFit
  <1>2. CacheFits'
    BY DEF ProjectsInv, CacheFits
  <1>3. ArchiveFits'
    BY DEF ProjectsInv, ArchiveFits, Backing, SavedBy, Saved, NoArchive, hostVars
  <1>4. SudoRight'
    BY DEF ProjectsInv, SudoRight, Plain, hostVars
  <1> QED BY <1>1, <1>2, <1>3, <1>4 DEF ProjectsInv

LEMMA OtherClientKeeps ==
  ASSUME ProjectsInv, OtherClient, UNCHANGED hostVars
  PROVE ProjectsInv'
  <1>1. /\ ctrs' \in {ctrs} \cup {Emptied({n}) : n \in Ctrs} /\ images' \in {images, Untagged(images, "cold")}
        /\ UNCHANGED <<engine, front, nets, vols, cache, call>>
    BY DEF OtherClient
  <1>2. ctrs' \in [Ctrs -> CtrRow(engine)]
    BY <1>1, EmptiedTyped DEF ProjectsInv, CallsFit, EngineFits
  <1>3. images' \in Seq(Row)
    BY <1>1, UntaggedTyped DEF ProjectsInv, CallsFit, EngineFits
  <1>4. EngineFits'
    BY <1>1, <1>2, <1>3 DEF ProjectsInv, CallsFit, EngineFits
  <1> QED BY <1>1, <1>4, OthersKeep

LEMMA ProjectsInitFits ==
  ASSUME ProjectsInit
  PROVE ProjectsInv
  <1>1. images \in Seq(Row)
    BY DEF ProjectsInit, ObjectsInit, Row, Ids, Tags
  <1>2. ctrs \in [Ctrs -> CtrRow(engine)]
    <2>1. host.dir \in Dirs \cup {None}
      BY ProjectsAssumption DEF ProjectsInit
    <2>2. {"running", "exited"} \subseteq StatesOf(engine)
      BY DEF StatesOf, States
    <2> QED BY <2>1, <2>2 DEF ProjectsInit, CtrRow, Ctrs, Ids, Dirs
  <1>3. EngineFits
    BY <1>1, <1>2 DEF EngineFits, ProjectsInit, ObjectsInit, Nets, BuiltIn, Vols
  <1>4. CallFits(engine, Idle)
    BY DEF CallFits, CallShape, PlaceFits, WorkFits, BatchFits, DoneFits, StampFits, Idle, Codes, Stages, Early
  <1>5. CallsFit
    BY <1>3, <1>4 DEF CallsFit, ProjectsInit, ObjectsInit
  <1>6. \A c \in Calls : call[c] = Idle
    BY DEF ProjectsInit, ObjectsInit
  <1>7. ArchiveFits
    BY <1>6 DEF ArchiveFits, NoArchive, Backing, ProjectsInit, Idle
  <1>8. CacheFits /\ SudoRight
    BY DEF CacheFits, SudoRight, ProjectsInit, ObjectsInit
  <1> QED BY <1>5, <1>7, <1>8 DEF ProjectsInv

LEMMA ProjectsNextKeeps ==
  ASSUME ProjectsInv, [ProjectsNext]_projectsVars
  PROVE ProjectsInv'
  <1>1. CASE UNCHANGED projectsVars
    <2>1. UNCHANGED <<engine, front, images, ctrs, nets, vols, cache, call, hostVars>>
      BY <1>1 DEF projectsVars, objectVars, engineVars
    <2>2. EngineFits'
      BY <2>1 DEF ProjectsInv, CallsFit, EngineFits
    <2> QED BY <2>1, <2>2, OthersKeep
  <1>2. ASSUME NEW c \in Calls, (Submit(c) /\ UNCHANGED hostVars) \/ SubmitProject(c)
        PROVE ProjectsInv'
    BY <1>2, SubmitObject, SubmitCompose, SubmitKeeps DEF ProjectsInv
  <1>3. ASSUME NEW c \in Calls, Step(c) PROVE ProjectsInv'
    <2>1. CASE ObjectStep(c) /\ UNCHANGED hostVars
      <3>1. HostKept
        BY <2>1 DEF HostKept, hostVars
      <3> QED BY <2>1, <3>1, ObjectSteps, QuietKeeps, SampleKeeps DEF ProjectsInv, QuietHost
    <2>2. CASE ~(ObjectStep(c) /\ UNCHANGED hostVars)
      BY <1>3, <2>2, ProjectSteps, QuietKeeps, SaveKeeps DEF ProjectsInv
    <2> QED BY <2>1, <2>2
  <1>4. CASE OtherClient /\ UNCHANGED hostVars
    BY <1>4, OtherClientKeeps
  <1> QED BY <1>1, <1>2, <1>3, <1>4 DEF ProjectsNext, Done

LEMMA InvIsRight ==
  ASSUME ProjectsInv
  PROVE ProjectsRight
  <1>1. \A c \in Calls : CallFits(engine, call[c])
    BY DEF ProjectsInv, CallsFit
  <1>2. ObjectsTypeOK
    <2>1. \A i \in DOMAIN images : images[i].id \in Ids /\ images[i].tags \subseteq Tags
      BY RowAt DEF ProjectsInv, CallsFit, EngineFits, Row
    <2>2. \A n \in Ctrs : ctrs[n].state \in States /\ ctrs[n].image \in Ids \cup {None}
      BY DEF ProjectsInv, CallsFit, EngineFits, CtrRow, StatesOf
    <2> QED BY <1>1, <2>1, <2>2 DEF ObjectsTypeOK, ProjectsInv, CallsFit, EngineFits, CallFits, CallShape, DoneFits
  <1>3. AnswersTrue
    <2> SUFFICES ASSUME NEW c \in Calls
                 PROVE /\ call[c].at = "done" /\ call[c].code \in Misled => call[c].did = {}
                       /\ Ended(c, "sysprune") => /\ call[c].out \subseteq call[c].did
                                                  /\ call[c].code = "ok" => call[c].out = call[c].did
                       /\ Ended(c, "run") /\ call[c].code = "ok" => {"create", "start"} \subseteq call[c].did
                       /\ call[c].tries <= 2
                       /\ (\E name \in Lifecycle : Ended(c, name)) /\ engine # "demo" /\ call[c].code = "ok" =>
                            call[c].out = call[c].got /\ call[c].got # {}
      BY DEF AnswersTrue, Misled
    <2>1. CallFits(engine, call[c])
      BY <1>1
    <2>2. call[c].tries \in 0..2 /\ (call[c].at = "done" => call[c].op \in Ops /\ call[c].op # None)
      BY <2>1, ProjectsAssumption DEF CallFits, CallShape
    <2> QED BY <2>1, <2>2 DEF CallFits, WorkFits, DoneFits, Ended
  <1>4. StatsRight
    <2>1. \A c \in Calls : call[c].at = "batch" => /\ Cardinality(call[c].out) <= MaxWorkers
                                                   /\ call[c].got \subseteq call[c].found
      BY <1>1 DEF CallFits, BatchFits
    <2> QED BY <2>1 DEF StatsRight, ProjectsInv, CacheFits, Ended
  <1>5. BackupWhole
    <2> SUFFICES ASSUME NEW c \in Calls, Ended(c, "backup"), engine = "docker", Alone(c)
                 PROVE IF call[c].code = "ok" THEN archive[call[c].round] = "whole"
                       ELSE "left" \in call[c].did \/ NoArchive
      BY DEF BackupWhole, NoArchive
    <2>1. call[c].at = "done" /\ Backing(c) /\ \A k \in Calls \ {c} : ~Backing(k)
      BY <1>1, ProjectsAssumption DEF Ended, Alone, Backing, CallFits, CallShape
    <2>2. SavedBy(call[c])
      BY <2>1 DEF ProjectsInv, ArchiveFits
    <2> QED BY <2>1, <2>2 DEF SavedBy, Saved
  <1> QED BY <1>2, <1>3, <1>4, <1>5 DEF ProjectsInv, ProjectsRight

\* Whatever calls are made and however their steps come in between each other:
\* a call is told the truth about what it did, no batch of statistics exceeds
\* its workers, samples are kept for one request at most, no host is taken for
\* one without sudo that needs it, and a lone backup leaves a whole archive, or
\* none but one it could not close or remove.
THEOREM ProjectsCorrect == ProjectsSpec => []ProjectsRight
  <1>1. ProjectsInit => ProjectsInv
    BY ProjectsInitFits
  <1>2. ProjectsInv /\ [ProjectsNext]_projectsVars => ProjectsInv'
    BY ProjectsNextKeeps
  <1>3. ProjectsInv => ProjectsRight
    BY InvIsRight
  <1> QED BY <1>1, <1>2, <1>3, PTL DEF ProjectsSpec

----------------------------------------------------------------------------
(* Sweeps: what a prune removes, and what the plan names.                  *)

\* The steps of a command that sweeps.
SweepActs(c) ==
  \/ PruneImages(c) \/ NerdctlPruneImages(c) \/ CriPruneImages(c) \/ DemoPruneImages(c)
  \/ PruneVolumes(c) \/ NerdctlPruneVolumes(c) \/ DemoPruneVolumes(c)
  \/ PruneStage(c) \/ PruneStageFails(c) \/ NerdctlSystemPrune(c) \/ CriSystemPrune(c) \/ DemoSystemPrune(c)
  \/ UNCHANGED <<images, ctrs, vols>>

LEMMA SweepSteps ==
  ASSUME CallsFit, NEW c \in Calls, ObjectStep(c), call[c].op.name \in Sweeps
  PROVE SweepActs(c)
  <1>1. call[c].at \notin {"fetch", "again", "start", "list", "batch", "window", "readback"}
    BY DEF CallsFit, CallFits, PlaceFits, Sweeps
  <1>2. CASE ImageStep(c)
    BY <1>2 DEF Sweeps, SweepActs, ImageStep, On, Acts, LookupImage,
       ImageTagOp, ImageRmOp, ImagePushOp, ImageHistoryOp, CheckBuildContext, TagImage, NerdctlTag, DemoTag, RemoveImage, NerdctlRemove, CriRemove, DemoRemove,
       PushImage, NerdctlPush, DemoPush, ImageHistory, DemoHistory, PullImage, NerdctlPull, CriPull, DemoPull, BuildImage, NerdctlBuild, DemoBuild
  <1>3. CASE NetworkStep(c)
    BY <1>3 DEF Sweeps, NetworkStep, On, Acts, CheckNew, ReadBack,
       CheckNetworkCreate, CreateNetwork, NerdctlCreateNetwork, DemoCreateNetwork, NetworkCreated, RemoveNetwork, NerdctlRemoveNetwork, DemoRemoveNetwork
  <1>4. CASE VolumeStep(c)
    BY <1>4 DEF Sweeps, SweepActs, VolumeStep, On, Acts, CheckNew, ReadBack,
       CheckVolumeCreate, CreateVolume, NerdctlCreateVolume, DemoCreateVolume, VolumeCreated, RemoveVolume, NerdctlRemoveVolume, DemoRemoveVolume
  <1>5. CASE Confirmed(c) \/ Refused(c) \/ Unsupported(c)
    BY <1>5 DEF SweepActs, Confirmed, Refused, Unsupported, Fails, Answer, Goes, engineVars
  <1>6. CASE PruneStage(c) \/ PruneStageFails(c) \/ NerdctlSystemPrune(c) \/ CriSystemPrune(c) \/ DemoSystemPrune(c)
    BY <1>6 DEF SweepActs
  <1>7. CASE \/ CreateContainer(c) \/ PullForRun(c) \/ StartContainer(c) \/ NerdctlRun(c) \/ DemoRun(c)
             \/ CriRunContainer(c)
    BY <1>1, <1>7
    DEF Sweeps, On, Acts, CreateContainer, PullForRun, StartContainer, NerdctlRun, DemoRun, CriRunContainer
  <1>8. CASE \/ StatsList(c) \/ StartWorker(c) \/ Sample(c) \/ EndBatch(c) \/ SleepCtx(c)
             \/ NerdctlStats(c) \/ CriStats(c) \/ DemoStats(c)
    BY <1>1, <1>8
    DEF StatsList, StartWorker, Sample, EndBatch, SleepCtx, NerdctlStats, CriStats, DemoStats, BatchAtOnce
  <1> QED BY <1>2, <1>3, <1>4, <1>5, <1>6, <1>7, <1>8 DEF ObjectStep

\* A command on a project sweeps nothing.
LEMMA ComposeNames ==
  ASSUME CallsFit, NEW c \in Calls, Step(c), ~(ObjectStep(c) /\ UNCHANGED hostVars)
  PROVE call[c].op.name \notin Sweeps
  <1>1. call[c].at \in {"members", "each", "meta", "tasks", "probe", "remote", "create", "tar", "tee", "sudotee"} =>
          call[c].op.name \notin Sweeps
    BY DEF CallsFit, CallFits, PlaceFits, Sweeps, Lifecycle, HostOps, Engined
  <1>2. CASE ComposeStreamOp(c) \/ ComposeConfigOp(c) \/ ComposeBackupOp(c) \/ ComposeRestartOp(c)
    BY <1>2 DEF ComposeStreamOp, ComposeConfigOp, ComposeBackupOp, ComposeRestartOp, Resolve, Sweeps, Engined
  <1>3. CASE ComposeForEach(c) \/ NerdctlForEach(c) \/ ActOnMember(c) \/ EndEach(c) \/ CriCompose(c)
    BY <1>1, <1>3 DEF ComposeForEach, NerdctlForEach, ListMembers, ActOnMember, EndEach, CriCompose
  <1>4. CASE \/ DemoLifecycle(c) \/ DemoRemoveProject(c) \/ DemoUp(c) \/ DemoDown(c) \/ DemoCreate(c)
             \/ DemoPullProject(c) \/ DemoConfig(c) \/ DemoRead(c) \/ DemoWrite(c) \/ DemoBackup(c)
    BY <1>1, <1>4
    DEF Demo, DemoLifecycle, DemoRemoveProject, DemoUp, DemoDown, DemoCreate, DemoPullProject, DemoConfig,
        DemoRead, DemoWrite, DemoBackup
  <1>5. CASE \/ NerdctlUp(c) \/ NerdctlPullProject(c) \/ NerdctlDown(c) \/ NerdctlFiles(c) \/ RunTask(c)
             \/ EndTasks(c) \/ OpDone(c)
    BY <1>1, <1>5 DEF NerdctlUp, NerdctlPullProject, NerdctlDown, Tasks, NerdctlFiles, RunTask, EndTasks, OpDone, TasksEnd
  <1>6. CASE \/ ComposeProjectMeta(c) \/ CreateComposeFile(c) \/ ProbeSudo(c) \/ RunRemote(c)
             \/ CreateArchive(c) \/ ArchiveEnds(c) \/ WriteFile(c)
    BY <1>1, <1>6
    DEF ComposeProjectMeta, CreateComposeFile, ProbeSudo, RunRemote, CreateArchive, ArchiveEnds, WriteFile
  <1> QED BY <1>2, <1>3, <1>4, <1>5, <1>6 DEF Step

\* A finite set is listed whole.
LEMMA SetToSeqAll ==
  ASSUME NEW S, IsFiniteSet(S)
  PROVE \A x \in S : \E i \in DOMAIN SetToSeq(S) : SetToSeq(S)[i] = x
  <1> DEFINE n == Cardinality(S)
             f == SetToSeq(S)
  <1>1. n \in Nat /\ ExistsBijection(1..n, S)
    BY FS_CardinalityType
  <1>2. PICK g \in [1..n -> S] : IsInjective(g)
    BY <1>1 DEF ExistsBijection, Bijection, Injection
  <1>3. f \in [1..n -> S] /\ IsInjective(f)
    BY <1>2 DEF SetToSeq
  <1> HIDE DEF f
  <1>4. f \in Injection(1..n, S)
    BY <1>3 DEF Injection
  <1>5. IsFiniteSet(1..n) /\ Cardinality(1..n) = n
    BY <1>1, FS_Interval
  <1>6. f \in Surjection(1..n, S)
    BY <1>4, <1>5, FS_Injection
  <1>7. \A x \in S : \E i \in 1..n : f[i] = x
    BY <1>6 DEF Surjection
  <1> QED BY <1>3, <1>7 DEF f

LEMMA RowsFinite == IsFiniteSet(Row)
  <1> DEFINE P == Ids \X SUBSET Tags
             f == [x \in P |-> [id |-> x[1], tags |-> x[2]]]
  <1>1. IsFiniteSet(Ids)
    <2>1. IsFiniteSet({"a"} \cup {"b"})
      BY FS_Singleton, FS_AddElement
    <2>2. IsFiniteSet(({"a"} \cup {"b"}) \cup {"d"})
      BY <2>1, FS_AddElement
    <2>3. IsFiniteSet((({"a"} \cup {"b"}) \cup {"d"}) \cup {"built"})
      BY <2>2, FS_AddElement
    <2>4. Ids = (({"a"} \cup {"b"}) \cup {"d"}) \cup {"built"}
      BY DEF Ids
    <2> QED BY <2>3, <2>4
  <1>2. IsFiniteSet(Tags)
    <2>1. IsFiniteSet({"app"} \cup {"myapp"})
      BY FS_Singleton, FS_AddElement
    <2>2. IsFiniteSet(({"app"} \cup {"myapp"}) \cup {"cold"})
      BY <2>1, FS_AddElement
    <2>3. Tags = ({"app"} \cup {"myapp"}) \cup {"cold"}
      BY DEF Tags
    <2> QED BY <2>2, <2>3
  <1>3. IsFiniteSet(P)
    BY <1>1, <1>2, FS_SUBSET, FS_Product
  <1>4. f \in Surjection(P, Row)
    <2>1. f \in [P -> Row]
      BY DEF Row
    <2>2. \A r \in Row : \E x \in P : f[x] = r
      <3> SUFFICES ASSUME NEW r \in Row PROVE \E x \in P : f[x] = r
        OBVIOUS
      <3>1. <<r.id, r.tags>> \in P /\ f[<<r.id, r.tags>>] = r
        BY DEF Row
      <3> QED BY <3>1
    <2> HIDE DEF f, P
    <2> QED BY <2>1, <2>2 DEF Surjection
  <1> HIDE DEF f, P
  <1> QED BY <1>3, <1>4, FS_Surjection

\* Every dangling image is on the list, as dangling.
LEMMA DanglingListed ==
  ASSUME EngineFits, engine # "cri", NEW i \in Dangling(images)
  PROVE images[i].id \in DanglingImageSteps
  <1>1. i \in DOMAIN images /\ images[i].tags = {} /\ images[i] \in Row
    BY RowAt DEF Dangling, EngineFits
  <1>2. CASE engine # "nerdctl"
    BY <1>1, <1>2 DEF DanglingImageSteps, ListImages, Dangling
  <1>3. CASE engine = "nerdctl"
    <2> DEFINE S == {images[j] : j \in {k \in DOMAIN images : images[k].tags = {}}} \cup
                    UNION {{[id |-> images[k].id, tags |-> {t}] : t \in images[k].tags} : k \in DOMAIN images}
    <2>1. images[i] \in S
      BY <1>1
    <2>2. \A k \in DOMAIN images : images[k] \in Row
      BY RowAt DEF EngineFits
    <2>3. S \subseteq Row
      BY <2>2 DEF Row
    <2>4. IsFiniteSet(S)
      BY <2>3, RowsFinite, FS_Subset
    <2>5. ListImages = SetToSeq(S)
      BY <1>3 DEF ListImages, NerdctlRows
    <2> HIDE DEF S
    <2>6. PICK j \in DOMAIN ListImages : ListImages[j] = images[i]
      BY <2>1, <2>4, <2>5, SetToSeqAll
    <2>7. j \in Dangling(ListImages)
      BY <1>1, <2>6 DEF Dangling
    <2> QED BY <2>6, <2>7 DEF DanglingImageSteps
  <1> QED BY <1>2, <1>3

\* What a plan must name, to name all that a sweep may take.
PlanFits(p, name) ==
  /\ name # "volprune" => \A i \in Dangling(images) : images[i].id \in p.images
  /\ name = "sysprune" => SystemPruneSteps \subseteq p.ctrs
  /\ name = "volprune" => vols \subseteq p.vols

LEMMA PlansFit ==
  ASSUME EngineFits, engine # "cri", NEW name \in Sweeps
  PROVE PlanFits(PlanOf(name), name)
  <1>1. \A i \in Dangling(images) : images[i].id \in DanglingImageSteps
    BY DanglingListed
  <1>2. ListVolumes = vols
    BY DEF ListVolumes
  <1> QED BY <1>1, <1>2 DEF PlanFits, PlanOf

\* What a step of a sweep takes: dangling images S and stopped containers G,
\* or volumes.
SweepTo(c, S, G) ==
  LET name == call[c].op.name
  IN  /\ \/ images' = images
         \/ name # "volprune" /\ S \subseteq Dangling(images) /\ images' = ImagesWithout(S)
      /\ \/ ctrs' = ctrs
         \/ name = "sysprune" /\ G \subseteq SystemPruneSteps /\ ctrs' = Emptied(G)
      /\ vols' = vols \/ (name = "volprune" /\ vols' \subseteq vols)

LEMMA PrunesTake ==
  ASSUME NEW c \in Calls, call[c].op.name = "sysprune", NEW G, NEW F, NEW S, Prunes(G, F, S),
         G \subseteq SystemPruneSteps, S \subseteq Dangling(images)
  PROVE \E T, H : SweepTo(c, T, H)
  <1>1. SweepTo(c, S, G)
    BY DEF Prunes, SweepTo
  <1> QED BY <1>1

\* A container that is pruned had stopped, or never started.
LEMMA StoppedPruned ==
  ASSUME EngineFits
  PROVE /\ PrunesContainers \subseteq SystemPruneSteps
        /\ engine = "demo" => DemoPrunesContainers \subseteq SystemPruneSteps
  <1>1. PrunesContainers \subseteq SystemPruneSteps
    BY DEF PrunesContainers, SystemPruneSteps, Exists
  <1>2. ASSUME engine = "demo", NEW n \in Ctrs PROVE ctrs[n].state # "paused"
    <2>1. ctrs[n] \in CtrRow(engine)
      BY DEF EngineFits
    <2> QED BY <1>2, <2>1 DEF CtrRow, StatesOf
  <1> QED BY <1>1, <1>2 DEF DemoPrunesContainers, SystemPruneSteps, Running

LEMMA StagesTake ==
  ASSUME EngineFits, NEW c \in Calls, call[c].op.name = "sysprune", NEW stages,
         NEW gone, gone \subseteq SystemPruneSteps, NEW rows, rows \subseteq Dangling(images),
         PrunesAll(stages, gone, rows) \/ PrunesPart(stages, gone, rows)
  PROVE \E T, H : SweepTo(c, T, H)
  <1>1. PICK g, f, r : /\ Prunes(g, f, r) /\ g \subseteq Of(stages, "containers", gone)
                       /\ r \subseteq Of(stages, "images", rows)
    BY DEF PrunesAll, PrunesPart
  <1>2. g \subseteq SystemPruneSteps /\ r \subseteq Dangling(images)
    BY <1>1 DEF Of
  <1> QED BY <1>1, <1>2, PrunesTake

LEMMA SweepTakes ==
  ASSUME EngineFits, engine # "cri", NEW c \in Calls, SweepActs(c), call[c].op.name \in Sweeps,
         call[c].at \in Stages => call[c].op.name = "sysprune"
  PROVE \E S, G : SweepTo(c, S, G)
  <1>1. PrunesImages \subseteq Dangling(images) /\ DemoPrunesImages \subseteq Dangling(images)
    BY DEF PrunesImages, DemoPrunesImages
  <1>2. ASSUME NEW S \in SUBSET Dangling(images), NEW k, NewImages(c, k, ImagesWithout(S)), call[c].op.name = "prune"
        PROVE \E T, G : SweepTo(c, T, G)
    <2>1. SweepTo(c, S, {})
      BY <1>2 DEF NewImages, SweepTo
    <2> QED BY <2>1
  <1>3. ASSUME NEW V, NEW k, NewVolumes(c, k, V), V \subseteq vols, call[c].op.name = "volprune"
        PROVE \E T, G : SweepTo(c, T, G)
    <2>1. SweepTo(c, {}, {})
      BY <1>3 DEF NewVolumes, SweepTo
    <2> QED BY <2>1
  <1>4. CASE PruneImages(c) \/ NerdctlPruneImages(c) \/ CriPruneImages(c) \/ DemoPruneImages(c)
    BY <1>1, <1>2, <1>4 DEF PruneImages, NerdctlPruneImages, CriPruneImages, DemoPruneImages, On, Acts
  <1>5. CASE PruneVolumes(c) \/ NerdctlPruneVolumes(c) \/ DemoPruneVolumes(c)
    <2>1. call[c].op.name = "volprune" /\ \E V : NewVolumes(c, "prune", V) /\ V \subseteq vols
      <3>1. \A S \in SUBSET UnusedVolumes : vols \ S \subseteq vols
        OBVIOUS
      <3>2. CASE PruneVolumes(c) \/ NerdctlPruneVolumes(c)
        <4>1. PICK S \in SUBSET UnusedVolumes : NewVolumes(c, "prune", vols \ S)
          BY <3>2 DEF PruneVolumes, NerdctlPruneVolumes
        <4>2. call[c].op.name = "volprune"
          BY <3>2 DEF PruneVolumes, NerdctlPruneVolumes, On, Acts
        <4> QED BY <3>1, <4>1, <4>2
      <3>3. CASE DemoPruneVolumes(c)
        <4>1. NewVolumes(c, "prune", {}) /\ call[c].op.name = "volprune" /\ {} \subseteq vols
          BY <3>3 DEF DemoPruneVolumes, On, Acts
        <4> QED BY <4>1
      <3> QED BY <1>5, <3>2, <3>3
    <2> QED BY <1>3, <2>1
  <1>6. CASE PruneStage(c)
    <2>1. PrunesAll({call[c].at}, PrunesContainers, PrunesImages) /\ call[c].op.name = "sysprune"
      BY <1>6 DEF PruneStage
    <2> QED BY <1>1, <2>1, StoppedPruned, StagesTake
  <1>7. CASE PruneStageFails(c)
    <2>1. CASE Goes(c, AfterStage(c, FALSE))
      <3>1. SweepTo(c, {}, {})
        BY <2>1 DEF Goes, engineVars, SweepTo
      <3> QED BY <3>1
    <2>2. CASE PrunesPart({call[c].at}, PrunesContainers, PrunesImages)
      <3>1. call[c].op.name = "sysprune"
        BY <1>7 DEF PruneStageFails
      <3> QED BY <1>1, <2>2, <3>1, StoppedPruned, StagesTake
    <2> QED BY <1>7, <2>1, <2>2 DEF PruneStageFails
  <1>8. CASE NerdctlSystemPrune(c)
    <2>1. /\ PrunesAll(Stages, PrunesContainers, PrunesImages) \/ PrunesPart(Stages, PrunesContainers, PrunesImages)
          /\ call[c].op.name = "sysprune"
      BY <1>8 DEF NerdctlSystemPrune, On, Acts, PruneAtOnce, PruneBreaksOff
    <2> QED BY <1>1, <2>1, StoppedPruned, StagesTake
  <1>9. CASE DemoSystemPrune(c)
    <2>1. /\ PrunesAll({"containers", "images"}, DemoPrunesContainers, DemoPrunesImages)
          /\ call[c].op.name = "sysprune" /\ engine = "demo"
      BY <1>9 DEF DemoSystemPrune, On, Acts, PruneAtOnce
    <2> QED BY <1>1, <2>1, StoppedPruned, StagesTake
  <1>10. CASE UNCHANGED <<images, ctrs, vols>>
    <2>1. SweepTo(c, {}, {})
      BY <1>10 DEF SweepTo
    <2> QED BY <2>1
  <1>11. ~CriSystemPrune(c)
    BY DEF CriSystemPrune, On
  <1> QED BY <1>4, <1>5, <1>6, <1>7, <1>8, <1>9, <1>10, <1>11 DEF SweepActs

\* A plan that named all there was to take still does, when some of it is gone,
\* and it named what is gone.
LEMMA TakenFits ==
  ASSUME EngineFits, NEW c \in Calls, NEW S, NEW G, SweepTo(c, S, G),
         NEW p, NEW name, name = call[c].op.name, PlanFits(p, name)
  PROVE PlanFits(p, name)' /\ Covers(p)
  <1> DEFINE rest == DOMAIN images \ S
  <1>1. /\ \A i \in DOMAIN images' : \E k \in DOMAIN images : images'[i] = images[k]
        /\ \A k \in DOMAIN images : (\E i \in DOMAIN images' : images'[i] = images[k]) \/ (name # "volprune" /\ k \in Dangling(images))
    <2>1. CASE images' = images
      BY <2>1
    <2>2. CASE images' = ImagesWithout(S) /\ name # "volprune" /\ S \subseteq Dangling(images)
      <3>1. images' = RowsAt(images, rest)
        BY <2>2 DEF ImagesWithout
      <3>2. rest \in SUBSET DOMAIN images /\ images \in Seq(Row)
        BY DEF EngineFits
      <3>3. /\ \A k \in rest : \E n \in DOMAIN images' : images'[n] = images[k]
            /\ \A n \in DOMAIN images' : \E k \in rest : images'[n] = images[k]
        <4> HIDE DEF rest
        <4> QED BY <3>1, <3>2, RowsAtPlaces
      <3>4. \A k \in DOMAIN images : k \in rest \/ k \in S
        OBVIOUS
      <3> QED BY <2>2, <3>2, <3>3, <3>4
    <2> QED BY <2>1, <2>2 DEF SweepTo
  <1> DEFINE listed == name # "volprune" => \A i \in Dangling(images) : images[i].id \in p.images
  <1>2. listed
    BY DEF PlanFits
  <1>3. name # "volprune" => \A i \in DOMAIN images' : images'[i].tags = {} => images'[i].id \in p.images
    <2> SUFFICES ASSUME name # "volprune", NEW i \in DOMAIN images', images'[i].tags = {} PROVE images'[i].id \in p.images
      OBVIOUS
    <2>1. PICK k \in DOMAIN images : images'[i] = images[k]
      BY <1>1
    <2>2. k \in Dangling(images)
      BY <2>1 DEF Dangling
    <2> QED BY <1>2, <2>1, <2>2
  <1>4. ImageIds(images) \ ImageIds(images') \subseteq p.images
    <2> SUFFICES ASSUME NEW k \in DOMAIN images, images[k].id \notin ImageIds(images') PROVE images[k].id \in p.images
      BY DEF ImageIds
    <2>1. ~\E i \in DOMAIN images' : images'[i] = images[k]
      BY DEF ImageIds
    <2>2. name # "volprune" /\ k \in Dangling(images)
      BY <1>1, <2>1
    <2> QED BY <1>2, <2>2
  <1>5. /\ {n \in Ctrs : Exists(n) /\ ctrs'[n].state = "none"} \subseteq p.ctrs
        /\ name = "sysprune" => SystemPruneSteps' \subseteq p.ctrs
    <2>1. CASE ctrs' = ctrs
      BY <2>1 DEF PlanFits, Exists, SystemPruneSteps
    <2>2. CASE name = "sysprune" /\ G \subseteq SystemPruneSteps /\ ctrs' = Emptied(G)
      <3>1. SystemPruneSteps \subseteq p.ctrs
        BY <2>2 DEF PlanFits
      <3>2. \A n \in Ctrs : ctrs'[n] = IF n \in G THEN Absent ELSE ctrs[n]
        BY <2>2 DEF Emptied
      <3>3. \A n \in Ctrs : Exists(n) /\ ctrs'[n].state = "none" => n \in G
        BY <3>2 DEF Exists
      <3>4. SystemPruneSteps' \subseteq SystemPruneSteps
        BY <3>2 DEF SystemPruneSteps, Exists, Absent
      <3> QED BY <2>2, <3>1, <3>3, <3>4
    <2> QED BY <2>1, <2>2 DEF SweepTo
  <1>6. vols \ vols' \subseteq p.vols /\ (name = "volprune" => vols' \subseteq p.vols)
    BY DEF SweepTo, PlanFits
  <1>7. Covers(p)
    BY <1>4, <1>5, <1>6 DEF Covers
  <1>8. PlanFits(p, name)'
    <2>1. name # "volprune" => \A i \in Dangling(images)' : images'[i].id \in p.images
      BY <1>3 DEF Dangling
    <2> QED BY <1>5, <1>6, <2>1 DEF PlanFits
  <1> QED BY <1>7, <1>8

\* A call that changes is made, or takes a step of its own.
LEMMA WhoActs ==
  ASSUME ProjectsInv, ProjectsNext, NEW c \in Calls, call'[c] # call[c]
  PROVE \/ \E r : SubmitTo(c, r)
        \/ call[c].at # "idle" /\ Step(c) /\ call'[c].op = call[c].op /\ call'[c].at # "idle"
  <1>1. ASSUME NEW k \in Calls, NEW r, call' = [call EXCEPT ![k] = r] PROVE k = c /\ call'[c] = r
    BY <1>1 DEF ProjectsInv, CallsFit
  <1>2. ASSUME NEW k \in Calls, (Submit(k) /\ UNCHANGED hostVars) \/ SubmitProject(k)
        PROVE \E r : SubmitTo(c, r)
    <2>1. PICK r : SubmitTo(k, r)
      BY <1>2, SubmitObject, SubmitCompose DEF ProjectsInv
    <2>2. k = c
      BY <1>1, <2>1 DEF SubmitTo
    <2> QED BY <2>1, <2>2
  <1>3. ASSUME NEW k \in Calls, Step(k)
        PROVE call[c].at # "idle" /\ Step(c) /\ call'[c].op = call[c].op /\ call'[c].at # "idle"
    <2>1. PICK r : QuietTo(k, r) \/ SampleTo(k, r) \/ SaveTo(k, r)
      <3>1. CASE ObjectStep(k) /\ UNCHANGED hostVars
        BY <3>1, ObjectSteps DEF ProjectsInv, QuietStep, SampleStep
      <3>2. CASE ~(ObjectStep(k) /\ UNCHANGED hostVars)
        BY <1>3, <3>2, ProjectSteps DEF ProjectsInv, QuietHost, QuietStep, SaveStep
      <3> QED BY <3>1, <3>2
    <2>2. k = c /\ call'[c] = r
      BY <1>1, <2>1 DEF QuietTo, SampleTo, SaveTo
    <2>3. call[k].at # "idle" /\ r.op = call[k].op /\ r.at # "idle"
      BY <2>1 DEF QuietTo, SampleTo, SaveTo
    <2> QED BY <1>3, <2>2, <2>3
  <1>4. CASE OtherClient \/ Done
    BY <1>4 DEF OtherClient, Done, projectsVars, objectVars
  <1> QED BY <1>2, <1>3, <1>4 DEF ProjectsNext

\* A step of a sweep takes what a fitting plan names.
LEMMA SweepCovered ==
  ASSUME ProjectsInv, engine # "cri", NEW c \in Calls, Step(c), call[c].at # "idle", call[c].op.name \in Sweeps,
         NEW p, NEW name, name = call[c].op.name, PlanFits(p, name)
  PROVE PlanFits(p, name)' /\ Covers(p)
  <1>1. ObjectStep(c)
    BY ComposeNames DEF ProjectsInv
  <1>2. EngineFits /\ SweepActs(c)
    BY <1>1, SweepSteps DEF ProjectsInv, CallsFit
  <1>3. call[c].at \in Stages => call[c].op.name = "sysprune"
    BY DEF ProjectsInv, CallsFit, CallFits, PlaceFits
  <1>4. PICK S, G : SweepTo(c, S, G)
    BY <1>2, <1>3, SweepTakes
  <1> QED BY <1>2, <1>4, TakenFits

LEMMA EngineStays ==
  ASSUME ProjectsInv, ProjectsNext
  PROVE engine' = engine
  <1>1. ASSUME NEW c \in Calls, (Submit(c) /\ UNCHANGED hostVars) \/ SubmitProject(c) PROVE engine' = engine
    BY <1>1, SubmitObject, SubmitCompose DEF ProjectsInv, SubmitTo
  <1>2. ASSUME NEW c \in Calls, Step(c) PROVE engine' = engine
    <2>1. CASE ObjectStep(c) /\ UNCHANGED hostVars
      BY <2>1, ObjectSteps DEF ProjectsInv, QuietStep, SampleStep, QuietTo, SampleTo
    <2>2. CASE ~(ObjectStep(c) /\ UNCHANGED hostVars)
      BY <1>2, <2>2, ProjectSteps DEF ProjectsInv, QuietHost, QuietStep, SaveStep, QuietTo, SaveTo
    <2> QED BY <2>1, <2>2
  <1>3. CASE OtherClient \/ Done
    BY <1>3 DEF OtherClient, Done, projectsVars, objectVars
  <1> QED BY <1>1, <1>2, <1>3 DEF ProjectsNext

----------------------------------------------------------------------------
(* Plans: those that are still good name all that their sweep may take.    *)

PlansHold ==
  \A c \in Calls : \A p \in approved[c] :
    call[c].at # "idle" /\ call[c].op.name \in Sweeps /\ (engine # "cri" => PlanFits(p, call[c].op.name))

LEMMA PlansHoldStep ==
  ASSUME ProjectsInv, ProjectsInv', PlansHold, ProjectsNext, Plans
  PROVE PlansHold'
  <1> SUFFICES ASSUME NEW c \in Calls, NEW p \in approved'[c]
               PROVE /\ call'[c].at # "idle" /\ call'[c].op.name \in Sweeps
                     /\ engine' # "cri" => PlanFits(p, call[c].op.name)'
    BY DEF PlansHold
  <1>1. \/ call[c].at = "idle" /\ call'[c].at = "asked" /\ p = PlanOf(call'[c].op.name)
        \/ ~Foreign(c) /\ p \in approved[c]
    BY DEF Plans
  <1>2. CASE call[c].at = "idle" /\ call'[c].at = "asked" /\ p = PlanOf(call'[c].op.name)
    <2>1. PICK r : SubmitTo(c, r)
      BY <1>2, WhoActs
    <2>2. UNCHANGED <<engine, images, ctrs, vols>>
      BY <2>1 DEF SubmitTo
    <2>3. call'[c].op.name \in Sweeps
      BY <1>2 DEF ProjectsInv, CallsFit, CallFits, PlaceFits
    <2>4. engine # "cri" => PlanFits(p, call'[c].op.name)
      BY <1>2, <2>3, PlansFit DEF ProjectsInv, CallsFit
    <2> QED BY <1>2, <2>2, <2>3, <2>4 DEF PlanFits, SystemPruneSteps, Exists
  <1>3. CASE ~Foreign(c) /\ p \in approved[c]
    <2>1. /\ call[c].at # "idle" /\ call[c].op.name \in Sweeps
          /\ engine # "cri" => PlanFits(p, call[c].op.name)
      BY <1>3 DEF PlansHold
    <2>2. CASE call'[c] = call[c]
      <3>1. UNCHANGED <<images, ctrs, vols>>
        BY <1>3, <2>2 DEF Foreign
      <3>2. engine' = engine
        BY EngineStays
      <3> QED BY <2>1, <2>2, <3>1, <3>2 DEF PlanFits, SystemPruneSteps, Exists
    <2>3. CASE call'[c] # call[c]
      <3>1. Step(c) /\ call'[c].op = call[c].op /\ call'[c].at # "idle"
        BY <2>1, <2>3, WhoActs DEF SubmitTo
      <3>2. engine' = engine
        BY EngineStays
      <3>3. ASSUME engine # "cri" PROVE PlanFits(p, call[c].op.name)'
        <4>1. PICK name : name = call[c].op.name /\ PlanFits(p, name)
          BY <2>1, <3>3
        <4>2. PlanFits(p, name)'
          BY <2>1, <3>1, <3>3, <4>1, SweepCovered
        <4> QED BY <3>1, <4>1, <4>2
      <3> QED BY <2>1, <3>1, <3>2, <3>3
    <2> QED BY <2>2, <2>3
  <1> QED BY <1>1, <1>2, <1>3

LEMMA PlansHoldNext ==
  ASSUME ProjectsInv, ProjectsInv', PlansHold, [ProjectsNext]_projectsVars
  PROVE PlansHold'
  <1>1. CASE UNCHANGED projectsVars
    BY <1>1 DEF PlansHold, PlanFits, SystemPruneSteps, Exists, projectsVars, objectVars, engineVars
  <1>2. CASE ProjectsNext /\ Plans
    BY <1>2, PlansHoldStep
  <1> QED BY <1>1, <1>2 DEF ProjectsNext, Done

\* Whatever other calls and other clients do between the plan a user approves
\* and the sweep, nothing is removed that the plan would not name at that
\* moment; and nothing that the very plan approved did not name, unless someone
\* else has changed images, containers or volumes since.
THEOREM SweepsCorrect == ProjectsSpec => SweepsAsPlanned
  <1> DEFINE Inv == ProjectsInv /\ PlansHold
  <1>1. ProjectsInit => Inv
    BY ProjectsInitFits DEF PlansHold, ProjectsInit
  <1>2. Inv /\ [ProjectsNext]_projectsVars => Inv'
    BY ProjectsNextKeeps, PlansHoldNext
  <1>3. Inv /\ [ProjectsNext]_projectsVars => [engine # "cri" => PlansCover]_projectsVars
    <2> SUFFICES ASSUME Inv, ProjectsNext, engine # "cri",
                        NEW c \in Calls, Sweeping(c), NEW p \in approved[c] \cup {PlanOf(call[c].op.name)}
                 PROVE Covers(p)
      BY DEF PlansCover
    <2>1. call'[c] # call[c] /\ call[c].op # None /\ call[c].op.name \in Sweeps
      BY DEF Sweeping
    <2>2. Step(c) /\ call[c].at # "idle"
      <3>1. call[c].at # "idle"
        BY <2>1 DEF ProjectsInv, CallsFit, CallFits, CallShape, Idle
      <3> QED BY <2>1, <3>1, WhoActs DEF SubmitTo
    <2>3. PlanFits(p, call[c].op.name)
      BY <2>1, PlansFit DEF PlansHold, ProjectsInv, CallsFit
    <2> QED BY <2>1, <2>2, <2>3, SweepCovered
  <1> HIDE DEF Inv
  <1> QED BY <1>1, <1>2, <1>3, PTL DEF ProjectsSpec, SweepsAsPlanned
=============================================================================
