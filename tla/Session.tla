------------------------------ MODULE Session ------------------------------
(***************************************************************************)
(* The connection of the terminal interface (internal/ui: model.go,        *)
(* update.go, update_forms.go, readonly.go, portforward.go).               *)
(*                                                                         *)
(* The event loop (Update) handles one message at a time; everything slow  *)
(* is a command: a goroutine of its own whose result comes back as a       *)
(* message, in any order and after any delay.  Here a command in flight is *)
(* an element of the bag flying, until the step that handles its result.   *)
(* Dials take two steps, because they read the live configuration when     *)
(* their goroutine runs and are judged when their result is handled:       *)
(* "connect" and "retry" have not run, "connected" and "retried" have.     *)
(*                                                                         *)
(* Whether a dial, a ping or a call succeeds is the network's choice.  The *)
(* credentials of a host (TLS settings, SSH key and password) are named    *)
(* after the host they belong to.  A reconnect's attempt number, which     *)
(* only sets its delay, is left out, and so are the data a refresh brings. *)
(***************************************************************************)
EXTENDS Integers, FiniteSets, Bags

CONSTANTS
  Hosts,       \* URLs of the saved hosts
  AskPass,     \* the hosts reached over SSH with a password prompt
  ReadOnly,    \* the hosts saved as read_only
  CanForward,  \* the hosts whose backend can forward ports (forwardDialer)
  Given,       \* the URLs the program may be started with (NoHost: none)
  NoHost,      \* the empty URL
  Conns,       \* connections (docker.Backend values) a session may make
  Offline,     \* the backend of docker.NewDisconnected
  MaxFlying    \* bound: commands in flight when a tick or a key adds one

ASSUME SessionAssumption ==
  /\ AskPass \subseteq Hosts /\ ReadOnly \subseteq Hosts /\ CanForward \subseteq Hosts
  /\ Given \subseteq Hosts \cup {NoHost} /\ Given # {}
  /\ NoHost \notin Hosts /\ Offline \notin Conns
  /\ Conns # {} /\ MaxFlying \in Nat

VARIABLES
  cfg,           \* *m.cfg: Host, and whose TLS and SSH settings it holds
  conn,          \* every connection made: what it dialed, with what, open or not
  backend,       \* m.backend
  mode,          \* m.mode: "normal" also stands for the modes that are no dialog
  dialog,        \* the host in connForm or connWait
  busy,          \* connForm.Busy(), connWait.Busy()
  reconnecting,  \* m.reconnecting
  serverUp,      \* m.serverUp, the header's status dot
  pingSeq,       \* m.pingSeq, the generation of the backend
  pingInFlight,  \* m.pingInFlight
  runtime,       \* m.runtime: the connection that was probed, or Offline
  tunnels,       \* the hosts whose containers the listed tunnels were opened for
  flying         \* the commands in flight

dialogVars == <<mode, dialog, busy>>
heartVars == <<serverUp, pingSeq, pingInFlight, runtime>>
vars == <<cfg, conn, backend, dialogVars, reconnecting, heartVars, tunnels, flying>>

HostURL == Hosts \cup {NoHost}
Backends == Conns \cup {Offline}
Kinds == {"ping", "probe", "call", "forward", "connect", "connected",
          "retry", "retried", "close"}
Cmd == [kind : Kinds, conn : Backends, host : HostURL, seq : Nat]

Ping(c, s) == [kind |-> "ping", conn |-> c, host |-> NoHost, seq |-> s]
Probe(c, s) == [kind |-> "probe", conn |-> c, host |-> NoHost, seq |-> s]
OnConn(kind, c) == [kind |-> kind, conn |-> c, host |-> NoHost, seq |-> 0]
Dial(kind, h) == [kind |-> kind, conn |-> Offline, host |-> h, seq |-> 0]
Dialed(kind, h, c) == [kind |-> kind, conn |-> c, host |-> h, seq |-> 0]

Flying(kind) == {e \in DOMAIN flying : e.kind = kind}

\* The message of e is handled, or its goroutine moves on, and out starts.
Then(e, out) == flying' = (flying (-) SetToBag({e})) (+) SetToBag(out)
Start(out) == flying' = flying (+) SetToBag(out)
Room == BagCardinality(flying) < MaxFlying

\* Connections are interchangeable before they are made.
Unmade == {c \in Conns : conn[c].state = "unmade"}
NewConn == CHOOSE c \in Unmade : TRUE
FirstConn == CHOOSE c \in Conns : TRUE
HostOf(c) == IF c \in Conns THEN conn[c].host ELSE NoHost

TypeOK ==
  /\ cfg \in [host : HostURL, tls : HostURL, ssh : HostURL]
  /\ conn \in [Conns -> [state : {"unmade", "open", "closed"},
                         host : HostURL, tls : HostURL, ssh : HostURL]]
  /\ backend \in Backends
  /\ mode \in {"normal", "auth", "connecting", "notice"}
  /\ dialog \in HostURL
  /\ busy \in BOOLEAN
  /\ reconnecting \in BOOLEAN
  /\ serverUp \in BOOLEAN
  /\ pingSeq \in Nat
  /\ pingInFlight \in BOOLEAN
  /\ runtime \in Backends
  /\ tunnels \subseteq HostURL
  /\ IsABag(flying) /\ DOMAIN flying \subseteq Cmd

Made(c, h, settings) ==
  conn' = [conn EXCEPT ![c] = [state |-> "open", host |-> h,
                               tls |-> settings.tls, ssh |-> settings.ssh]]

\* The program starts connected, or with a backend that only answers errors
\* (no host given, or the first connect failed).
Init ==
  /\ \E h \in Given, c \in {FirstConn, Offline} :
       /\ h = NoHost => c = Offline
       /\ cfg = [host |-> h, tls |-> h, ssh |-> h]
       /\ backend = c
       /\ conn = [d \in Conns |->
                    IF d = c THEN [state |-> "open", host |-> h, tls |-> h, ssh |-> h]
                    ELSE [state |-> "unmade", host |-> NoHost, tls |-> NoHost, ssh |-> NoHost]]
       /\ serverUp \in IF c = Offline THEN {FALSE} ELSE {TRUE}
       /\ flying = SetToBag({Probe(c, 0)} \cup (IF c = Offline THEN {} ELSE {OnConn("call", c)}))
  /\ mode = "normal" /\ dialog = NoHost /\ busy = FALSE
  /\ reconnecting = FALSE
  /\ pingSeq = 0 /\ pingInFlight = FALSE /\ runtime = Offline
  /\ tunnels = {}

----------------------------------------------------------------------------
(* The user: the connect dialogs, operations, tunnels. *)

\* Enter or :connect on a saved host.
BeginConnect(h) ==
  /\ mode = "normal" /\ Room
  /\ IF h \in AskPass
       THEN /\ cfg' = [cfg EXCEPT !.tls = h]
            /\ mode' = "auth" /\ busy' = FALSE
            /\ UNCHANGED flying
       ELSE /\ cfg' = [cfg EXCEPT !.tls = h, !.ssh = h]
            /\ mode' = "connecting" /\ busy' = TRUE
            /\ Start({Dial("connect", h)})
  /\ dialog' = h
  /\ UNCHANGED <<conn, backend, reconnecting, heartVars, tunnels>>

\* Enter in the credential prompt.
AuthEnter ==
  /\ mode = "auth" /\ ~busy /\ Room
  /\ cfg' = [cfg EXCEPT !.ssh = dialog, !.host = dialog]
  /\ busy' = TRUE
  /\ Start({Dial("connect", dialog)})
  /\ UNCHANGED <<conn, backend, mode, dialog, reconnecting, heartVars, tunnels>>

\* Enter in the progress window, once it shows a failure.
ConnectAgain ==
  /\ mode = "connecting" /\ ~busy /\ Room
  /\ busy' = TRUE
  /\ Start({Dial("connect", dialog)})
  /\ UNCHANGED <<cfg, conn, backend, mode, dialog, reconnecting, heartVars, tunnels>>

CloseDialog == mode' = "normal" /\ dialog' = NoHost /\ busy' = FALSE

\* Esc closes a dialog and leaves its dial running.
Esc ==
  /\ mode # "normal"
  /\ CloseDialog
  /\ UNCHANGED <<cfg, conn, backend, reconnecting, heartVars, tunnels, flying>>

\* Any other operation of the user is a call on the backend of that moment;
\* opening a tunnel resolves its target first.
UserCall ==
  /\ mode = "normal" /\ Room
  /\ \E kind \in {"call", "forward"} :
       /\ kind = "forward" => HostOf(backend) \in CanForward
       /\ Start({OnConn(kind, backend)})
  /\ UNCHANGED <<cfg, conn, backend, dialogVars, reconnecting, heartVars, tunnels>>

\* portfwd.Start, on the goroutine of the command: the tunnel is listed even
\* when the session has left that backend.
ForwardRun(e) ==
  /\ e.kind = "forward"
  /\ tunnels' \in {tunnels, tunnels \cup {HostOf(e.conn)}}
  /\ Then(e, {})
  /\ UNCHANGED <<cfg, conn, backend, dialogVars, reconnecting, heartVars>>

----------------------------------------------------------------------------
(* The heartbeat. *)

\* While reconnecting a tick only re-arms itself.
Tick ==
  /\ ~reconnecting /\ Room
  /\ \E refresh \in SUBSET {OnConn("call", backend)} :
       LET ping == IF pingInFlight THEN {} ELSE {Ping(backend, pingSeq)}
       IN refresh \cup ping # {} /\ Start(refresh \cup ping)
  /\ pingInFlight' = TRUE
  /\ UNCHANGED <<cfg, conn, backend, dialogVars, reconnecting, serverUp, pingSeq, runtime, tunnels>>

\* maybeStartReconnect, for an error that means the connection is lost.
CanReconnect == ~reconnecting /\ cfg.host # NoHost
StartReconnect(e) ==
  /\ reconnecting' = TRUE
  /\ serverUp' = FALSE
  /\ Then(e, {Dial("retry", cfg.host)})

MutantCurrent(e) == TRUE
Current(e) == e.seq = pingSeq

PingStale(e) ==
  /\ e.kind = "ping" /\ ~Current(e)
  /\ Then(e, {})
  /\ UNCHANGED <<cfg, conn, backend, dialogVars, reconnecting, heartVars, tunnels>>

\* A reconnect kicked off while the ping was in flight owns the state.
MutantPingHeeded == TRUE
PingHeeded == ~reconnecting

\* The answer of a ping of this generation: ok, lost (a connection error) or
\* failed otherwise.
PingDone(e, answer) ==
  /\ e.kind = "ping" /\ Current(e)
  /\ answer = "ok" => e.conn # Offline
  /\ pingInFlight' = FALSE
  /\ IF ~PingHeeded
       THEN Then(e, {}) /\ UNCHANGED <<reconnecting, serverUp>>
     ELSE IF answer = "lost" /\ CanReconnect
       THEN StartReconnect(e)
     ELSE /\ serverUp' = (answer = "ok")
          /\ Then(e, IF answer = "ok" /\ runtime = Offline THEN {Probe(backend, pingSeq)} ELSE {})
          /\ UNCHANGED reconnecting
  /\ UNCHANGED <<cfg, conn, backend, dialogVars, pingSeq, runtime, tunnels>>

\* runtimeMsg: the engine behind the probed connection, or unknown.
ProbeDone(e) ==
  /\ e.kind = "probe"
  /\ runtime' \in IF Current(e) THEN {e.conn, Offline} ELSE {runtime}
  /\ Then(e, {})
  /\ UNCHANGED <<cfg, conn, backend, dialogVars, reconnecting, serverUp, pingSeq, pingInFlight, tunnels>>

\* A call ends well, or with an error that is only shown.
CallDone(e) ==
  /\ e.kind = "call"
  /\ Then(e, {})
  /\ UNCHANGED <<cfg, conn, backend, dialogVars, reconnecting, heartVars, tunnels>>

\* errMsg with a lost connection, whichever backend the call was made on.
CallLost(e) ==
  /\ e.kind = "call" /\ CanReconnect
  /\ StartReconnect(e)
  /\ UNCHANGED <<cfg, conn, backend, dialogVars, pingSeq, pingInFlight, runtime, tunnels>>

----------------------------------------------------------------------------
(* Dials. *)

\* connectCmd runs: it copies the live configuration and dials.
ConnectRun(e) ==
  /\ e.kind = "connect"
  /\ \/ /\ Unmade # {}
        /\ Made(NewConn, e.host, cfg)
        /\ Then(e, {Dialed("connected", e.host, NewConn)})
     \/ Then(e, {Dialed("connected", e.host, Offline)}) /\ UNCHANGED conn
  /\ UNCHANGED <<cfg, backend, dialogVars, reconnecting, heartVars, tunnels>>

\* connectResultMsg with an error: the open dialog shows it, or the footer, or
\* a notice replaces whatever is open (the command that sends openNoticeMsg
\* returns at once and is part of this step).
ConnectFailed(e) ==
  /\ e.kind = "connected" /\ e.conn = Offline
  /\ \/ mode \in {"auth", "connecting"} /\ busy' = FALSE /\ UNCHANGED <<mode, dialog>>
     \/ mode \notin {"auth", "connecting"} /\ UNCHANGED dialogVars
     \/ mode' = "notice" /\ dialog' = NoHost /\ busy' = FALSE
  /\ Then(e, {})
  /\ UNCHANGED <<cfg, conn, backend, reconnecting, heartVars, tunnels>>

MutantSameSeq == pingSeq
MutantLowerSeq == pingSeq - 1
NextSeq == pingSeq + 1

\* What both ways to a new backend share: its runtime is to be probed, pings of
\* the old generation no longer count, and no reconnect is under way.
Adopt(c) ==
  /\ backend' = c
  /\ runtime' = Offline
  /\ pingSeq' = NextSeq /\ pingInFlight' = FALSE
  /\ serverUp' = TRUE
  /\ reconnecting' = FALSE

CloseOf(c) == IF c = Offline THEN {} ELSE {OnConn("close", c)}

\* connectResultMsg: the session moves to the new host, whatever it was doing.
\* The old backend is closed on the event loop, its tunnels with it.
Connected(e) ==
  /\ e.kind = "connected" /\ e.conn # Offline
  /\ Adopt(e.conn)
  /\ conn' = [c \in Conns |-> IF c = backend THEN [conn[c] EXCEPT !.state = "closed"] ELSE conn[c]]
  /\ tunnels' = {}
  /\ cfg' = [cfg EXCEPT !.host = e.host]
  /\ CloseDialog
  /\ Then(e, {OnConn("call", e.conn), Probe(e.conn, NextSeq)})

\* reconnectCmd runs, its delay over.  A backend that fails its first ping is
\* closed at once.
RetryRun(e) ==
  /\ e.kind = "retry"
  /\ \/ /\ Unmade # {}
        /\ Made(NewConn, e.host, cfg)
        /\ Then(e, {Dialed("retried", e.host, NewConn)})
     \/ Then(e, {Dialed("retried", e.host, Offline)}) /\ UNCHANGED conn
  /\ UNCHANGED <<cfg, backend, dialogVars, reconnecting, heartVars, tunnels>>

\* reconnectResultMsg after a recovery or a switch of hosts.
MutantLateRetry(e) == {}
LateRetry(e) == CloseOf(e.conn)
RetryDropped(e) ==
  /\ e.kind = "retried" /\ ~reconnecting
  /\ Then(e, LateRetry(e))
  /\ UNCHANGED <<cfg, conn, backend, dialogVars, reconnecting, heartVars, tunnels>>

\* The next attempt, for the host of that moment.
MutantNextAttempt == {}
NextAttempt == {Dial("retry", cfg.host)}
RetryFailed(e) ==
  /\ e.kind = "retried" /\ reconnecting /\ e.conn = Offline
  /\ Then(e, NextAttempt)
  /\ UNCHANGED <<cfg, conn, backend, dialogVars, reconnecting, heartVars, tunnels>>

\* The tunnels stay and dial through the new backend; the old one is closed in
\* the background.
MutantReplaced(e) == {}
Replaced(e) == CloseOf(backend)
Reconnected(e) ==
  /\ e.kind = "retried" /\ reconnecting /\ e.conn # Offline
  /\ Adopt(e.conn)
  /\ \E refresh \in SUBSET {OnConn("call", e.conn)} :
       Then(e, Replaced(e) \cup refresh \cup {Probe(e.conn, NextSeq)})
  /\ UNCHANGED <<cfg, conn, dialogVars, tunnels>>

\* closeBackendCmd runs.
CloseRun(e) ==
  /\ e.kind = "close"
  /\ conn' = [conn EXCEPT ![e.conn].state = "closed"]
  /\ Then(e, {})
  /\ UNCHANGED <<cfg, backend, dialogVars, reconnecting, heartVars, tunnels>>

----------------------------------------------------------------------------
Dispatch(e) ==
  \/ ForwardRun(e) \/ PingStale(e) \/ \E a \in {"ok", "lost", "failed"} : PingDone(e, a)
  \/ ProbeDone(e) \/ CallDone(e) \/ CallLost(e)
  \/ ConnectRun(e) \/ ConnectFailed(e) \/ Connected(e)
  \/ RetryRun(e) \/ RetryDropped(e) \/ RetryFailed(e) \/ Reconnected(e) \/ CloseRun(e)

Next ==
  \/ \E h \in Hosts : BeginConnect(h)
  \/ AuthEnter \/ ConnectAgain \/ Esc \/ UserCall \/ Tick
  \/ \E e \in DOMAIN flying : Dispatch(e)

\* Each result is delivered and each background close runs: goroutines do not
\* starve, and the event loop takes every message it is sent.  Nothing is
\* assumed of dials, which may take forever, or of the user.
Fairness == \A c \in Conns :
  WF_vars(\E e \in DOMAIN flying : e.conn = c /\ (Connected(e) \/ RetryDropped(e) \/ Reconnected(e) \/ CloseRun(e)))

Spec == Init /\ [][Next]_vars /\ Fairness

----------------------------------------------------------------------------
(* Properties. *)

\* A session that says it is reconnecting has a retry under way: no order of
\* answers, switches and failures leaves it waiting for an attempt nobody makes
\* (ticks fetch nothing and no error starts a retry while the flag is up).
RetryUnderWay == reconnecting => Flying("retry") \cup Flying("retried") # {}

\* The heartbeat's gate: the flag is up exactly while one ping of this backend's
\* generation is in flight, so pings neither pile up nor stop for good.
PingGate ==
  /\ \A e \in Flying("ping") :
       e.seq = pingSeq => pingInFlight /\ e = Ping(backend, pingSeq) /\ flying[e] = 1
  /\ pingInFlight => \E e \in Flying("ping") : e.seq = pingSeq

\* The engine in the header is the engine of the backend in use: an answer of a
\* replaced one never labels its successor.
RuntimeOfBackend == runtime \in {backend, Offline}

\* The status dot stays down while the session reconnects, whatever late pings say.
DownWhileReconnecting == reconnecting => ~serverUp

\* The heartbeat: pings and probes are of the backend in use (tickMsg,
\* pingResultMsg, runtimeMsg).
HeartbeatRight == PingGate /\ RuntimeOfBackend

\* Reconnecting: never without an attempt under way, and shown as down until it
\* succeeds (errMsg, reconnectResultMsg).
ReconnectRight == RetryUnderWay /\ DownWhileReconnecting

\* Every open connection has exactly one owner: the session, a result on its way
\* to the event loop, or the goroutine that will close it.  None leaks and none
\* is closed twice or under the session.
Owns(e, c) == e.kind \in {"connected", "retried", "close"} /\ e.conn = c
Owners(c) == {e \in DOMAIN flying : Owns(e, c)}
OneOwner == \A c \in Conns :
  IF conn[c].state = "open"
    THEN \/ backend = c /\ Owners(c) = {}
         \/ backend # c /\ \E e \in Owners(c) : Owners(c) = {e} /\ flying[e] = 1
    ELSE backend # c /\ Owners(c) = {}

\* A connection that is open is in use, or will be in use or closed: dropped
\* results and replaced backends are not left behind.
OpenIsUsedOrClosed == \A c \in Conns :
  (conn[c].state = "open") ~> (backend = c \/ conn[c].state = "closed")

\* update.go:721 of a reconnect: "Same host, new connection: tunnels keep
\* listening and dial through it".  A tunnel kept over a change of backend has
\* its host on the other end still.
TunnelsKeepHost == [][
  backend' # backend /\ tunnels' # {} => HostOf(backend)' \in {HostOf(backend), NoHost}]_vars

\* model.go:1237 of reconnectCmd: "The config is copied (and the host pinned) so
\* a concurrent :connect can't race it".  A dial uses the settings of its host.
OwnSettings == \A c \in Conns : conn[c].tls = conn[c].host /\ conn[c].ssh = conn[c].host

\* readonly.go:22, "for the host the session is connected to": mutating actions
\* are forbidden exactly when the host of the backend is saved as read_only.
ReadOnlyNow == cfg.host \in ReadOnly
ReadOnlyFollowsBackend == backend # Offline => (ReadOnlyNow <=> HostOf(backend) \in ReadOnly)
=============================================================================
