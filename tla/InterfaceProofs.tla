--------------------------- MODULE InterfaceProofs ---------------------------
(***************************************************************************)
(* Proofs about what the terminal interface shows.  The streaming views    *)
(* (Streams.tla): types, ownership of the streams, and what the two        *)
(* viewers show.  The lists (Lists.tla): rows that fit the table, a cursor *)
(* and marks that stay on what the user pointed at.                        *)
(***************************************************************************)
EXTENDS Streams, Lists, Facts, TLAPS

----------------------------------------------------------------------------
(* The bag in flight, and what a step may do to streams. *)

\* What handling e and starting out does to the bag in flight.
LEMMA ThenFacts ==
  ASSUME IsABag(flying), NEW e \in DOMAIN flying, NEW out, Then(e, out)
  PROVE /\ IsABag(flying')
        /\ DOMAIN flying' \subseteq DOMAIN flying \cup out
        /\ out \subseteq DOMAIN flying'
        /\ \A x \in DOMAIN flying : x # e => x \in DOMAIN flying'
        /\ flying[e] = 1 /\ e \notin out => e \notin DOMAIN flying'
        /\ \A x \in DOMAIN flying : x # e /\ x \notin out => flying'[x] = flying[x]
        /\ \A x \in out : x \notin DOMAIN flying => flying'[x] = 1
  <1>1. /\ IsABag(flying')
        /\ DOMAIN flying' \subseteq DOMAIN flying \cup out
        /\ out \subseteq DOMAIN flying'
        /\ \A x \in DOMAIN flying : x # e => x \in DOMAIN flying'
        /\ flying[e] = 1 /\ e \notin out => e \notin DOMAIN flying'
    BY Exchanged DEF Then
  <1>2. \A x \in DOMAIN flying : x # e /\ x \notin out => flying'[x] = flying[x]
    BY ExchangedKeeps DEF Then
  <1>3. \A x \in out : x \notin DOMAIN flying => flying'[x] = 1
    BY ExchangedOnce DEF Then
  <1> QED BY <1>1, <1>2, <1>3

\* A key that starts a command adds it.
Start(out) == flying' = flying (+) SetToBag(out)

\* What that does to the bag.
LEMMA StartFacts ==
  ASSUME IsABag(flying), NEW out, Start(out)
  PROVE IsABag(flying') /\ DOMAIN flying' = DOMAIN flying \cup out
  BY Added DEF Start

\* The others keep their number.
LEMMA StartKeeps ==
  ASSUME IsABag(flying), NEW out, Start(out)
  PROVE \A x \in DOMAIN flying : x \notin out => flying'[x] = flying[x]
  BY AddedKeeps DEF Start

\* The messages the views exchange are well formed.
LEMMA MsgTypes ==
  /\ \A x \in Subjects : Open(x) \in Msg
  /\ \A x \in Subjects, s \in Channel : Opened(x, s) \in Msg /\ Read(x, s) \in Msg /\ Ended(x, s) \in Msg
  /\ \A x \in Subjects, s \in Channel, i, j \in Nat : Lines(x, s, i, j) \in Msg
  BY StreamsAssumption DEF Open, Opened, Read, Ended, Lines, Msg, Channel

\* Opening makes a stream that nothing refers to yet.
LEMMA NewStreamUnmade == Unmade # {} => NewStream \in Unmade
  BY DEF NewStream

\* Stopping streams only raises their flag.
LEMMA StoppedFacts ==
  ASSUME TypeOK, NEW S
  PROVE /\ Stopped(S) \in [Streams -> Stream]
        /\ \A s \in Streams : Stopped(S)[s].state = stream[s].state
        /\ \A s \in Streams : Stopped(S)[s].of = stream[s].of
        /\ \A s \in Streams : Stopped(S)[s].taken = stream[s].taken
        /\ \A s \in Streams : Stopped(S)[s].sent = stream[s].sent
        /\ \A s \in Streams : stream[s].stopped => Stopped(S)[s].stopped
        /\ \A s \in Streams : s \in S => Stopped(S)[s].stopped
  <1>1. \A s \in Streams : [stream[s] EXCEPT !.stopped = TRUE] \in Stream
    BY DEF TypeOK, Stream
  <1> QED BY <1>1 DEF Stopped, TypeOK, Stream

----------------------------------------------------------------------------
(* The inductive invariant. *)

Made(s) == stream[s].state # "unmade"

\* A message about a channel is about the stream's own subject; a batch is never
\* empty, and the only trace of a stream just opened is the message that says so.
MsgInv == \A e \in DOMAIN flying :
  /\ e.what \in {"opened", "lines", "end"} => e.ch # NoCh
  /\ e.what = "open" => e.ch = NoCh
  /\ e.ch # NoCh => stream[e.ch].of = e.of /\ Made(e.ch)
  /\ e.what = "lines" => e.first <= e.last
  /\ e.what = "opened" =>
       /\ flying[e] = 1 /\ stream[e.ch].taken = 0 /\ e.ch \notin {logCh, eventCh}
       /\ \A d \in DOMAIN flying : d.ch = e.ch => d = e

\* The channels of the viewers are streams of what they show.
ViewInv ==
  /\ opTitle \in {NoTitle, logID} /\ logID # Feed
  /\ logCh # NoCh => stream[logCh].of = logID /\ Made(logCh)
  /\ eventCh # NoCh => stream[eventCh].of = Feed /\ Made(eventCh)
  /\ \A s \in shown : Made(s)

FreshInv == \A s \in Streams : ~Made(s) => stream[s].taken = 0

Ties == MsgInv /\ ViewInv /\ FreshInv

----------------------------------------------------------------------------
(* Types. *)

\* The interface starts with empty views and no stream (NewModel).
LEMMA InitTypeOK == Init => TypeOK
  <1> SUFFICES ASSUME Init PROVE TypeOK
    OBVIOUS
  <1>1. IsABag(flying) /\ DOMAIN flying = {}
    BY DEF Init, EmptyBag, SetToBag, IsABag
  <1>2. stream \in [Streams -> Stream]
    BY DEF Init, Stream, Subjects
  <1>3. feed \in Seq(Streams \X Nat)
    <2>1. \A S : <<>> \in Seq(S)
      OBVIOUS
    <2> QED BY <2>1 DEF Init
  <1> QED BY <1>1, <1>2, <1>3 DEF Init, TypeOK, Channel

\* Starting well-formed commands keeps the bag a bag of messages.
LEMMA StartTypes ==
  ASSUME TypeOK, NEW out, Start(out), out \subseteq Msg
  PROVE IsABag(flying') /\ DOMAIN flying' \subseteq Msg
  <1>1. IsABag(flying') /\ DOMAIN flying' = DOMAIN flying \cup out
    BY StartFacts DEF TypeOK
  <1>2. DOMAIN flying \subseteq Msg
    BY DEF TypeOK
  <1> QED BY <1>1, <1>2

\* Every command, message, key and producer keeps the types.
LEMMA StepTypeOK == TypeOK /\ MsgInv /\ [Next]_vars => TypeOK'
  <1> SUFFICES ASSUME TypeOK, MsgInv, [Next]_vars PROVE TypeOK'
    OBVIOUS
  <1> USE StreamsAssumption
  <1> USE DEF logVars, eventVars, Channel
  <1>f. <<>> \in Seq(Streams \X Nat)
    <2>1. \A S : <<>> \in Seq(S)
      OBVIOUS
    <2> QED BY <2>1
  <1>0. CASE UNCHANGED vars
    BY <1>0 DEF vars, TypeOK
  <1>1. ASSUME NEW s \in Streams, Scan(s) \/ Send(s) \/ Quit(s) \/ SourceEnds(s)
        PROVE TypeOK'
    <2>1. stream' \in [Streams -> Stream]
      <3>s. stream[s] \in Stream /\ stream \in [Streams -> Stream]
        BY DEF TypeOK
      <3>1. CASE Scan(s)
        <4>1. stream' = [stream EXCEPT ![s].sent = @ + 1] \/ stream' = [stream EXCEPT ![s].holds = TRUE]
          BY <3>1 DEF Scan
        <4>2. stream[s].sent + 1 \in Nat
          BY <3>s DEF Stream
        <4>3. CASE stream' = [stream EXCEPT ![s].sent = @ + 1]
          BY <3>s, <4>2, <4>3 DEF Stream
        <4>4. CASE stream' = [stream EXCEPT ![s].holds = TRUE]
          BY <3>s, <4>4 DEF Stream
        <4> QED BY <4>1, <4>3, <4>4
      <3>2. CASE Send(s)
        BY <3>s, <3>2 DEF Send, Stream
      <3>3. CASE Quit(s)
        BY <3>s, <3>3 DEF Quit, Stream
      <3>4. CASE SourceEnds(s)
        BY <3>s, <3>4 DEF SourceEnds, Stream
      <3> QED BY <1>1, <3>1, <3>2, <3>3, <3>4
    <2> QED BY <1>1, <2>1 DEF Scan, Send, Quit, SourceEnds, TypeOK
  <1>2. ASSUME NEW x \in Subjects, Ask(x) PROVE TypeOK'
    <2>1. Start({Open(x)}) /\ {Open(x)} \subseteq Msg
      BY <1>2, MsgTypes DEF Ask, Start
    <2>2. IsABag(flying') /\ DOMAIN flying' \subseteq Msg
      BY <2>1, StartTypes
    <2> QED BY <1>2, <2>2 DEF Ask, TypeOK
  <1>3. ASSUME NEW e \in DOMAIN flying, Dispatch(e) PROVE TypeOK'
    <2>e. e \in Msg /\ e.of \in Subjects /\ e.ch \in Channel
      BY DEF TypeOK, Msg
    <2>t. ASSUME NEW out, Then(e, out), out \subseteq Msg
          PROVE IsABag(flying') /\ DOMAIN flying' \subseteq Msg
      BY <2>t, ThenFacts DEF TypeOK
    <2>1. CASE OpenRun(e)
      <3>1. CASE Unmade # {} /\ stream' = [stream EXCEPT ![NewStream].state = "running", ![NewStream].of = e.of]
                 /\ Then(e, {Opened(e.of, NewStream)}) /\ UNCHANGED told
        <4>1. NewStream \in Streams
          BY <3>1, NewStreamUnmade DEF Unmade
        <4>2. stream' \in [Streams -> Stream]
          <5>1. stream[NewStream] \in Stream /\ stream \in [Streams -> Stream]
            BY <4>1 DEF TypeOK
          <5> QED BY <3>1, <4>1, <2>e, <5>1 DEF Stream
        <4>3. {Opened(e.of, NewStream)} \subseteq Msg
          BY <4>1, <2>e, MsgTypes
        <4>4. IsABag(flying') /\ DOMAIN flying' \subseteq Msg
          BY <3>1, <4>3, <2>t
        <4> QED BY <2>1, <3>1, <4>2, <4>4 DEF OpenRun, TypeOK
      <3>2. CASE Then(e, {}) /\ told' = (told \/ mode = "events") /\ UNCHANGED stream
        <4>1. IsABag(flying') /\ DOMAIN flying' \subseteq Msg
          BY <3>2, <2>t
        <4> QED BY <2>1, <3>2, <4>1 DEF OpenRun, TypeOK
      <3> QED BY <2>1, <3>1, <3>2 DEF OpenRun
    <2>2. CASE Receive(e)
      <3>1. e.ch \in Streams /\ Batch(e.ch) \in Nat /\ stream[e.ch].taken \in Nat
        BY <2>2, <2>e DEF Receive, Batch, TypeOK, Stream
      <3>2. stream' \in [Streams -> Stream]
        <4>1. stream[e.ch] \in Stream /\ stream \in [Streams -> Stream]
          BY <3>1 DEF TypeOK
        <4>2. [stream[e.ch] EXCEPT !.taken = @ + Batch(e.ch)] \in Stream
          BY <3>1, <4>1 DEF Stream
        <4> QED BY <2>2, <3>1, <4>1, <4>2 DEF Receive
      <3>3. {Lines(e.of, e.ch, stream[e.ch].taken + 1, stream[e.ch].taken + Batch(e.ch))} \subseteq Msg
        BY <3>1, <2>e, MsgTypes
      <3>4. IsABag(flying') /\ DOMAIN flying' \subseteq Msg
        BY <2>2, <3>3, <2>t DEF Receive
      <3> QED BY <2>2, <3>2, <3>4 DEF Receive, TypeOK
    <2>3. CASE ReadEnd(e)
      <3>1. (IF e.of \in Containers THEN {} ELSE {Ended(e.of, e.ch)}) \subseteq Msg
        BY <2>e, MsgTypes
      <3>2. IsABag(flying') /\ DOMAIN flying' \subseteq Msg
        BY <2>3, <3>1, <2>t DEF ReadEnd
      <3> QED BY <2>3, <3>2 DEF ReadEnd, TypeOK
    <2>4. CASE LogOpened(e)
      <3>1. {Read(e.of, e.ch)} \subseteq Msg
        BY <2>e, MsgTypes
      <3>2. IsABag(flying') /\ DOMAIN flying' \subseteq Msg
        BY <2>4, <3>1, <2>t DEF LogOpened
      <3>3. stream' \in [Streams -> Stream]
        BY <2>4, StoppedFacts DEF LogOpened, ReplacesLog
      <3> QED BY <2>4, <2>e, <3>2, <3>3 DEF LogOpened, Console, TypeOK
    <2>5. CASE EventsOpened(e)
      <3>1. {Read(Feed, e.ch)} \subseteq Msg
        BY <2>e, MsgTypes DEF Subjects
      <3>2. IsABag(flying') /\ DOMAIN flying' \subseteq Msg
        BY <2>5, <3>1, <2>t DEF EventsOpened
      <3>3. stream' \in [Streams -> Stream]
        BY <2>5, StoppedFacts DEF EventsOpened
      <3> QED BY <2>5, <2>e, <1>f, <3>2, <3>3 DEF EventsOpened, TypeOK
    <2>6. CASE LogLines(e)
      <3>1. {Read(e.of, logCh)} \subseteq Msg
        BY <2>e, MsgTypes DEF TypeOK
      <3>2. e.ch \in Streams
        BY <2>6, <2>e DEF LogLines, MsgInv
      <3>3. IsABag(flying') /\ DOMAIN flying' \subseteq Msg
        BY <2>6, <3>1, <2>t DEF LogLines
      <3> QED BY <2>6, <3>2, <3>3 DEF LogLines, TypeOK
    <2>7. CASE OpDone(e)
      <3>1. IsABag(flying') /\ DOMAIN flying' \subseteq Msg
        BY <2>7, <2>t DEF OpDone
      <3> QED BY <2>7, <3>1 DEF OpDone, TypeOK
    <2>8. CASE EventLines(e)
      <3>1. e.ch \in Streams /\ e.first \in Nat /\ e.last \in Nat /\ e.first <= e.last
        BY <2>8, <2>e DEF EventLines, MsgInv, Msg
      <3>2. NewLines(e) \in Seq(Streams \X Nat)
        <4>1. e.last - e.first + 1 \in Nat
          BY <3>1
        <4>2. \A i \in 1..(e.last - e.first + 1) : <<e.ch, e.first + i - 1>> \in Streams \X Nat
          BY <3>1
        <4> QED BY <4>1, <4>2 DEF NewLines
      <3>3. feed' \in Seq(Streams \X Nat)
        <4>1. \A S : \A p, q \in Seq(S) : p \o q \in Seq(S)
          OBVIOUS
        <4>2. feed \o NewLines(e) \in Seq(Streams \X Nat)
          BY <3>2, <4>1 DEF TypeOK
        <4> QED BY <2>8, <4>2 DEF EventLines, TypeOK
      <3>4. FeedReader \subseteq Msg
        BY MsgTypes DEF TypeOK, FeedReader, Subjects
      <3>5. IsABag(flying') /\ DOMAIN flying' \subseteq Msg
        BY <2>8, <3>4, <2>t DEF EventLines
      <3> QED BY <2>8, <3>3, <3>5 DEF EventLines, TypeOK
    <2>9. CASE EventsClosed(e)
      <3>1. IsABag(flying') /\ DOMAIN flying' \subseteq Msg
        BY <2>9, <2>t DEF EventsClosed
      <3>2. stream' \in [Streams -> Stream]
        BY <2>9, StoppedFacts DEF EventsClosed, TypeOK
      <3> QED BY <2>9, <3>1, <3>2 DEF EventsClosed, ReleaseEvents, TypeOK
    <2> QED BY <1>3, <2>1, <2>2, <2>3, <2>4, <2>5, <2>6, <2>7, <2>8, <2>9 DEF Dispatch
  <1>4. CASE Esc
    BY <1>4, StoppedFacts DEF Esc, ReleaseLog, ReleaseEvents, TypeOK
  <1>5. CASE Resubscribe
    <2>1. Start({Open(Feed)}) /\ {Open(Feed)} \subseteq Msg
      BY <1>5, MsgTypes DEF Resubscribe, Start, Subjects
    <2>2. IsABag(flying') /\ DOMAIN flying' \subseteq Msg
      BY <2>1, StartTypes
    <2>3. stream' \in [Streams -> Stream]
      BY <1>5, StoppedFacts DEF Resubscribe
    <2> QED BY <1>5, <1>f, <2>2, <2>3 DEF Resubscribe, ReleaseEvents, TypeOK
  <1>6. CASE OtherWindow
    BY <1>6 DEF OtherWindow, TypeOK
  <1>7. CASE SwitchHost \/ Reconnected
    BY <1>7, StoppedFacts DEF SwitchHost, Reconnected, ReleaseLog, ReleaseEvents, TypeOK
  <1> QED BY <1>0, <1>1, <1>2, <1>3, <1>4, <1>5, <1>6, <1>7 DEF Next

----------------------------------------------------------------------------
(* Ownership. *)

\* Nothing runs at the start.
LEMMA InitOwned == Init => RunningIsOwned
  BY DEF Init, RunningIsOwned

\* A step that makes no stream, and keeps the viewers' stop functions or stops
\* what it takes from them, leaves no stream unowned.
LEMMA OwnedKept ==
  ASSUME TypeOK, RunningIsOwned,
         \A s \in Streams : stream'[s].state = "running" => stream[s].state = "running",
         \A s \in Streams : stream[s].stopped => stream'[s].stopped,
         \A s \in Streams : s = logStop => s = logStop' \/ stream'[s].stopped,
         \A s \in Streams : s = eventStop => s = eventStop' \/ stream'[s].stopped,
         \A d \in DOMAIN flying : d.what = "opened" =>
           d \in DOMAIN flying' \/ d.ch \in {logStop', eventStop'},
         logCh' \in {logStop', NoCh}, eventCh' = eventStop'
  PROVE RunningIsOwned'
  <1>1. ASSUME NEW s \in Streams, stream'[s].state = "running", ~stream'[s].stopped
        PROVE s \in {logStop', eventStop'} \/ \E d \in DOMAIN flying' : d.what = "opened" /\ d.ch = s
    <2>1. stream[s].state = "running" /\ (stream[s].stopped => stream'[s].stopped)
      BY <1>1
    <2>2. s \in {logStop, eventStop} \/ \E d \in DOMAIN flying : d.what = "opened" /\ d.ch = s
      BY <1>1, <2>1 DEF RunningIsOwned
    <2> QED BY <1>1, <2>2
  <1> QED BY <1>1 DEF RunningIsOwned

\* Every step keeps every running stream in someone's hands.
LEMMA StepOwned == TypeOK /\ MsgInv /\ RunningIsOwned /\ [Next]_vars => RunningIsOwned'
  <1> SUFFICES ASSUME TypeOK, MsgInv, RunningIsOwned, [Next]_vars PROVE RunningIsOwned'
    OBVIOUS
  <1> USE StreamsAssumption
  <1> USE DEF logVars, eventVars
  <1>v. logCh \in {logStop, NoCh} /\ eventCh = eventStop
    BY DEF RunningIsOwned
  <1>w. stream \in [Streams -> Stream]
    BY DEF TypeOK
  <1>0. CASE UNCHANGED vars
    BY <1>0 DEF vars, RunningIsOwned
  <1>1. ASSUME NEW s \in Streams, Scan(s) \/ Send(s) \/ Quit(s) \/ SourceEnds(s)
        PROVE RunningIsOwned'
    <2>1. \A d \in Streams : /\ stream'[d].state = "running" => stream[d].state = "running"
                             /\ stream[d].stopped => stream'[d].stopped
      BY <1>1, <1>w DEF Scan, Send, Quit, SourceEnds, Stream
    <2>2. UNCHANGED <<logVars, eventVars, flying>>
      BY <1>1 DEF Scan, Send, Quit, SourceEnds
    <2> QED BY <1>v, <2>1, <2>2, OwnedKept
  <1>2. ASSUME NEW x \in Subjects, Ask(x) PROVE RunningIsOwned'
    <2>1. DOMAIN flying \subseteq DOMAIN flying'
      BY <1>2, StartFacts DEF Ask, Start, TypeOK
    <2> QED BY <1>2, <1>v, <2>1, OwnedKept DEF Ask
  <1>3. ASSUME NEW e \in DOMAIN flying, Dispatch(e) PROVE RunningIsOwned'
    <2>e. e \in Msg /\ e.ch \in Channel
      BY DEF TypeOK, Msg
    <2>n. ASSUME NEW out, Then(e, out), e.what # "opened"
          PROVE \A d \in DOMAIN flying : d.what = "opened" => d \in DOMAIN flying'
      BY <2>n, ThenFacts DEF TypeOK
    <2>1. CASE OpenRun(e)
      <3>1. CASE Unmade # {} /\ stream' = [stream EXCEPT ![NewStream].state = "running", ![NewStream].of = e.of]
                 /\ Then(e, {Opened(e.of, NewStream)}) /\ UNCHANGED told
        <4>1. NewStream \in Streams
          BY <3>1, NewStreamUnmade DEF Unmade
        <4>2. Opened(e.of, NewStream) \in DOMAIN flying'
          BY <3>1, ThenFacts DEF TypeOK
        <4>3. \A d \in DOMAIN flying : d.what = "opened" => d \in DOMAIN flying'
          BY <2>1, <3>1, <2>n DEF OpenRun
        <4>4. \A s \in Streams : s # NewStream => stream'[s] = stream[s]
          BY <3>1, <1>w
        <4> QED BY <2>1, <3>1, <4>1, <4>2, <4>3, <4>4 DEF OpenRun, Opened, RunningIsOwned
      <3>2. CASE Then(e, {}) /\ told' = (told \/ mode = "events") /\ UNCHANGED stream
        <4>1. \A d \in DOMAIN flying : d.what = "opened" => d \in DOMAIN flying'
          BY <2>1, <3>2, <2>n DEF OpenRun
        <4> QED BY <1>v, <2>1, <3>2, <4>1, OwnedKept DEF OpenRun
      <3> QED BY <2>1, <3>1, <3>2 DEF OpenRun
    <2>2. CASE Receive(e)
      <3>1. \A s \in Streams : stream'[s].state = stream[s].state /\ stream'[s].stopped = stream[s].stopped
        BY <2>2, <1>w, <2>e DEF Receive, Stream
      <3>2. \A d \in DOMAIN flying : d.what = "opened" => d \in DOMAIN flying'
        BY <2>2, <2>n DEF Receive
      <3> QED BY <1>v, <2>2, <3>1, <3>2, OwnedKept DEF Receive
    <2>3. CASE ReadEnd(e)
      <3>1. \A d \in DOMAIN flying : d.what = "opened" => d \in DOMAIN flying'
        BY <2>3, <2>n DEF ReadEnd
      <3> QED BY <1>v, <2>3, <3>1, OwnedKept DEF ReadEnd
    <2>4. CASE LogOpened(e)
      <3>1. \A d \in DOMAIN flying : d # e => d \in DOMAIN flying'
        BY <2>4, ThenFacts DEF LogOpened, TypeOK
      <3> QED BY <1>v, <2>4, <3>1, OwnedKept, StoppedFacts DEF LogOpened, ReplacesLog
    <2>5. CASE EventsOpened(e)
      <3>1. \A d \in DOMAIN flying : d # e => d \in DOMAIN flying'
        BY <2>5, ThenFacts DEF EventsOpened, TypeOK
      <3> QED BY <1>v, <2>5, <3>1, OwnedKept, StoppedFacts DEF EventsOpened
    <2>6. CASE LogLines(e)
      <3>1. \A d \in DOMAIN flying : d.what = "opened" => d \in DOMAIN flying'
        BY <2>6, <2>n DEF LogLines
      <3> QED BY <1>v, <2>6, <3>1, OwnedKept DEF LogLines
    <2>7. CASE OpDone(e)
      <3>1. \A d \in DOMAIN flying : d.what = "opened" => d \in DOMAIN flying'
        BY <2>7, <2>n DEF OpDone
      <3> QED BY <1>v, <2>7, <3>1, OwnedKept DEF OpDone
    <2>8. CASE EventLines(e)
      <3>1. \A d \in DOMAIN flying : d.what = "opened" => d \in DOMAIN flying'
        BY <2>8, <2>n DEF EventLines
      <3> QED BY <1>v, <2>8, <3>1, OwnedKept DEF EventLines
    <2>9. CASE EventsClosed(e)
      <3>1. \A d \in DOMAIN flying : d.what = "opened" => d \in DOMAIN flying'
        BY <2>9, <2>n DEF EventsClosed
      <3> QED BY <1>v, <2>9, <3>1, OwnedKept, StoppedFacts DEF EventsClosed, ReleaseEvents
    <2> QED BY <1>3, <2>1, <2>2, <2>3, <2>4, <2>5, <2>6, <2>7, <2>8, <2>9 DEF Dispatch
  <1>4. CASE Esc
    BY <1>4, <1>v, OwnedKept, StoppedFacts DEF Esc, ReleaseLog, ReleaseEvents
  <1>5. CASE Resubscribe
    <2>1. DOMAIN flying \subseteq DOMAIN flying'
      BY <1>5, StartFacts DEF Resubscribe, Start, TypeOK
    <2> QED BY <1>5, <1>v, <2>1, OwnedKept, StoppedFacts DEF Resubscribe, ReleaseEvents
  <1>6. CASE OtherWindow
    BY <1>6 DEF OtherWindow, RunningIsOwned
  <1>7. CASE SwitchHost \/ Reconnected
    BY <1>7, <1>v, OwnedKept, StoppedFacts DEF SwitchHost, Reconnected, ReleaseLog, ReleaseEvents
  <1> QED BY <1>0, <1>1, <1>2, <1>3, <1>4, <1>5, <1>6, <1>7 DEF Next

----------------------------------------------------------------------------
(* Messages, views and streams stay tied to each other. *)

\* Nothing is in flight or shown at the start.
LEMMA InitTies == Init => Ties
  <1> SUFFICES ASSUME Init PROVE Ties
    OBVIOUS
  <1>1. DOMAIN flying = {}
    BY DEF Init, EmptyBag, SetToBag
  <1> QED BY <1>1, StreamsAssumption DEF Init, Ties, MsgInv, ViewInv, FreshInv, Made, Subjects

\* What most steps leave of the streams: each keeps its subject, and is made or not as before.
Steady == \A s \in Streams : stream'[s].of = stream[s].of /\ (Made(s)' <=> Made(s))

Taken(s) == stream[s].taken

\* Handling e keeps the messages right when those it starts are right, and of
\* the channel of e or of a viewer.
LEMMA MsgKept ==
  ASSUME TypeOK, MsgInv, NEW e \in DOMAIN flying, NEW out, Then(e, out), Steady,
         \A s \in Streams : s # e.ch => Taken(s)' = Taken(s),
         e.what = "opened" => out \subseteq {Read(e.of, e.ch)},
         \A d \in out : d.what \notin {"open", "opened"} /\ d.ch \in Channel
                        /\ (d.what \in {"lines", "end"} => d.ch # NoCh)
                        /\ (d.what = "lines" => d.first <= d.last)
                        /\ d.ch \in {e.ch, logCh, eventCh, NoCh}
                        /\ (d.ch # NoCh => stream[d.ch].of = d.of /\ Made(d.ch)),
         logCh' \in {logCh, NoCh, e.ch}, eventCh' \in {eventCh, NoCh, e.ch}
  PROVE MsgInv'
  <1> USE StreamsAssumption DEF Channel
  <1>t. \A d \in DOMAIN flying : d.ch \in Channel
    BY DEF TypeOK, Msg
  <1>f. /\ DOMAIN flying' \subseteq DOMAIN flying \cup out
        /\ flying[e] = 1 /\ e \notin out => e \notin DOMAIN flying'
        /\ \A x \in DOMAIN flying : x # e /\ x \notin out => flying'[x] = flying[x]
    BY ThenFacts DEF TypeOK
  <1>o. e.what = "opened" => e \notin out
    BY DEF Read
  <1>1. ASSUME NEW d \in DOMAIN flying', d \in out PROVE
          /\ d.what \in {"opened", "lines", "end"} => d.ch # NoCh
          /\ d.what = "open" => d.ch = NoCh
          /\ d.ch # NoCh => stream'[d.ch].of = d.of /\ Made(d.ch)'
          /\ d.what = "lines" => d.first <= d.last
          /\ d.what # "opened"
    BY <1>1 DEF Steady
  <1>2. ASSUME NEW d \in DOMAIN flying PROVE
          /\ d.what \in {"opened", "lines", "end"} => d.ch # NoCh
          /\ d.what = "open" => d.ch = NoCh
          /\ d.ch # NoCh => stream'[d.ch].of = d.of /\ Made(d.ch)'
          /\ d.what = "lines" => d.first <= d.last
    BY <1>2, <1>t DEF Steady, MsgInv
  <1>3. ASSUME NEW d \in DOMAIN flying', d \notin out, d.what = "opened"
        PROVE /\ flying'[d] = 1 /\ stream'[d.ch].taken = 0 /\ d.ch \notin {logCh', eventCh'}
              /\ \A x \in DOMAIN flying' : x.ch = d.ch => x = d
    <2>1. d \in DOMAIN flying
      BY <1>3, <1>f
    <2>2. /\ flying[d] = 1 /\ stream[d.ch].taken = 0 /\ d.ch \notin {logCh, eventCh}
          /\ d.ch # NoCh /\ \A x \in DOMAIN flying : x.ch = d.ch => x = d
      BY <1>3, <2>1 DEF MsgInv
    <2>3. d # e
      BY <1>3, <1>f, <1>o, <2>2
    <2>4. d.ch # e.ch /\ d.ch \in Streams
      BY <1>t, <2>1, <2>2, <2>3
    <2>5. flying'[d] = 1 /\ stream'[d.ch].taken = 0
      BY <1>3, <1>f, <2>1, <2>2, <2>3, <2>4 DEF Taken
    <2>6. \A x \in out : x.ch # d.ch
      BY <2>2, <2>4
    <2> QED BY <1>f, <2>2, <2>4, <2>5, <2>6
  <1> QED BY <1>f, <1>1, <1>2, <1>3 DEF MsgInv

\* So does a key, or a producer.
LEMMA MsgStays ==
  ASSUME TypeOK, MsgInv, Steady, \A s \in Streams : Taken(s)' = Taken(s),
         UNCHANGED flying \/ \E x \in Subjects : Start({Open(x)}),
         logCh' \in {logCh, NoCh}, eventCh' \in {eventCh, NoCh}
  PROVE MsgInv'
  <1> USE StreamsAssumption DEF Channel
  <1>t. \A d \in DOMAIN flying : d.ch \in Channel
    BY DEF TypeOK, Msg
  <1>f. /\ \A d \in DOMAIN flying' : d \in DOMAIN flying \/ (d.what = "open" /\ d.ch = NoCh)
        /\ \A d \in DOMAIN flying : d.what = "opened" => flying'[d] = flying[d]
    <2>1. CASE UNCHANGED flying
      BY <2>1
    <2>2. ASSUME NEW x \in Subjects, Start({Open(x)})
          PROVE /\ \A d \in DOMAIN flying' : d \in DOMAIN flying \/ (d.what = "open" /\ d.ch = NoCh)
                /\ \A d \in DOMAIN flying : d.what = "opened" => flying'[d] = flying[d]
      <3>1. DOMAIN flying' = DOMAIN flying \cup {Open(x)}
        BY <2>2, StartFacts DEF TypeOK
      <3>2. \A d \in DOMAIN flying : d # Open(x) => flying'[d] = flying[d]
        BY <2>2, StartKeeps DEF TypeOK
      <3> QED BY <3>1, <3>2 DEF Open
    <2> QED BY <2>1, <2>2
  <1>1. ASSUME NEW d \in DOMAIN flying', d \in DOMAIN flying PROVE
          /\ d.what \in {"opened", "lines", "end"} => d.ch # NoCh
          /\ d.what = "open" => d.ch = NoCh
          /\ d.ch # NoCh => stream'[d.ch].of = d.of /\ Made(d.ch)'
          /\ d.what = "lines" => d.first <= d.last
    BY <1>1, <1>t DEF Steady, MsgInv
  <1>2. ASSUME NEW d \in DOMAIN flying', d.what = "opened"
        PROVE /\ flying'[d] = 1 /\ stream'[d.ch].taken = 0 /\ d.ch \notin {logCh', eventCh'}
              /\ \A x \in DOMAIN flying' : x.ch = d.ch => x = d
    <2>1. d \in DOMAIN flying
      BY <1>2, <1>f
    <2>2. /\ flying[d] = 1 /\ stream[d.ch].taken = 0 /\ d.ch \notin {logCh, eventCh}
          /\ d.ch # NoCh /\ \A x \in DOMAIN flying : x.ch = d.ch => x = d
      BY <1>2, <2>1 DEF MsgInv
    <2>3. d.ch \in Streams
      BY <1>t, <2>1, <2>2
    <2> QED BY <1>2, <1>f, <2>1, <2>2, <2>3 DEF Taken
  <1> QED BY <1>f, <1>1, <1>2 DEF MsgInv

\* Views keep their channels' subjects, and fresh streams stay fresh.
LEMMA ViewKept ==
  ASSUME TypeOK, ViewInv, FreshInv, Steady,
         \A s \in Streams : ~Made(s) => Taken(s)' = Taken(s),
         UNCHANGED logID, opTitle' \in {opTitle, NoTitle},
         logCh' \in {logCh, NoCh}, eventCh' \in {eventCh, NoCh},
         \A s \in shown' : s \in Streams /\ Made(s)
  PROVE ViewInv' /\ FreshInv'
  <1>1. logCh \in Channel /\ eventCh \in Channel
    BY DEF TypeOK
  <1>2. FreshInv'
    BY DEF FreshInv, Steady, Taken
  <1>3. ViewInv'
    BY <1>1, StreamsAssumption DEF ViewInv, Steady, Channel
  <1> QED BY <1>2, <1>3

\* Every step keeps the ties.
LEMMA StepTies == TypeOK /\ Ties /\ [Next]_vars => Ties'
  <1> SUFFICES ASSUME TypeOK, Ties, [Next]_vars PROVE Ties'
    OBVIOUS
  <1> USE StreamsAssumption
  <1> USE DEF logVars, eventVars, Channel
  <1>i. MsgInv /\ ViewInv /\ FreshInv
    BY DEF Ties
  <1>w. /\ stream \in [Streams -> Stream] /\ logCh \in Channel /\ eventCh \in Channel /\ shown \subseteq Streams
        /\ logID \in Subjects \cup {NoTitle}
    BY DEF TypeOK
  <1>s. \A s \in shown : s \in Streams /\ Made(s)
    BY <1>i, <1>w DEF ViewInv
  <1>k. ASSUME Steady, \A s \in Streams : Taken(s)' = Taken(s),
               UNCHANGED flying \/ \E x \in Subjects : Start({Open(x)}),
               UNCHANGED <<logID, shown>>, opTitle' \in {opTitle, NoTitle},
               logCh' \in {logCh, NoCh}, eventCh' \in {eventCh, NoCh}
        PROVE Ties'
    <2>1. MsgInv'
      BY <1>k, <1>i, MsgStays
    <2>2. ViewInv' /\ FreshInv'
      BY <1>k, <1>i, <1>s, ViewKept
    <2> QED BY <2>1, <2>2 DEF Ties
  <1>p. \A S : Stopped(S) = stream' => Steady /\ \A s \in Streams : Taken(s)' = Taken(s)
    BY StoppedFacts DEF Steady, Taken, Made
  <1>0. CASE UNCHANGED vars
    BY <1>0, <1>k DEF vars, Steady, Taken, Made
  <1>1. ASSUME NEW s \in Streams, Scan(s) \/ Send(s) \/ Quit(s) \/ SourceEnds(s)
        PROVE Ties'
    <2>1. Steady /\ \A d \in Streams : Taken(d)' = Taken(d)
      BY <1>1, <1>w DEF Scan, Send, Quit, SourceEnds, Steady, Taken, Made, Stream
    <2>2. UNCHANGED <<logVars, eventVars, flying>>
      BY <1>1 DEF Scan, Send, Quit, SourceEnds
    <2> QED BY <2>1, <2>2, <1>k
  <1>2. ASSUME NEW x \in Subjects, Ask(x) PROVE Ties'
    <2>1. Steady /\ \A d \in Streams : Taken(d)' = Taken(d)
      BY <1>2 DEF Ask, Steady, Taken, Made
    <2> QED BY <1>2, <2>1, <1>k DEF Ask, Start
  <1>3. ASSUME NEW e \in DOMAIN flying, Dispatch(e) PROVE Ties'
    <2>e. e \in Msg /\ e.of \in Subjects /\ e.ch \in Channel
      BY DEF TypeOK, Msg
    <2>m. /\ e.what \in {"opened", "lines", "end"} => e.ch # NoCh
          /\ e.what = "open" => e.ch = NoCh
          /\ e.ch # NoCh => stream[e.ch].of = e.of /\ Made(e.ch)
      BY <1>i DEF MsgInv
    <2>1. CASE OpenRun(e)
      <3>1. CASE Unmade # {} /\ stream' = [stream EXCEPT ![NewStream].state = "running", ![NewStream].of = e.of]
                 /\ Then(e, {Opened(e.of, NewStream)}) /\ UNCHANGED told
        <4>0. PICK n \in Streams : n = NewStream
          BY <3>1, NewStreamUnmade DEF Unmade
        <4>1. n \in Streams /\ ~Made(n)
          BY <3>1, <4>0, NewStreamUnmade DEF Unmade, Made
        <4>2. /\ stream'[n].of = e.of /\ stream'[n].state = "running"
              /\ stream'[n].taken = stream[n].taken
              /\ \A s \in Streams : s # n => stream'[s] = stream[s]
          BY <3>1, <4>0, <4>1, <1>w DEF Stream
        <4>3. \A d \in DOMAIN flying : d.ch # n
          BY <1>i, <4>1 DEF MsgInv
        <4>n. n \notin {logCh, eventCh, NoCh} /\ n \notin shown
          BY <1>i, <4>1 DEF ViewInv
        <4>4. ViewInv' /\ FreshInv'
          BY <2>1, <1>i, <1>w, <4>1, <4>2, <4>n DEF ViewInv, FreshInv, OpenRun, Made
        <4> DEFINE o == Opened(e.of, n)
        <4>5. o.what = "opened" /\ o.ch = n /\ o.of = e.of /\ o \notin DOMAIN flying
          BY <4>3 DEF Opened
        <4>6. /\ DOMAIN flying' \subseteq DOMAIN flying \cup {o}
              /\ \A x \in DOMAIN flying : x # e /\ x \notin {o} => flying'[x] = flying[x]
              /\ flying'[o] = 1
          BY <3>1, <4>0, <4>5, ThenFacts DEF TypeOK
        <4> HIDE DEF o
        <4>7. ASSUME NEW d \in DOMAIN flying', d # o PROVE
                /\ d.what \in {"opened", "lines", "end"} => d.ch # NoCh
                /\ d.what = "open" => d.ch = NoCh
                /\ d.ch # NoCh => stream'[d.ch].of = d.of /\ Made(d.ch)'
                /\ d.what = "lines" => d.first <= d.last
          <5>1. d \in DOMAIN flying /\ d.ch # n /\ d.ch \in Channel
            BY <4>3, <4>6, <4>7 DEF TypeOK, Msg
          <5> QED BY <5>1, <4>2, <1>i DEF MsgInv, Made
        <4>8. ASSUME NEW d \in DOMAIN flying', d # o, d.what = "opened"
              PROVE /\ flying'[d] = 1 /\ stream'[d.ch].taken = 0 /\ d.ch \notin {logCh', eventCh'}
                    /\ \A x \in DOMAIN flying' : x.ch = d.ch => x = d
          <5>1. d \in DOMAIN flying /\ d # e /\ d.ch # n /\ d.ch \in Channel
            BY <2>1, <4>3, <4>6, <4>8 DEF OpenRun, TypeOK, Msg
          <5>2. /\ flying[d] = 1 /\ stream[d.ch].taken = 0 /\ d.ch \notin {logCh, eventCh}
                /\ d.ch # NoCh /\ \A x \in DOMAIN flying : x.ch = d.ch => x = d
            BY <4>8, <5>1, <1>i DEF MsgInv
          <5> QED BY <2>1, <4>2, <4>5, <4>6, <4>8, <5>1, <5>2 DEF OpenRun
        <4>9. /\ o.ch # NoCh /\ stream'[o.ch].of = o.of /\ Made(o.ch)' /\ stream'[o.ch].taken = 0
              /\ o.ch \notin {logCh', eventCh'}
              /\ \A x \in DOMAIN flying' : x.ch = o.ch => x = o
          <5>1. stream'[n].taken = 0
            BY <1>i, <4>1, <4>2 DEF FreshInv
          <5>2. UNCHANGED <<logCh, eventCh>>
            BY <2>1 DEF OpenRun
          <5>3. \A x \in DOMAIN flying' : x.ch = n => x = o
            BY <4>3, <4>6
          <5> QED BY <4>1, <4>2, <4>n, <4>5, <5>1, <5>2, <5>3 DEF Made
        <4>10. MsgInv'
          <5>1. \A d \in DOMAIN flying' :
                  /\ d.what \in {"opened", "lines", "end"} => d.ch # NoCh
                  /\ d.what = "open" => d.ch = NoCh
                  /\ d.ch # NoCh => stream'[d.ch].of = d.of /\ Made(d.ch)'
                  /\ d.what = "lines" => d.first <= d.last
            BY <4>5, <4>7, <4>9
          <5>2. \A d \in DOMAIN flying' : d.what = "opened" =>
                  /\ flying'[d] = 1 /\ stream'[d.ch].taken = 0 /\ d.ch \notin {logCh', eventCh'}
                  /\ \A x \in DOMAIN flying' : x.ch = d.ch => x = d
            BY <4>6, <4>8, <4>9
          <5> QED BY <5>1, <5>2 DEF MsgInv
        <4> QED BY <4>4, <4>10 DEF Ties
      <3>2. CASE Then(e, {}) /\ told' = (told \/ mode = "events") /\ UNCHANGED stream
        <4>1. Steady /\ \A d \in Streams : Taken(d)' = Taken(d)
          BY <3>2 DEF Steady, Taken, Made
        <4>2. MsgInv'
          BY <2>1, <3>2, <1>i, <4>1, MsgKept DEF OpenRun
        <4>3. ViewInv' /\ FreshInv'
          BY <2>1, <1>i, <1>s, <4>1, ViewKept DEF OpenRun
        <4> QED BY <4>2, <4>3 DEF Ties
      <3> QED BY <2>1, <3>1, <3>2 DEF OpenRun
    <2>2. CASE Receive(e)
      <3> DEFINE o == Lines(e.of, e.ch, stream[e.ch].taken + 1, stream[e.ch].taken + Batch(e.ch))
      <3>1. e.ch \in Streams /\ stream[e.ch].of = e.of /\ Made(e.ch)
        BY <2>2, <2>e, <2>m DEF Receive
      <3>2. stream[e.ch].taken \in Nat /\ stream[e.ch].sent \in Nat
        BY <3>1, <1>w DEF Stream
      <3>3. Batch(e.ch) \in Nat /\ Batch(e.ch) >= 1
        BY <2>2, <3>1, <3>2 DEF Receive, Batch
      <3>4. Steady /\ \A d \in Streams : d # e.ch => Taken(d)' = Taken(d)
        BY <2>2, <3>1, <1>w DEF Receive, Steady, Taken, Made, Stream
      <3>5. o.what = "lines" /\ o.ch = e.ch /\ o.of = e.of /\ o.first <= o.last
        BY <3>2, <3>3 DEF Lines
      <3>6. Then(e, {o}) /\ UNCHANGED <<logVars, eventVars>> /\ e.what = "read"
        BY <2>2 DEF Receive
      <3> HIDE DEF o
      <3>7. MsgInv'
        BY <1>i, <3>1, <3>4, <3>5, <3>6, MsgKept
      <3>8. ViewInv' /\ FreshInv'
        BY <1>i, <1>s, <3>1, <3>4, <3>6, ViewKept
      <3> QED BY <3>7, <3>8 DEF Ties
    <2>3. CASE ReadEnd(e)
      <3>1. Steady /\ \A d \in Streams : Taken(d)' = Taken(d)
        BY <2>3 DEF ReadEnd, Steady, Taken, Made
      <3>2. MsgInv'
        BY <2>3, <2>e, <2>m, <3>1, <1>i, MsgKept DEF ReadEnd, Ended
      <3>3. ViewInv' /\ FreshInv'
        BY <2>3, <3>1, <1>i, <1>s, ViewKept DEF ReadEnd
      <3> QED BY <3>2, <3>3 DEF Ties
    <2>4. CASE LogOpened(e)
      <3>1. Steady /\ \A d \in Streams : Taken(d)' = Taken(d)
        BY <2>4, <1>p DEF LogOpened, ReplacesLog
      <3>2. MsgInv'
        BY <2>4, <2>e, <2>m, <3>1, <1>i, MsgKept DEF LogOpened, Read
      <3>3. ViewInv' /\ FreshInv'
        BY <2>4, <2>e, <2>m, <3>1, <1>i, <1>w
           DEF LogOpened, Console, ViewInv, FreshInv, Steady, Taken
      <3> QED BY <3>2, <3>3 DEF Ties
    <2>5. CASE EventsOpened(e)
      <3>1. Steady /\ \A d \in Streams : Taken(d)' = Taken(d)
        BY <2>5, <1>p DEF EventsOpened
      <3>2. MsgInv'
        BY <2>5, <2>e, <2>m, <3>1, <1>i, MsgKept DEF EventsOpened, Read
      <3>3. ViewInv' /\ FreshInv'
        BY <2>5, <2>e, <2>m, <3>1, <1>i, <1>w
           DEF EventsOpened, ViewInv, FreshInv, Steady, Taken
      <3> QED BY <3>2, <3>3 DEF Ties
    <2>6. CASE LogLines(e)
      <3>1. Steady /\ \A d \in Streams : Taken(d)' = Taken(d)
        BY <2>6 DEF LogLines, Steady, Taken, Made
      <3>2. e.ch \in Streams /\ Made(e.ch)
        BY <2>6, <2>e, <2>m DEF LogLines
      <3>3. Shows(e) /\ logCh # NoCh => stream[logCh].of = e.of /\ Made(logCh)
        BY <1>i, <2>e DEF Shows, ViewInv, Subjects
      <3>4. MsgInv'
        BY <2>6, <2>e, <3>1, <3>3, <1>i, <1>w, MsgKept DEF LogLines, Read
      <3>5. ViewInv' /\ FreshInv'
        BY <2>6, <3>1, <3>2, <1>i, <1>s, ViewKept DEF LogLines
      <3> QED BY <3>4, <3>5 DEF Ties
    <2>7. CASE OpDone(e)
      <3>1. Steady /\ \A d \in Streams : Taken(d)' = Taken(d)
        BY <2>7 DEF OpDone, Steady, Taken, Made
      <3>2. MsgInv'
        BY <2>7, <3>1, <1>i, MsgKept DEF OpDone
      <3>3. ViewInv' /\ FreshInv'
        BY <2>7, <3>1, <1>i, <1>s, ViewKept DEF OpDone
      <3> QED BY <3>2, <3>3 DEF Ties
    <2>8. CASE EventLines(e)
      <3>1. Steady /\ \A d \in Streams : Taken(d)' = Taken(d)
        BY <2>8 DEF EventLines, Steady, Taken, Made
      <3>2. eventCh # NoCh => stream[eventCh].of = Feed /\ Made(eventCh)
        BY <1>i DEF ViewInv
      <3>3. MsgInv'
        BY <2>8, <2>e, <3>1, <3>2, <1>i, <1>w, MsgKept DEF EventLines, FeedReader, Read
      <3>4. ViewInv' /\ FreshInv'
        BY <2>8, <3>1, <1>i, <1>s, ViewKept DEF EventLines
      <3> QED BY <3>3, <3>4 DEF Ties
    <2>9. CASE EventsClosed(e)
      <3>1. Steady /\ \A d \in Streams : Taken(d)' = Taken(d)
        <4>1. CASE UNCHANGED stream
          BY <4>1 DEF Steady, Taken, Made
        <4> QED BY <2>9, <4>1, <1>p DEF EventsClosed
      <3>2. MsgInv'
        BY <2>9, <3>1, <1>i, MsgKept DEF EventsClosed, ReleaseEvents
      <3>3. ViewInv' /\ FreshInv'
        BY <2>9, <3>1, <1>i, <1>s, ViewKept DEF EventsClosed, ReleaseEvents
      <3> QED BY <3>2, <3>3 DEF Ties
    <2> QED BY <1>3, <2>1, <2>2, <2>3, <2>4, <2>5, <2>6, <2>7, <2>8, <2>9 DEF Dispatch
  <1>4. CASE Esc
    BY <1>4, <1>k, <1>p DEF Esc, ReleaseLog, ReleaseEvents
  <1>5. CASE Resubscribe
    BY <1>5, <1>k, <1>p DEF Resubscribe, ReleaseEvents, Start, Subjects
  <1>6. CASE OtherWindow
    BY <1>6, <1>k DEF OtherWindow, Steady, Taken, Made
  <1>7. CASE SwitchHost \/ Reconnected
    BY <1>7, <1>k, <1>p DEF SwitchHost, Reconnected, ReleaseLog, ReleaseEvents
  <1> QED BY <1>0, <1>1, <1>2, <1>3, <1>4, <1>5, <1>6, <1>7 DEF Next

----------------------------------------------------------------------------
(* The log viewer. *)

\* What is shown is of the present title in every step.
LEMMA StepLog == TypeOK /\ Ties /\ LogOfSubject /\ [Next]_vars => LogOfSubject'
  <1> SUFFICES ASSUME TypeOK, Ties, LogOfSubject, [Next]_vars PROVE LogOfSubject'
    OBVIOUS
  <1> USE StreamsAssumption
  <1> USE DEF logVars, eventVars
  <1>i. MsgInv /\ ViewInv
    BY DEF Ties
  <1>w. stream \in [Streams -> Stream] /\ shown \subseteq Streams
    BY DEF TypeOK
  <1>k. ASSUME UNCHANGED <<logID, shown>>, \A s \in Streams : Made(s) => stream'[s].of = stream[s].of
        PROVE LogOfSubject'
    BY <1>k, <1>i, <1>w DEF LogOfSubject, ViewInv
  <1>p. \A S : Stopped(S) = stream' => \A s \in Streams : stream'[s].of = stream[s].of
    BY StoppedFacts
  <1>0. CASE UNCHANGED vars
    BY <1>0, <1>k DEF vars
  <1>1. ASSUME NEW s \in Streams, Scan(s) \/ Send(s) \/ Quit(s) \/ SourceEnds(s)
        PROVE LogOfSubject'
    <2>1. \A d \in Streams : stream'[d].of = stream[d].of
      BY <1>1, <1>w DEF Scan, Send, Quit, SourceEnds, Stream
    <2> QED BY <1>1, <2>1, <1>k DEF Scan, Send, Quit, SourceEnds
  <1>2. ASSUME NEW x \in Subjects, Ask(x) PROVE LogOfSubject'
    BY <1>2, <1>k DEF Ask
  <1>3. ASSUME NEW e \in DOMAIN flying, Dispatch(e) PROVE LogOfSubject'
    <2>e. e.of \in Subjects /\ e.ch \in Channel
      BY DEF TypeOK, Msg
    <2>1. CASE OpenRun(e)
      <3>1. CASE Unmade # {} /\ stream' = [stream EXCEPT ![NewStream].state = "running", ![NewStream].of = e.of]
        <4>1. NewStream \in Streams /\ ~Made(NewStream)
          BY <3>1, NewStreamUnmade DEF Unmade, Made
        <4>2. \A s \in Streams : Made(s) => stream'[s].of = stream[s].of
          BY <3>1, <4>1, <1>w DEF Stream
        <4> QED BY <2>1, <4>2, <1>k DEF OpenRun
      <3>2. CASE UNCHANGED stream
        BY <2>1, <3>2, <1>k DEF OpenRun
      <3> QED BY <2>1, <3>1, <3>2 DEF OpenRun
    <2>2. CASE Receive(e)
      <3>1. \A d \in Streams : stream'[d].of = stream[d].of
        BY <2>2, <2>e, <1>w DEF Receive, Channel, Stream
      <3> QED BY <2>2, <3>1, <1>k DEF Receive
    <2>3. CASE ReadEnd(e)
      BY <2>3, <1>k DEF ReadEnd
    <2>4. CASE LogOpened(e)
      BY <2>4 DEF LogOpened, LogOfSubject
    <2>5. CASE EventsOpened(e)
      BY <2>5, <1>k, <1>p DEF EventsOpened
    <2>6. CASE LogLines(e)
      <3>1. Shows(e) => e.of = logID
        BY <1>i, <2>e DEF Shows, ViewInv, Subjects
      <3>2. e.ch # NoCh /\ stream[e.ch].of = e.of
        BY <2>6, <1>i DEF LogLines, MsgInv
      <3> QED BY <2>6, <3>1, <3>2 DEF LogLines, LogOfSubject
    <2>7. CASE OpDone(e)
      BY <2>7, <1>k DEF OpDone
    <2>8. CASE EventLines(e)
      BY <2>8, <1>k DEF EventLines
    <2>9. CASE EventsClosed(e)
      <3>1. CASE UNCHANGED stream
        BY <2>9, <3>1, <1>k DEF EventsClosed
      <3> QED BY <2>9, <3>1, <1>k, <1>p DEF EventsClosed
    <2> QED BY <1>3, <2>1, <2>2, <2>3, <2>4, <2>5, <2>6, <2>7, <2>8, <2>9 DEF Dispatch
  <1>4. CASE Esc \/ Resubscribe \/ SwitchHost \/ Reconnected
    BY <1>4, <1>k, <1>p DEF Esc, Resubscribe, SwitchHost, Reconnected
  <1>5. CASE OtherWindow
    BY <1>5, <1>k DEF OtherWindow
  <1> QED BY <1>0, <1>1, <1>2, <1>3, <1>4, <1>5 DEF Next

----------------------------------------------------------------------------
(* The feed. *)

\* The message that holds the live feed's turn: the one reader of its channel,
\* or what it has read.
Turn(e) ==
  /\ e.ch = eventCh /\ flying[e] = 1
  /\ \A d \in DOMAIN flying : d.ch = eventCh => d = e
  /\ \/ e.what \in {"read", "end"} /\ Len(feed) = stream[eventCh].taken
     \/ e.what = "lines" /\ e.first = Len(feed) + 1 /\ e.last = stream[eventCh].taken

InSequence == \A i \in 1..Len(feed) : feed[i] = <<feed[1][1], i>>
Live == mode = "events" /\ eventCh # NoCh

\* The property, in those words.
LEMMA FeedWords ==
  FeedInOrder <=>
    /\ InSequence
    /\ Live => /\ feed # <<>> => feed[1][1] = eventCh
               /\ \E e \in DOMAIN flying : Turn(e)
  BY DEF FeedInOrder, InSequence, Live, Turn

\* A step that has nothing to do with the feed's channel leaves it in order.
LEMMA FeedKept ==
  ASSUME TypeOK, FeedInOrder, UNCHANGED <<feed, eventCh>>,
         Live' => Live,
         Live => Taken(eventCh)' = Taken(eventCh),
         \A d \in DOMAIN flying' : d \in DOMAIN flying \/ d.ch # eventCh,
         \A d \in DOMAIN flying : d.ch = eventCh =>
           d \in DOMAIN flying' /\ flying'[d] = flying[d]
  PROVE FeedInOrder'
  <1>1. CASE ~Live'
    BY <1>1 DEF FeedInOrder, Live
  <1>2. CASE Live'
    <2>1. Live
      BY <1>2
    <2>2. PICK e \in DOMAIN flying : Turn(e)
      BY <2>1, FeedWords
    <2>3. e \in DOMAIN flying' /\ Turn(e)'
      BY <2>1, <2>2 DEF Turn, Taken
    <2> QED BY <2>1, <2>3, FeedWords DEF FeedInOrder, Live, Turn
  <1> QED BY <1>1, <1>2

\* Every step leaves the feed in order.
LEMMA StepFeed == TypeOK /\ Ties /\ FeedInOrder /\ [Next]_vars => FeedInOrder'
  <1> SUFFICES ASSUME TypeOK, Ties, FeedInOrder, [Next]_vars PROVE FeedInOrder'
    OBVIOUS
  <1> USE StreamsAssumption
  <1> USE DEF logVars, eventVars
  <1>i. MsgInv /\ ViewInv
    BY DEF Ties
  <1>w. stream \in [Streams -> Stream] /\ eventCh \in Channel /\ logCh \in Channel
        /\ feed \in Seq(Streams \X Nat) /\ Len(feed) \in Nat
    BY DEF TypeOK
  <1>n. ASSUME eventCh' = NoCh, UNCHANGED feed \/ feed' = <<>> PROVE FeedInOrder'
    BY <1>n DEF FeedInOrder
  <1>k. ASSUME UNCHANGED <<feed, eventCh, flying>>, Live' => Live,
               \A s \in Streams : Taken(s)' = Taken(s)
        PROVE FeedInOrder'
    BY <1>k, <1>w, FeedKept DEF Live, Channel
  <1>p. \A S : Stopped(S) = stream' => \A s \in Streams : Taken(s)' = Taken(s)
    BY StoppedFacts DEF Taken
  <1>0. CASE UNCHANGED vars
    BY <1>0, <1>k DEF vars, Live, Taken
  <1>1. ASSUME NEW s \in Streams, Scan(s) \/ Send(s) \/ Quit(s) \/ SourceEnds(s)
        PROVE FeedInOrder'
    <2>1. \A d \in Streams : Taken(d)' = Taken(d)
      <3>1. CASE Scan(s)
        BY <3>1, <1>w DEF Scan, Taken, Stream
      <3>2. CASE Send(s)
        BY <3>2, <1>w DEF Send, Taken, Stream
      <3>3. CASE Quit(s)
        BY <3>3, <1>w DEF Quit, Taken, Stream
      <3>4. CASE SourceEnds(s)
        BY <3>4, <1>w DEF SourceEnds, Taken, Stream
      <3> QED BY <1>1, <3>1, <3>2, <3>3, <3>4
    <2> QED BY <1>1, <2>1, <1>k DEF Scan, Send, Quit, SourceEnds, Live
  <1>2. ASSUME NEW x \in Subjects, Ask(x) PROVE FeedInOrder'
    BY <1>2 DEF Ask, FeedInOrder
  <1>3. ASSUME NEW e \in DOMAIN flying, Dispatch(e) PROVE FeedInOrder'
    <2>e. e \in Msg /\ e.of \in Subjects /\ e.ch \in Channel /\ e.first \in Nat /\ e.last \in Nat
      BY DEF TypeOK, Msg
    <2>m. /\ e.what \in {"opened", "lines", "end"} => e.ch # NoCh
          /\ e.what = "open" => e.ch = NoCh
          /\ e.ch # NoCh => stream[e.ch].of = e.of /\ Made(e.ch)
          /\ e.what = "lines" => e.first <= e.last
      BY <1>i DEF MsgInv
    <2>f. ASSUME NEW out, Then(e, out), e.ch # eventCh \/ ~Live,
                 \A d \in out : d.ch # eventCh \/ ~Live,
                 UNCHANGED <<feed, eventCh>>, Live' => Live,
                 Live => Taken(eventCh)' = Taken(eventCh)
          PROVE FeedInOrder'
      <3>1. /\ DOMAIN flying' \subseteq DOMAIN flying \cup out
            /\ \A x \in DOMAIN flying : x # e => x \in DOMAIN flying'
            /\ \A x \in DOMAIN flying : x # e /\ x \notin out => flying'[x] = flying[x]
        BY <2>f, ThenFacts DEF TypeOK
      <3>2. CASE ~Live'
        BY <2>f, <3>2 DEF FeedInOrder, Live
      <3>3. CASE Live'
        BY <2>f, <3>1, <3>3, FeedKept
      <3> QED BY <3>2, <3>3
    <2>1. CASE OpenRun(e)
      <3>1. CASE Unmade # {} /\ stream' = [stream EXCEPT ![NewStream].state = "running", ![NewStream].of = e.of]
                 /\ Then(e, {Opened(e.of, NewStream)}) /\ UNCHANGED told
        <4>1. NewStream \in Streams /\ ~Made(NewStream)
          BY <3>1, NewStreamUnmade DEF Unmade, Made
        <4>2. \A s \in Streams : Taken(s)' = Taken(s)
          BY <3>1, <4>1, <1>w DEF Stream, Taken
        <4>3. NewStream # eventCh
          BY <4>1, <1>i DEF ViewInv
        <4>4. Opened(e.of, NewStream).ch # eventCh
          BY <4>3 DEF Opened
        <4> QED BY <2>1, <2>m, <3>1, <4>2, <4>4, <1>w, <2>f DEF OpenRun, Live, Channel
      <3>2. CASE Then(e, {}) /\ told' = (told \/ mode = "events") /\ UNCHANGED stream
        BY <2>1, <2>m, <3>2, <2>f DEF OpenRun, Live, Taken
      <3> QED BY <2>1, <3>1, <3>2 DEF OpenRun
    <2>2. CASE Receive(e)
      <3> DEFINE o == Lines(e.of, e.ch, stream[e.ch].taken + 1, stream[e.ch].taken + Batch(e.ch))
      <3>1. e.ch \in Streams /\ UNCHANGED <<mode, feed, eventCh>> /\ Then(e, {o}) /\ e.what = "read"
        BY <2>2, <2>e DEF Receive, Channel
      <3>2. stream[e.ch].taken \in Nat /\ stream[e.ch].sent \in Nat
        BY <3>1, <1>w DEF Stream
      <3>3. Batch(e.ch) \in Nat
        BY <2>2, <3>1, <3>2 DEF Receive, Batch
      <3>4. Taken(e.ch)' = stream[e.ch].taken + Batch(e.ch) /\ \A s \in Streams : s # e.ch => Taken(s)' = Taken(s)
        BY <2>2, <3>1, <3>2, <3>3, <1>w DEF Receive, Taken, Stream
      <3>5. o.ch = e.ch /\ o.what = "lines" /\ o.first = stream[e.ch].taken + 1
            /\ o.last = stream[e.ch].taken + Batch(e.ch)
        BY DEF Lines
      <3>6. CASE ~Live \/ e.ch # eventCh
        BY <3>1, <3>4, <3>5, <3>6, <1>w, <2>f DEF Live, Channel
      <3>7. CASE Live /\ e.ch = eventCh
        <4>1. PICK r \in DOMAIN flying : Turn(r)
          BY <3>7, FeedWords
        <4>2. r = e /\ flying[e] = 1 /\ Len(feed) = stream[eventCh].taken
          BY <3>1, <3>7, <4>1 DEF Turn
        <4>3. \A d \in DOMAIN flying : d.ch = eventCh => d = e
          BY <4>1, <4>2 DEF Turn
        <4>4. PICK p : p = o
          OBVIOUS
        <4>5. p.ch = e.ch /\ p.what = "lines" /\ p.first = Len(feed) + 1 /\ p.last = Taken(e.ch)'
          BY <3>4, <3>5, <3>7, <4>2, <4>4
        <4>6. Then(e, {p}) /\ p # e /\ p \notin DOMAIN flying
          BY <3>1, <3>7, <4>3, <4>4, <4>5
        <4>7. /\ p \in DOMAIN flying' /\ flying'[p] = 1
              /\ DOMAIN flying' \subseteq DOMAIN flying \cup {p} /\ e \notin DOMAIN flying'
          BY <4>2, <4>6, ThenFacts DEF TypeOK
        <4>8. Turn(p)'
          BY <3>1, <3>7, <4>3, <4>5, <4>7 DEF Turn, Taken
        <4> QED BY <3>1, <3>7, <4>7, <4>8 DEF FeedInOrder, Turn, Live
      <3> QED BY <3>6, <3>7
    <2>3. CASE ReadEnd(e)
      <3>1. e.ch # NoCh /\ e.what = "read" /\ UNCHANGED <<mode, feed, eventCh, stream>>
        BY <2>3 DEF ReadEnd
      <3>2. CASE ~Live \/ e.ch # eventCh
        BY <2>3, <3>1, <3>2, <2>f DEF ReadEnd, Ended, Live, Taken
      <3>3. CASE Live /\ e.ch = eventCh
        <4>1. PICK r \in DOMAIN flying : Turn(r)
          BY <3>3, FeedWords
        <4>2. r = e /\ flying[e] = 1 /\ Len(feed) = stream[eventCh].taken
              /\ \A d \in DOMAIN flying : d.ch = eventCh => d = e
          BY <3>1, <3>3, <4>1 DEF Turn
        <4>3. e.of = Feed
          BY <2>m, <3>1, <3>3, <1>i DEF ViewInv
        <4>4. PICK p : p = Ended(e.of, e.ch)
          OBVIOUS
        <4>5. p.ch = e.ch /\ p.what = "end" /\ p # e /\ p \notin DOMAIN flying
          BY <3>1, <3>3, <4>2, <4>4 DEF Ended
        <4>6. Then(e, {p})
          BY <2>3, <4>3, <4>4 DEF ReadEnd
        <4>7. /\ p \in DOMAIN flying' /\ flying'[p] = 1
              /\ DOMAIN flying' \subseteq DOMAIN flying \cup {p} /\ e \notin DOMAIN flying'
          BY <4>2, <4>5, <4>6, ThenFacts DEF TypeOK
        <4>8. Turn(p)'
          BY <3>1, <3>3, <4>2, <4>5, <4>7 DEF Turn
        <4> QED BY <3>1, <3>3, <4>7, <4>8 DEF FeedInOrder, Turn, Live
      <3> QED BY <3>2, <3>3
    <2>4. CASE LogOpened(e)
      BY <2>4 DEF LogOpened, FeedInOrder
    <2>5. CASE EventsOpened(e)
      <3>1. /\ flying[e] = 1 /\ stream[e.ch].taken = 0
            /\ \A d \in DOMAIN flying : d.ch = e.ch => d = e
        BY <2>5, <1>i DEF EventsOpened, MsgInv
      <3>2. e.ch \in Streams
        BY <2>5, <2>e, <2>m DEF EventsOpened, Channel
      <3>3. Taken(e.ch)' = 0 /\ feed' = <<>> /\ eventCh' = e.ch
        BY <2>5, <3>1, <3>2, <1>p DEF EventsOpened, Taken
      <3>4. PICK p : p = Read(Feed, e.ch)
        OBVIOUS
      <3>5. p.ch = e.ch /\ p.what = "read" /\ p # e /\ p \notin DOMAIN flying
        BY <2>5, <3>1, <3>4 DEF EventsOpened, Read
      <3>6. /\ p \in DOMAIN flying' /\ flying'[p] = 1
            /\ DOMAIN flying' \subseteq DOMAIN flying \cup {p} /\ e \notin DOMAIN flying'
        BY <2>5, <3>1, <3>4, <3>5, ThenFacts DEF EventsOpened, TypeOK
      <3>7. Len(feed') = 0
        BY <3>3
      <3>8. Turn(p)'
        BY <3>1, <3>3, <3>5, <3>6, <3>7 DEF Turn, Taken
      <3>9. InSequence' /\ feed' = <<>>
        BY <3>3, <3>7 DEF InSequence
      <3> QED BY <3>6, <3>8, <3>9 DEF FeedInOrder, InSequence, Turn
    <2>6. CASE LogLines(e)
      <3>1. e.ch # eventCh \/ ~Live
        BY <2>6, <2>m, <1>i DEF LogLines, ViewInv, Live
      <3>2. logCh # eventCh \/ ~Live
        BY <1>i DEF ViewInv, Live
      <3>3. UNCHANGED <<mode, feed, eventCh, stream>>
        BY <2>6 DEF LogLines
      <3> QED BY <2>6, <3>1, <3>2, <3>3, <2>f DEF LogLines, Read, Live, Taken
    <2>7. CASE OpDone(e)
      <3>1. e.ch # eventCh \/ ~Live
        BY <2>7, <2>m, <1>i DEF OpDone, ViewInv, Live
      <3> QED BY <2>7, <3>1, <2>f DEF OpDone, Live, Taken
    <2>8. CASE EventLines(e)
      <3>1. e.what = "lines" /\ e.ch # NoCh /\ UNCHANGED <<mode, eventCh, stream>>
        BY <2>8, <2>m DEF EventLines
      <3>2. CASE ~IsFeed(e)
        BY <2>8, <3>1, <3>2, <2>f DEF EventLines, IsFeed, Live, Taken
      <3>3. CASE IsFeed(e)
        <4>1. Live /\ e.ch = eventCh
          BY <3>1, <3>3 DEF IsFeed, Live
        <4>2. PICK r \in DOMAIN flying : Turn(r)
          BY <4>1, FeedWords
        <4>3. r = e /\ flying[e] = 1 /\ e.first = Len(feed) + 1 /\ e.last = stream[eventCh].taken
              /\ \A d \in DOMAIN flying : d.ch = eventCh => d = e
          BY <3>1, <4>1, <4>2 DEF Turn
        <4>4. PICK p : p = Read(Feed, eventCh)
          OBVIOUS
        <4>5. p.ch = eventCh /\ p.what = "read" /\ p # e /\ p \notin DOMAIN flying
          BY <3>1, <4>3, <4>4 DEF Read
        <4>6. Then(e, {p}) /\ feed' = feed \o NewLines(e)
          BY <2>8, <3>3, <4>4 DEF EventLines, FeedReader
        <4>7. /\ p \in DOMAIN flying' /\ flying'[p] = 1
              /\ DOMAIN flying' \subseteq DOMAIN flying \cup {p} /\ e \notin DOMAIN flying'
          BY <4>3, <4>5, <4>6, ThenFacts DEF TypeOK
        <4> DEFINE k == e.last - e.first + 1
        <4>8. k \in Nat /\ e.first <= e.last
          BY <3>1, <2>m, <2>e
        <4>9. NewLines(e) = [i \in 1..k |-> <<e.ch, e.first + i - 1>>]
          BY DEF NewLines
        <4>10. /\ NewLines(e) \in Seq(Streams \X Nat) /\ Len(NewLines(e)) = k
               /\ \A i \in 1..k : NewLines(e)[i] = <<e.ch, e.first + i - 1>>
          <5>1. \A i \in 1..k : <<e.ch, e.first + i - 1>> \in Streams \X Nat
            BY <3>1, <2>e, <4>8 DEF Channel
          <5> QED BY <4>8, <4>9, <5>1
        <4> HIDE DEF k
        <4>11. /\ Len(feed') = Len(feed) + k
               /\ \A i \in 1..Len(feed') :
                    feed'[i] = IF i <= Len(feed) THEN feed[i] ELSE NewLines(e)[i - Len(feed)]
          <5>1. \A S : \A p1, q1 \in Seq(S) :
                  /\ Len(p1 \o q1) = Len(p1) + Len(q1)
                  /\ \A i \in 1..Len(p1) + Len(q1) :
                       (p1 \o q1)[i] = IF i <= Len(p1) THEN p1[i] ELSE q1[i - Len(p1)]
            OBVIOUS
          <5>2. PICK q1 \in Seq(Streams \X Nat) : q1 = NewLines(e)
            BY <4>10
          <5>3. feed' = feed \o q1 /\ Len(q1) = k
            BY <4>6, <4>10, <5>2
          <5>4. Len(feed') = Len(feed) + Len(q1)
            BY <5>1, <5>3, <1>w
          <5>5. \A i \in 1..Len(feed) + Len(q1) :
                  (feed \o q1)[i] = IF i <= Len(feed) THEN feed[i] ELSE q1[i - Len(feed)]
            BY <5>1, <1>w
          <5> QED BY <5>2, <5>3, <5>4, <5>5
        <4>12. Len(feed') = stream[eventCh].taken
          BY <4>3, <4>8, <4>11, <2>e, <1>w DEF k
        <4>13. \A i \in 1..Len(feed') : feed'[i] = <<eventCh, i>>
          <5>1. ASSUME NEW i \in 1..Len(feed') PROVE feed'[i] = <<eventCh, i>>
            <6>1. CASE i <= Len(feed)
              <7>1. i \in 1..Len(feed) /\ feed # <<>>
                BY <6>1, <1>w
              <7>2. feed[i] = <<feed[1][1], i>> /\ feed[1][1] = eventCh
                BY <7>1, <4>1, FeedWords DEF InSequence
              <7> QED BY <6>1, <7>2, <4>11
            <6>2. CASE ~(i <= Len(feed))
              <7>1. i - Len(feed) \in 1..k
                BY <6>2, <4>8, <4>11, <1>w
              <7>2. feed'[i] = <<e.ch, e.first + (i - Len(feed)) - 1>>
                BY <6>2, <7>1, <4>10, <4>11
              <7>3. e.first + (i - Len(feed)) - 1 = i
                BY <4>3, <1>w
              <7> QED BY <7>2, <7>3, <4>1
            <6> QED BY <6>1, <6>2
          <5> QED BY <5>1
        <4>14. 1 \in 1..Len(feed')
          <5>1. k >= 1
            BY <4>8, <2>e DEF k
          <5> QED BY <4>8, <4>11, <5>1, <1>w
        <4>15. feed'[1][1] = eventCh
          BY <4>13, <4>14
        <4>16. InSequence'
          BY <4>13, <4>15 DEF InSequence
        <4>17. Turn(p)'
          BY <3>1, <4>3, <4>5, <4>7, <4>12 DEF Turn
        <4>18. eventCh' = eventCh
          BY <3>1
        <4> QED BY <4>7, <4>15, <4>16, <4>17, <4>18 DEF FeedInOrder, InSequence, Turn
      <3> QED BY <3>2, <3>3
    <2>9. CASE EventsClosed(e)
      <3>1. CASE IsFeed(e)
        BY <2>9, <3>1, <1>n DEF EventsClosed, ReleaseEvents
      <3>2. CASE ~IsFeed(e)
        <4>1. UNCHANGED <<mode, feed, eventCh, stream>> /\ Then(e, {})
          BY <2>9, <3>2 DEF EventsClosed
        <4> QED BY <3>2, <4>1, <2>f DEF IsFeed, Live, Taken
      <3> QED BY <3>1, <3>2
    <2> QED BY <1>3, <2>1, <2>2, <2>3, <2>4, <2>5, <2>6, <2>7, <2>8, <2>9 DEF Dispatch
  <1>4. CASE Esc
    BY <1>4 DEF Esc, FeedInOrder
  <1>5. CASE Resubscribe \/ SwitchHost \/ Reconnected
    BY <1>5, <1>n DEF Resubscribe, SwitchHost, Reconnected, ReleaseEvents
  <1>6. CASE OtherWindow
    BY <1>6 DEF OtherWindow, FeedInOrder
  <1> QED BY <1>0, <1>1, <1>2, <1>3, <1>4, <1>5, <1>6 DEF Next

----------------------------------------------------------------------------
(* The theorems. *)

IInv == TypeOK /\ Ties /\ RunningIsOwned /\ ShownInOrder

\* The inductive invariant: types, ties, ownership and what is shown.
LEMMA Inductive == Spec => []IInv
  <1>1. Init => IInv
    BY InitTypeOK, InitTies, InitOwned DEF Init, IInv, ShownInOrder, FeedInOrder, LogOfSubject
  <1>2. IInv /\ [Next]_vars => IInv'
    BY StepTypeOK, StepTies, StepOwned, StepLog, StepFeed DEF IInv, ShownInOrder, Ties
  <1> QED BY <1>1, <1>2, PTL DEF Spec

\* The views and the streams are always well formed (type invariant).
THEOREM TypeCorrect == Spec => []TypeOK
  <1>1. IInv => TypeOK
    BY DEF IInv
  <1> QED BY <1>1, Inductive, PTL

\* No stream runs on that no viewer, key or result on its way could stop
\* (stopLogStream, stopEventStream and their callers).
THEOREM StreamsOwned == Spec => []RunningIsOwned
  <1>1. IInv => RunningIsOwned
    BY DEF IInv
  <1> QED BY <1>1, Inductive, PTL

\* The feed shows its own lines in order and without a gap, the log viewer lines
\* of what its title names (logLinesMsg, opLinesMsg, eventLinesMsg).
THEOREM ShownCorrect == Spec => []ShownInOrder
  <1>1. IInv => ShownInOrder
    BY DEF IInv
  <1> QED BY <1>1, Inductive, PTL

----------------------------------------------------------------------------
(* The inductive invariant of the lists. *)

ThingsOf(v) == {t \in Things : t.view = v}

\* An answer of the daemon, and the rows made of one: each object once, and
\* sorted by name.
ListsOf(v) ==
  {s \in Seq(ThingsOf(v)) :
     \A i, j \in DOMAIN s : /\ i < j => s[i].rank <= s[j].rank
                            /\ s[i] = s[j] => i = j}
RowSets ==
  {r \in Seq([thing : Things, cells : Nat]) :
     /\ \A i, j \in DOMAIN r : /\ i < j => r[i].thing.rank <= r[j].thing.rank
                               /\ r[i].thing = r[j].thing => i = j
     /\ \A i \in DOMAIN r : \E w \in BOOLEAN : r[i].cells = ColumnCount(r[i].thing.view, w)}
Fetches ==
  {c \in [view : Views, host : Hosts, scope : Projects \union {None}, all : BOOLEAN,
          read : BOOLEAN, list : Seq(Things), up : SUBSET Things] :
     c.list \in ListsOf(c.view) /\ c.up \subseteq ThingsOf("containers")}

\* The types in parts, with what ListsRight rests on: whatever answer is late,
\* it is sorted and of the view it is kept for, and the table has the columns
\* of the view shown, whosever rows it holds.
FlagsInv ==
  /\ world \in [Things -> {"up", "down", "gone"}]
  /\ backend \in Hosts /\ conn \in Nat \ {0}
  /\ reconnecting \in BOOLEAN /\ statsView \in BOOLEAN /\ showAll \in BOOLEAN
  /\ paused \in BOOLEAN /\ resource \in Views
  /\ keys \in 0..MaxKeys /\ changes \in 0..MaxChanges
NamedInv ==
  /\ dialing \in Hosts \union {None}
  /\ {composeFilter, composeReselect} \subseteq Projects \union {None}
  /\ selected \subseteq Things \union {None}
AnswersInv ==
  /\ lists \in [Views -> Seq(Things)] /\ \A v \in Views : lists[v] \in ListsOf(v)
  /\ running \union stats \subseteq ThingsOf("containers")
  /\ calls \subseteq Fetches
TableInv ==
  /\ rows \in RowSets /\ cursor \in Int
  /\ columns = ColumnCount(resource, statsView)
  /\ \A i \in DOMAIN rows : rows[i].cells = columns
  /\ rows # <<>> => cursor + 1 \in DOMAIN rows
SamplesInv ==
  /\ statsInFlight \in BOOLEAN /\ IsFiniteSet(batches)
  /\ Cardinality(batches) <= conn /\ (~statsInFlight => Cardinality(batches) + 1 <= conn)

ListsInv == FlagsInv /\ NamedInv /\ AnswersInv /\ TableInv /\ SamplesInv

----------------------------------------------------------------------------
(* The table's operators. *)

LEMMA ColumnsType ==
  ASSUME NEW v \in Views, NEW w \in BOOLEAN
  PROVE ColumnCount(v, w) \in Nat
BY DEF ColumnCount, Views

\* Rows made of a list of view v fit the columns of v.
LEMMA RowsOfList ==
  ASSUME NEW v \in Views, NEW list \in ListsOf(v), NEW w \in BOOLEAN
  PROVE /\ RowsOf(list, w) \in RowSets
        /\ DOMAIN RowsOf(list, w) = 1..Len(list)
        /\ \A i \in DOMAIN list : RowsOf(list, w)[i].thing = list[i]
        /\ \A i \in DOMAIN RowsOf(list, w) : RowsOf(list, w)[i].cells = ColumnCount(v, w)
  <1> DEFINE r == RowsOf(list, w)
  <1>1. list \in Seq(ThingsOf(v)) /\ Len(list) \in Nat /\ DOMAIN list = 1..Len(list)
    BY DEF ListsOf
  <1>2. \A i \in 1..Len(list) : list[i] \in Things /\ list[i].view = v
    BY <1>1 DEF ThingsOf
  <1>3. /\ DOMAIN r = 1..Len(list)
        /\ \A i \in 1..Len(list) : r[i] = [thing |-> list[i], cells |-> ColumnCount(v, w)]
    BY <1>1, <1>2 DEF RowsOf
  <1>4. r \in Seq([thing : Things, cells : Nat])
    <2>1. \A i \in 1..Len(list) : r[i] \in [thing : Things, cells : Nat]
      BY <1>2, <1>3, ColumnsType
    <2>2. r = [i \in 1..Len(list) |-> r[i]]
      BY <1>1 DEF RowsOf
    <2> HIDE DEF r
    <2> QED BY <1>1, <2>1, <2>2
  <1>5. \A i, j \in DOMAIN list : /\ i < j => list[i].rank <= list[j].rank
                                  /\ list[i] = list[j] => i = j
    BY DEF ListsOf
  <1>6. r \in RowSets
    <2> HIDE DEF r
    <2>1. \A i \in DOMAIN r : r[i].thing = list[i] /\ r[i].cells = ColumnCount(r[i].thing.view, w)
      BY <1>2, <1>3
    <2> QED BY <1>1, <1>3, <1>4, <1>5, <2>1 DEF RowSets
  <1> QED BY <1>1, <1>3, <1>6

\* The cursor is clamped to the rows, and stays where it can.
LEMMA Clamped ==
  ASSUME NEW c \in Int, NEW n \in Nat
  PROVE /\ ClampCursor(c, n) \in Int
        /\ n > 0 => ClampCursor(c, n) + 1 \in 1..n
        /\ c + 1 \in 1..n => ClampCursor(c, n) = c
BY DEF ClampCursor

\* What the daemon answers is such a list.
LEMMA OrdersOfView ==
  ASSUME NEW v \in Views, NEW S \in SUBSET ThingsOf(v), NEW list \in Orders(S)
  PROVE list \in ListsOf(v)
  <1>1. IsFiniteSet(S)
    BY ThingsAssumption, FS_Subset DEF ThingsOf
  <1>2. /\ list \in SetToSeqs(S)
        /\ \A i, j \in DOMAIN list : i < j => list[i].rank <= list[j].rank
    BY DEF Orders
  <1>3. list \in Seq(S)
    BY <1>1, <1>2, SetToSeqsAll
  <1>4. list \in Seq(ThingsOf(v))
    BY <1>3, SeqOfSubset
  <1>5. \A i, j \in DOMAIN list : list[i] = list[j] => i = j
    BY <1>2, <1>3 DEF SetToSeqs, IsInjective
  <1> QED BY <1>2, <1>4, <1>5 DEF ListsOf

LEMMA RowThings ==
  ASSUME NEW r \in RowSets
  PROVE \A i \in DOMAIN r : r[i].thing \in Things
  <1> DEFINE R == [thing : Things, cells : Nat]
  <1>1. r \in Seq(R)
    BY DEF RowSets
  <1>2. \A i \in DOMAIN r : r[i] \in R
    <2> HIDE DEF R
    <2> QED BY <1>1
  <1> QED BY <1>2

\* What the cursor names is an object of the view shown, if anything.
LEMMA PointedAt ==
  ASSUME FlagsInv, TableInv
  PROVE /\ SelectedID \subseteq Things \union {None}
        /\ \A t \in SelectedID \ {None} : t \in Things /\ t.view = resource
  <1>1. \A i \in DOMAIN rows : rows[i].thing \in Things
    BY RowThings DEF TableInv
  <1>2. SUFFICES ASSUME NEW t \in SelectedID, t # None
                 PROVE t.view = resource
    BY <1>1 DEF SelectedID
  <1> DEFINE r == rows[cursor + 1]
  <1>3. /\ cursor + 1 \in DOMAIN rows /\ t = r.thing
        /\ ReadCell(resource) = IdentityCell(t.view)
    BY <1>2 DEF SelectedID
  <1>4. t.view \in Views
    BY <1>1, <1>3, ThingsAssumption
  <1>5. PICK w \in BOOLEAN : ColumnCount(resource, statsView) = ColumnCount(t.view, w)
    BY <1>3 DEF TableInv, RowSets
  <1> QED
    BY <1>3, <1>4, <1>5 DEF FlagsInv, Views, ReadCell, IdentityCell, ColumnCount

----------------------------------------------------------------------------
(* The initial state, and what the invariant gives. *)

LEMMA NoList ==
  /\ \A v \in Views : <<>> \in ListsOf(v)
  /\ <<>> \in RowSets
BY DEF ListsOf, RowSets

LEMMA ListsBegins == ListsInit => ListsInv
  <1> SUFFICES ASSUME ListsInit PROVE ListsInv
    OBVIOUS
  <1>0. /\ FirstHost \in Hosts /\ FirstViews \subseteq Views
        /\ MaxKeys \in Nat /\ MaxChanges \in Nat
    BY ThingsAssumption
  <1>1. FlagsInv
    <2>1. world \in [Things -> {"up", "down", "gone"}]
      BY DEF ListsInit
    <2>2. keys \in 0..MaxKeys /\ changes \in 0..MaxChanges /\ conn \in Nat \ {0}
      BY <1>0 DEF ListsInit
    <2>3. backend \in Hosts /\ resource \in Views
      BY <1>0 DEF ListsInit
    <2>4. /\ reconnecting \in BOOLEAN /\ statsView \in BOOLEAN /\ showAll \in BOOLEAN
          /\ paused \in BOOLEAN
      BY DEF ListsInit
    <2> QED BY <2>1, <2>2, <2>3, <2>4, Zenon DEF FlagsInv
  <1>2. NamedInv
    BY DEF NamedInv, ListsInit
  <1>3. AnswersInv
    BY NoList DEF AnswersInv, ListsInit
  <1>4. TableInv
    <2>1. rows = <<>> /\ cursor = 0 /\ columns = ColumnCount(resource, statsView)
      BY DEF ListsInit
    <2> QED BY <2>1, NoList DEF TableInv
  <1>5. SamplesInv
    <2>1. statsInFlight = FALSE /\ batches = {} /\ conn = 1
      BY DEF ListsInit
    <2>2. IsFiniteSet(batches) /\ Cardinality(batches) = 0
      BY <2>1, FS_EmptySet
    <2>3. statsInFlight \in BOOLEAN
      BY <2>1
    <2>4. Cardinality(batches) <= conn /\ Cardinality(batches) + 1 <= conn
      BY <2>1, <2>2
    <2> QED BY <2>2, <2>3, <2>4, Zenon DEF SamplesInv
  <1> QED BY <1>1, <1>2, <1>3, <1>4, <1>5 DEF ListsInv

LEMMA ListsSuffice == ListsInv => ListsRight
  <1> SUFFICES ASSUME ListsInv PROVE ListsRight
    OBVIOUS
  <1> USE DEF ListsInv
  <1>1. ListsTypeOK
    <2>1. \A v \in Views : lists[v] \in Seq({t \in Things : t.view = v})
      BY DEF AnswersInv, ListsOf, ThingsOf
    <2>2. running \union stats \subseteq {t \in Things : t.view = "containers"}
      BY DEF AnswersInv, ThingsOf
    <2>3. columns \in Nat
      BY ColumnsType DEF TableInv, FlagsInv
    <2>4. \A i \in DOMAIN rows : rows[i].thing \in Things
      BY RowThings DEF TableInv
    <2>5. calls \subseteq
            [view : Views, host : Hosts, scope : Projects \union {None},
             all : BOOLEAN, read : BOOLEAN, list : Seq(Things), up : SUBSET Things]
      BY DEF AnswersInv, Fetches
    <2> QED BY <2>1, <2>2, <2>3, <2>4, <2>5
            DEF ListsTypeOK, FlagsInv, NamedInv, TableInv, SamplesInv
  <1>2. TableFits
    BY DEF TableInv, TableFits
  <1>3. CursorNamesOfView
    BY PointedAt DEF CursorNamesOfView
  <1>4. BatchesBounded
    <2>1. Cardinality(batches) \in Nat /\ conn \in Nat
      BY FS_CardinalityType DEF SamplesInv, FlagsInv
    <2>2. CASE statsInFlight
      BY <2>1, <2>2 DEF SamplesInv, BatchesBounded
    <2>3. CASE ~statsInFlight
      BY <2>1, <2>3 DEF SamplesInv, BatchesBounded
    <2> QED BY <2>2, <2>3
  <1> QED BY <1>1, <1>2, <1>3, <1>4 DEF ListsRight

----------------------------------------------------------------------------
(* Every step keeps it: one lemma for each part. *)

\* A fetch that the model a step leaves starts is well formed.
LEMMA FetchTyped ==
  ASSUME AnswersInv, FlagsInv', NamedInv', FetchCurrent
  PROVE calls' \subseteq Fetches
  <1> DEFINE c == [view |-> resource', host |-> backend', scope |-> composeFilter',
                   all |-> showAll', read |-> FALSE, list |-> <<>>, up |-> {}]
  <1>1. c \in Fetches
    BY NoList DEF FlagsInv, NamedInv, Fetches
  <1>2. calls' = calls \union {c}
    BY DEF FetchCurrent
  <1> HIDE DEF c
  <1> QED BY <1>1, <1>2 DEF AnswersInv

LEMMA FlagsStep == ListsInv /\ [ListsNext]_listsVars => FlagsInv'
  <1> SUFFICES ASSUME ListsInv, [ListsNext]_listsVars PROVE FlagsInv'
    OBVIOUS
  <1> USE DEF netVars, viewVars, answerVars, rowVars, statVars
  <1>0. FlagsInv /\ NamedInv /\ AnswersInv /\ MaxKeys \in Nat /\ MaxChanges \in Nat
    BY ThingsAssumption DEF ListsInv
  <1>1. /\ conn' = conn + 1 => conn' \in Nat \ {0}
        /\ changes < MaxChanges /\ changes' = changes + 1 => changes' \in 0..MaxChanges
        /\ keys < MaxKeys /\ keys' = keys + 1 => keys' \in 0..MaxKeys
    BY <1>0 DEF FlagsInv
  <1>2. CASE UNCHANGED listsVars
    BY <1>0, <1>2 DEF FlagsInv, listsVars
  <1>3. CASE Tick \/ ReconnectResult \/ ConnectResult \/ ActionResult
    <2>1. CASE Tick \/ ActionResult
      BY <1>0, <2>1 DEF FlagsInv, Tick, ActionResult
    <2>2. CASE ReconnectResult
      BY <1>0, <1>1, <2>2 DEF FlagsInv, ReconnectResult
    <2>3. CASE ConnectResult
      BY <1>0, <1>1, <2>3 DEF FlagsInv, NamedInv, ConnectResult, Views
    <2> QED BY <1>3, <2>1, <2>2, <2>3
  <1>4. ASSUME NEW c \in calls, Answer(c) \/ Deliver(c) \/ CallFails(c)
        PROVE FlagsInv'
    <2>1. CASE Answer(c) \/ Deliver(c)
      BY <1>0, <2>1 DEF FlagsInv, Answer, Deliver
    <2>2. CASE CallFails(c)
      BY <1>0, <1>1, <2>2 DEF FlagsInv, CallFails
    <2> QED BY <1>4, <2>1, <2>2
  <1>5. ASSUME NEW b \in batches, StatsUpdated(b)
        PROVE FlagsInv'
    BY <1>0, <1>5 DEF FlagsInv, StatsUpdated
  <1>6. CASE RunAction
    BY <1>0, <1>6 DEF FlagsInv, RunAction
  <1>7. CASE OtherClient
    BY <1>0, <1>1, <1>7 DEF FlagsInv, OtherClient
  <1>8. CASE User
    <2> USE <1>0, <1>1 DEF FlagsInv, Key, KeyFrame
    <2>1. ASSUME NEW v \in Views, SwitchView(v) PROVE FlagsInv'
      BY <2>1 DEF SwitchView, ShowView
    <2>2. CASE DrillDown
      BY <2>2 DEF DrillDown, Views
    <2>3. CASE EscMarks \/ EscRefresh
      BY <2>3 DEF EscMarks, EscRefresh
    <2>4. CASE EscDrillDown
      BY <2>4 DEF EscDrillDown, ShowView, Views
    <2>5. CASE Mark \/ MoveCursor \/ ToggleStats \/ ToggleAll \/ Pause \/ Refresh
      BY <2>5 DEF Mark, MoveCursor, ToggleStats, ToggleAll, Pause, Refresh
    <2>6. CASE Connect \/ StartAction
      BY <2>6 DEF Connect, StartAction
    <2> QED BY <1>8, <2>1, <2>2, <2>3, <2>4, <2>5, <2>6 DEF User
  <1> QED BY <1>2, <1>3, <1>4, <1>5, <1>6, <1>7, <1>8 DEF ListsNext

LEMMA NamedStep == ListsInv /\ [ListsNext]_listsVars => NamedInv'
  <1> SUFFICES ASSUME ListsInv, [ListsNext]_listsVars PROVE NamedInv'
    OBVIOUS
  <1> USE DEF netVars, viewVars, answerVars, rowVars, statVars
  <1>0. FlagsInv /\ NamedInv /\ TableInv
    BY DEF ListsInv
  <1>1. CASE UNCHANGED listsVars
    BY <1>0, <1>1 DEF NamedInv, listsVars
  <1>2. CASE Tick \/ ReconnectResult \/ ConnectResult
    BY <1>0, <1>2 DEF NamedInv, Tick, ReconnectResult, ConnectResult
  <1>3. CASE ActionResult
    BY <1>0, <1>3 DEF NamedInv, ActionResult, Unmarked
  <1>4. ASSUME NEW c \in calls, Answer(c) \/ Deliver(c) \/ CallFails(c)
        PROVE NamedInv'
    BY <1>0, <1>4 DEF NamedInv, Answer, Deliver, CallFails, Reselect
  <1>5. ASSUME NEW b \in batches, StatsUpdated(b)
        PROVE NamedInv'
    BY <1>0, <1>5 DEF NamedInv, StatsUpdated
  <1>6. CASE RunAction \/ OtherClient
    BY <1>0, <1>6 DEF NamedInv, RunAction, OtherClient
  <1>7. CASE User
    <2> USE <1>0 DEF NamedInv, KeyFrame
    <2>1. ASSUME NEW v \in Views, SwitchView(v) PROVE NamedInv'
      BY <2>1 DEF SwitchView, ShowView
    <2>2. CASE DrillDown
      <3>1. PICK t \in SelectedID \ {None} : composeFilter' = t.name
        BY <2>2 DEF DrillDown
      <3>2. t \in Things /\ t.view = "compose"
        BY <2>2, <3>1, PointedAt DEF DrillDown
      <3>3. t.name \in Projects
        BY <3>2 DEF Projects
      <3> QED BY <2>2, <3>1, <3>3 DEF DrillDown
    <2>3. CASE EscMarks \/ EscRefresh
      BY <2>3 DEF EscMarks, EscRefresh
    <2>4. CASE EscDrillDown
      BY <2>4 DEF EscDrillDown, ShowView
    <2>5. CASE Mark
      BY <2>5, PointedAt DEF Mark
    <2>6. CASE MoveCursor \/ ToggleStats \/ ToggleAll \/ Pause \/ Refresh
      BY <2>6 DEF MoveCursor, ToggleStats, ToggleAll, Pause, Refresh
    <2>7. CASE Connect
      <3>1. PICK t \in SelectedID \ {None} : dialing' = t.host
        BY <2>7 DEF Connect
      <3>2. t.host \in Hosts
        BY <3>1, PointedAt, ThingsAssumption
      <3> QED BY <2>7, <3>1, <3>2 DEF Connect
    <2>8. CASE StartAction
      BY <2>8 DEF StartAction
    <2> QED BY <1>7, <2>1, <2>2, <2>3, <2>4, <2>5, <2>6, <2>7, <2>8 DEF User
  <1> QED BY <1>1, <1>2, <1>3, <1>4, <1>5, <1>6, <1>7 DEF ListsNext

LEMMA AnswersStep ==
  ListsInv /\ [ListsNext]_listsVars /\ FlagsInv' /\ NamedInv' => AnswersInv'
  <1> SUFFICES ASSUME ListsInv, [ListsNext]_listsVars, FlagsInv', NamedInv'
               PROVE AnswersInv'
    OBVIOUS
  <1> USE DEF netVars, viewVars, answerVars, rowVars, statVars
  <1>0. FlagsInv /\ AnswersInv
    BY DEF ListsInv
  <1>1. ASSUME UNCHANGED answerVars, stats' \subseteq stats,
               calls' \subseteq calls \/ FetchCurrent
        PROVE AnswersInv'
    <2>1. calls' \subseteq Fetches
      BY <1>0, <1>1, FetchTyped DEF AnswersInv
    <2> QED BY <1>0, <1>1, <2>1 DEF AnswersInv
  <1>2. CASE UNCHANGED listsVars
    BY <1>1, <1>2 DEF listsVars
  <1>3. CASE Tick \/ ReconnectResult \/ ConnectResult
    BY <1>1, <1>3 DEF Tick, ReconnectResult, ConnectResult
  <1>4. CASE RunAction \/ ActionResult \/ OtherClient
    BY <1>1, <1>4 DEF RunAction, ActionResult, OtherClient
  <1>5. ASSUME NEW c \in calls, Answer(c) PROVE AnswersInv'
    <2>1. c \in Fetches /\ c.view \in Views
      BY <1>0 DEF AnswersInv, Fetches
    <2> DEFINE S == Listed(c.view, c.host, c.scope, c.all)
               up == {t \in S : t.view = "containers" /\ world[t] = "up"}
    <2>2. PICK list \in Orders(S) :
            calls' = (calls \ {c}) \union {[c EXCEPT !.read = TRUE, !.list = list, !.up = up]}
      BY <1>5 DEF Answer
    <2>3. S \in SUBSET ThingsOf(c.view) /\ up \subseteq ThingsOf("containers")
      BY DEF Listed, ThingsOf
    <2>4. list \in ListsOf(c.view)
      BY <2>1, <2>3, OrdersOfView
    <2>5. list \in Seq(Things)
      BY <2>4, SeqOfSubset DEF ListsOf, ThingsOf
    <2>6. up \subseteq Things
      BY <2>3 DEF ThingsOf
    <2> HIDE DEF S, up
    <2>7. [c EXCEPT !.read = TRUE, !.list = list, !.up = up] \in Fetches
      BY <2>1, <2>3, <2>4, <2>5, <2>6 DEF Fetches
    <2>8. UNCHANGED <<lists, running, stats>>
      BY <1>5 DEF Answer
    <2> QED BY <1>0, <2>2, <2>7, <2>8 DEF AnswersInv
  <1>6. ASSUME NEW c \in calls, Deliver(c) PROVE AnswersInv'
    <2>1. /\ c.view \in Views /\ c.list \in ListsOf(c.view) /\ c.list \in Seq(Things)
          /\ c.up \subseteq ThingsOf("containers")
      BY <1>0 DEF AnswersInv, Fetches
    <2>2. /\ lists' = [lists EXCEPT ![c.view] = c.list]
          /\ running' \in {c.up, running} /\ stats' = stats /\ calls' = calls \ {c}
      BY <1>6 DEF Deliver
    <2> QED BY <1>0, <2>1, <2>2 DEF AnswersInv
  <1>7. ASSUME NEW c \in calls, CallFails(c) PROVE AnswersInv'
    BY <1>1, <1>7 DEF CallFails
  <1>8. ASSUME NEW b \in batches, StatsUpdated(b) PROVE AnswersInv'
    <2>1. ToSet(lists["containers"]) \subseteq ThingsOf("containers")
      <3>1. lists["containers"] \in Seq(ThingsOf("containers"))
        BY <1>0 DEF AnswersInv, ListsOf, Views
      <3> QED BY <3>1 DEF ToSet
    <2>2. stats' \subseteq ToSet(lists["containers"]) \union stats
      BY <1>8 DEF StatsUpdated
    <2>3. UNCHANGED <<lists, running, calls>>
      BY <1>8 DEF StatsUpdated
    <2> QED BY <1>0, <2>1, <2>2, <2>3 DEF AnswersInv
  <1>9. CASE User
    <2> USE <1>1 DEF KeyFrame
    <2>1. ASSUME NEW v \in Views, SwitchView(v) PROVE AnswersInv'
      BY <2>1 DEF SwitchView, ShowView
    <2>2. CASE DrillDown \/ EscDrillDown
      BY <2>2 DEF DrillDown, EscDrillDown, ShowView
    <2>3. CASE EscMarks \/ EscRefresh \/ Mark \/ MoveCursor \/ ToggleStats
      BY <2>3 DEF EscMarks, EscRefresh, Mark, MoveCursor, ToggleStats
    <2>4. CASE ToggleAll \/ Pause \/ Refresh \/ Connect \/ StartAction
      BY <2>4 DEF ToggleAll, Pause, Refresh, Connect, StartAction
    <2> QED BY <1>9, <2>1, <2>2, <2>3, <2>4 DEF User
  <1> QED BY <1>2, <1>3, <1>4, <1>5, <1>6, <1>7, <1>8, <1>9 DEF ListsNext

\* A table that is given the rows of a list of its view.
LEMMA ShownTable ==
  ASSUME FlagsInv', NEW list \in ListsOf(resource'),
         rows' = RowsOf(list, statsView'), cursor' \in Int,
         Len(list) > 0 => cursor' + 1 \in 1..Len(list),
         columns' = ColumnCount(resource', statsView')
  PROVE TableInv'
  <1>1. resource' \in Views /\ statsView' \in BOOLEAN
    BY DEF FlagsInv
  <1>2. /\ rows' \in RowSets /\ DOMAIN rows' = 1..Len(list)
        /\ \A i \in DOMAIN rows' : rows'[i].cells = columns'
    BY <1>1, RowsOfList
  <1>3. Len(list) \in Nat
    BY DEF ListsOf
  <1>4. rows' # <<>> => Len(list) > 0
    <2>1. rows' \in Seq([thing : Things, cells : Nat])
      BY <1>2 DEF RowSets
    <2> QED BY <1>2, <1>3, <2>1
  <1> QED BY <1>2, <1>4 DEF TableInv

\* relayout keeps rows only if they have the columns of the new view.
LEMMA RelayoutKeeps ==
  ASSUME TableInv, FlagsInv', Relayout
  PROVE TableInv'
  <1>1. columns' = ColumnCount(resource', statsView') /\ cursor' = cursor
    BY DEF Relayout
  <1>2. CASE ColumnCount(resource', statsView') = columns
    <2>1. rows' = rows /\ columns' = columns
      BY <1>1, <1>2 DEF Relayout, KeptRows
    <2> QED BY <1>1, <2>1 DEF TableInv
  <1>3. CASE ColumnCount(resource', statsView') # columns
    <2>1. rows' = <<>>
      BY <1>3 DEF Relayout, KeptRows
    <2> QED BY <1>1, <2>1, NoList DEF TableInv
  <1> QED BY <1>2, <1>3

\* The rows of the view from the list kept for it.
LEMMA RefreshKeeps ==
  ASSUME ListsInv, FlagsInv', RefreshRows, UNCHANGED <<resource, statsView>>
  PROVE TableInv'
  <1>1. lists[resource] \in ListsOf(resource') /\ Len(lists[resource]) \in Nat
    BY DEF ListsInv, AnswersInv, FlagsInv, ListsOf
  <1>2. /\ rows' = RowsOf(lists[resource], statsView')
        /\ cursor' = ClampCursor(cursor, Len(lists[resource])) /\ columns' = columns
    BY DEF RefreshRows, SetRows
  <1>3. cursor \in Int /\ columns = ColumnCount(resource, statsView)
    BY DEF ListsInv, TableInv
  <1> QED BY <1>1, <1>2, <1>3, Clamped, ShownTable

LEMMA TableStep ==
  ListsInv /\ [ListsNext]_listsVars /\ FlagsInv' => TableInv'
  <1> SUFFICES ASSUME ListsInv, [ListsNext]_listsVars, FlagsInv'
               PROVE TableInv'
    OBVIOUS
  <1> USE DEF netVars, viewVars, answerVars, rowVars, statVars
  <1>0. FlagsInv /\ TableInv /\ AnswersInv
    BY DEF ListsInv
  <1>1. ASSUME UNCHANGED rowVars, UNCHANGED <<resource, statsView>>
        PROVE TableInv'
    BY <1>0, <1>1 DEF TableInv
  <1>2. CASE UNCHANGED listsVars
    BY <1>1, <1>2 DEF listsVars
  <1>3. CASE Tick \/ ReconnectResult \/ RunAction \/ ActionResult \/ OtherClient
    BY <1>1, <1>3 DEF Tick, ReconnectResult, RunAction, ActionResult, OtherClient
  <1>4. CASE ConnectResult
    BY <1>0, <1>4, RelayoutKeeps DEF ConnectResult
  <1>5. ASSUME NEW c \in calls, Answer(c) \/ CallFails(c) PROVE TableInv'
    BY <1>1, <1>5 DEF Answer, CallFails
  <1>6. ASSUME NEW c \in calls, Deliver(c) PROVE TableInv'
    <2>1. CASE resource # c.view
      BY <1>1, <1>6, <2>1 DEF Deliver
    <2>2. CASE resource = c.view
      <3>1. /\ rows' = RowsOf(c.list, statsView') /\ Reselect(c.list)
            /\ UNCHANGED <<resource, statsView, columns>>
        BY <1>6, <2>2 DEF Deliver
      <3>2. c.list \in ListsOf(resource') /\ Len(c.list) \in Nat
            /\ DOMAIN c.list = 1..Len(c.list)
        BY <1>0, <2>2, <3>1 DEF AnswersInv, Fetches, ListsOf
      <3>3. cursor \in Int /\ columns' = ColumnCount(resource', statsView')
        BY <1>0, <3>1 DEF TableInv
      <3> DEFINE I == IndexIn(c.list, composeReselect)
      <3>4. \/ cursor' = ClampCursor(cursor, Len(c.list))
            \/ I # {} /\ cursor' = (CHOOSE i \in I : TRUE) - 1
        BY <3>1 DEF Reselect
      <3>5. I \subseteq 1..Len(c.list)
        BY <3>2 DEF IndexIn
      <3>6. I # {} => (CHOOSE i \in I : TRUE) \in I
        OBVIOUS
      <3>7. cursor' \in Int /\ (Len(c.list) > 0 => cursor' + 1 \in 1..Len(c.list))
        <4> HIDE DEF I
        <4>1. CASE cursor' = ClampCursor(cursor, Len(c.list))
          BY <3>2, <3>3, <4>1, Clamped
        <4>2. CASE I # {} /\ cursor' = (CHOOSE i \in I : TRUE) - 1
          <5>1. PICK i \in I : cursor' = i - 1
            BY <3>6, <4>2
          <5> QED BY <3>2, <3>5, <5>1
        <4> QED BY <3>4, <4>1, <4>2
      <3> QED BY <3>1, <3>2, <3>3, <3>7, ShownTable
    <2> QED BY <2>1, <2>2
  <1>7. ASSUME NEW b \in batches, StatsUpdated(b) PROVE TableInv'
    <2>1. UNCHANGED <<resource, statsView>> /\ (RefreshRows \/ UNCHANGED rowVars)
      BY <1>7 DEF StatsUpdated
    <2> QED BY <1>1, <2>1, RefreshKeeps
  <1>8. CASE User
    <2> USE DEF KeyFrame
    <2>1. ASSUME NEW v \in Views, SwitchView(v) PROVE TableInv'
      BY <1>0, <2>1, RelayoutKeeps DEF SwitchView, ShowView
    <2>2. CASE DrillDown \/ EscDrillDown
      BY <1>0, <2>2, RelayoutKeeps DEF DrillDown, EscDrillDown, ShowView
    <2>3. CASE EscMarks \/ EscRefresh \/ Mark
      BY <2>3, RefreshKeeps DEF EscMarks, EscRefresh, Mark
    <2>4. CASE MoveCursor
      <3>1. rows \in Seq([thing : Things, cells : Nat])
        BY <1>0 DEF TableInv, RowSets
      <3>2. PICK c \in 0..(Len(rows) - 1) : cursor' = c
        BY <2>4 DEF MoveCursor
      <3>3. cursor' \in Int /\ cursor' + 1 \in DOMAIN rows
        <4> DEFINE R == [thing : Things, cells : Nat]
        <4>1. rows \in Seq(R)
          BY <3>1
        <4> HIDE DEF R
        <4> QED BY <3>2, <4>1
      <3>4. UNCHANGED <<resource, statsView, columns, rows>>
        BY <2>4 DEF MoveCursor
      <3> QED BY <1>0, <3>3, <3>4 DEF TableInv
    <2>5. CASE ToggleStats
      <3>1. lists["containers"] \in ListsOf(resource') /\ Len(lists["containers"]) \in Nat
        BY <1>0, <2>5 DEF ToggleStats, AnswersInv, ListsOf, Views
      <3>2. /\ rows' = RowsOf(lists["containers"], statsView')
            /\ cursor' = ClampCursor(cursor, Len(lists["containers"]))
            /\ columns' = ColumnCount(resource', statsView')
        BY <2>5 DEF ToggleStats, SetRows
      <3>3. cursor \in Int
        BY <1>0 DEF TableInv
      <3> QED BY <3>1, <3>2, <3>3, Clamped, ShownTable
    <2>6. CASE ToggleAll \/ Pause \/ Refresh \/ Connect \/ StartAction
      BY <1>1, <2>6 DEF ToggleAll, Pause, Refresh, Connect, StartAction
    <2> QED BY <1>8, <2>1, <2>2, <2>3, <2>4, <2>5, <2>6 DEF User
  <1> QED BY <1>2, <1>3, <1>4, <1>5, <1>6, <1>7, <1>8 DEF ListsNext

LEMMA SamplesStep ==
  ListsInv /\ [ListsNext]_listsVars => SamplesInv'
  <1> SUFFICES ASSUME ListsInv, [ListsNext]_listsVars PROVE SamplesInv'
    OBVIOUS
  <1> USE DEF netVars, viewVars, answerVars, rowVars, statVars
  <1>0. SamplesInv /\ conn \in Nat
    BY DEF ListsInv, FlagsInv
  <1> DEFINE C == Cardinality(batches)
  <1>1. C \in Nat /\ C <= conn /\ (~statsInFlight => C + 1 <= conn)
    BY <1>0, FS_CardinalityType DEF SamplesInv
  <1>2. ASSUME UNCHANGED <<statsInFlight, batches, conn>> PROVE SamplesInv'
    BY <1>0, <1>2 DEF SamplesInv
  <1>3. ASSUME statsInFlight' = FALSE, batches' = batches, conn' = conn + 1
        PROVE SamplesInv'
    <2>1. Cardinality(batches') <= conn' /\ Cardinality(batches') + 1 <= conn'
      BY <1>0, <1>1, <1>3
    <2>2. statsInFlight' \in BOOLEAN /\ IsFiniteSet(batches')
      BY <1>0, <1>3 DEF SamplesInv
    <2> QED BY <2>1, <2>2, Zenon DEF SamplesInv
  <1>4. CASE UNCHANGED listsVars
    BY <1>2, <1>4 DEF listsVars
  <1>5. CASE Tick \/ RunAction \/ ActionResult \/ OtherClient
    BY <1>2, <1>5 DEF Tick, RunAction, ActionResult, OtherClient
  <1>6. CASE ReconnectResult \/ ConnectResult
    BY <1>3, <1>6 DEF ReconnectResult, ConnectResult
  <1>7. ASSUME NEW c \in calls, Answer(c) \/ CallFails(c) PROVE SamplesInv'
    BY <1>2, <1>7 DEF Answer, CallFails
  <1>8. ASSUME NEW c \in calls, Deliver(c) PROVE SamplesInv'
    <2>1. conn' = conn
      BY <1>8 DEF Deliver
    <2>2. \/ UNCHANGED <<statsInFlight, batches>>
          \/ /\ ~statsInFlight /\ statsInFlight' = TRUE
             /\ \E b : batches' = batches \union {b}
      BY <1>8 DEF Deliver, StartBatch
    <2>3. ASSUME NEW b, ~statsInFlight, statsInFlight' = TRUE, batches' = batches \union {b}
          PROVE SamplesInv'
      <3>1. IsFiniteSet(batches') /\ Cardinality(batches') <= C + 1
        BY <1>0, <1>1, <2>3, FS_AddElement DEF SamplesInv
      <3>2. Cardinality(batches') \in Nat
        BY <3>1, FS_CardinalityType
      <3> HIDE DEF C
      <3> QED BY <1>0, <1>1, <2>1, <2>3, <3>1, <3>2 DEF SamplesInv
    <2> QED BY <1>2, <2>1, <2>2, <2>3
  <1>9. ASSUME NEW b \in batches, StatsUpdated(b) PROVE SamplesInv'
    <2>1. statsInFlight' = FALSE /\ batches' = batches \ {b} /\ conn' = conn
      BY <1>9 DEF StatsUpdated
    <2>2. IsFiniteSet(batches') /\ Cardinality(batches') = C - 1
      BY <1>0, <1>1, <2>1, FS_RemoveElement DEF SamplesInv
    <2>3. Cardinality(batches') <= conn' /\ Cardinality(batches') + 1 <= conn'
      <3> HIDE DEF C
      <3> QED BY <1>0, <1>1, <2>1, <2>2
    <2>4. statsInFlight' \in BOOLEAN
      BY <2>1
    <2> QED BY <2>2, <2>3, <2>4, Zenon DEF SamplesInv
  <1>10. CASE User
    <2> USE <1>2 DEF KeyFrame
    <2>1. ASSUME NEW v \in Views, SwitchView(v) PROVE SamplesInv'
      BY <2>1 DEF SwitchView, ShowView
    <2>2. CASE DrillDown \/ EscDrillDown
      BY <2>2 DEF DrillDown, EscDrillDown, ShowView
    <2>3. CASE EscMarks \/ EscRefresh \/ Mark \/ MoveCursor \/ ToggleStats
      BY <2>3 DEF EscMarks, EscRefresh, Mark, MoveCursor, ToggleStats
    <2>4. CASE ToggleAll \/ Pause \/ Refresh \/ Connect \/ StartAction
      BY <2>4 DEF ToggleAll, Pause, Refresh, Connect, StartAction
    <2> QED BY <1>10, <2>1, <2>2, <2>3, <2>4 DEF User
  <1> QED BY <1>4, <1>5, <1>6, <1>7, <1>8, <1>9, <1>10 DEF ListsNext

LEMMA ListsKept == ListsInv /\ [ListsNext]_listsVars => ListsInv'
BY FlagsStep, NamedStep, AnswersStep, TableStep, SamplesStep DEF ListsInv

\* The lists' inductive invariant holds whatever the daemons answer, when.
THEOREM ListsInvariance == ListsSpec => []ListsInv
BY ListsBegins, ListsKept, PTL DEF ListsSpec

\* Rows fit the columns of the table, the cursor names no object of another
\* view, and batches of statistics do not pile up, for any number of objects,
\* hosts, fetches and keys.
THEOREM ListsCorrect == ListsSpec => []ListsRight
BY ListsInvariance, ListsSuffice, PTL

----------------------------------------------------------------------------
(* What the user points at. *)

\* Two sorted tables of the same objects, whose names differ, are the same.
LEMMA SameObjects ==
  ASSUME NEW r \in RowSets, NEW q \in RowSets,
         {r[i].thing : i \in DOMAIN r} = {q[i].thing : i \in DOMAIN q},
         \A i, j \in DOMAIN r : r[i].thing.rank = r[j].thing.rank => i = j
  PROVE DOMAIN q = DOMAIN r /\ \A i \in DOMAIN r : q[i].thing = r[i].thing
  <1> DEFINE R == [thing : Things, cells : Nat]
             m == Len(r)
             n == Len(q)
             s == [i \in 1..m |-> r[i].thing.rank]
             t == [i \in 1..n |-> q[i].thing.rank]
  <1>1. r \in Seq(R) /\ q \in Seq(R)
    BY DEF RowSets
  <1>2. m \in Nat /\ n \in Nat /\ DOMAIN r = 1..m /\ DOMAIN q = 1..n
    <2> HIDE DEF R
    <2> QED BY <1>1
  <1>3. /\ \A i \in 1..m : r[i].thing \in Things /\ r[i].thing.rank \in Nat
        /\ \A i \in 1..n : q[i].thing \in Things /\ q[i].thing.rank \in Nat
    BY <1>2, RowThings, ThingsAssumption
  <1>4. /\ \A i \in 1..m : \E j \in 1..n : r[i].thing = q[j].thing
        /\ \A i \in 1..n : \E j \in 1..m : q[i].thing = r[j].thing
    BY <1>2
  <1>5. /\ \A i, j \in 1..m : /\ i < j => r[i].thing.rank <= r[j].thing.rank
                              /\ r[i].thing = r[j].thing => i = j
        /\ \A i, j \in 1..n : /\ i < j => q[i].thing.rank <= q[j].thing.rank
                              /\ q[i].thing = q[j].thing => i = j
    BY <1>2 DEF RowSets
  <1>6. \A i, j \in 1..n : q[i].thing.rank = q[j].thing.rank => i = j
    <2>1. SUFFICES ASSUME NEW i \in 1..n, NEW j \in 1..n,
                          q[i].thing.rank = q[j].thing.rank
                   PROVE i = j
      OBVIOUS
    <2>2. PICK k \in 1..m : q[i].thing = r[k].thing
      BY <1>4
    <2>3. PICK l \in 1..m : q[j].thing = r[l].thing
      BY <1>4
    <2>4. k = l
      BY <1>2, <2>1, <2>2, <2>3
    <2> QED BY <1>5, <2>2, <2>3, <2>4
  <1>7. s \in [1..m -> Nat] /\ t \in [1..n -> Nat]
    BY <1>3
  <1>8. \A i, j \in 1..m : i < j => s[i] < s[j]
    BY <1>2, <1>3, <1>5
  <1>9. \A i, j \in 1..n : i < j => t[i] < t[j]
    BY <1>2, <1>3, <1>5, <1>6
  <1>10. /\ \A i \in 1..m : \E j \in 1..n : s[i] = t[j]
         /\ \A i \in 1..n : \E j \in 1..m : t[i] = s[j]
    BY <1>4
  <1>11. s = t
    <2> HIDE DEF s, t, m, n
    <2> QED BY <1>2, <1>7, <1>8, <1>9, <1>10, OrderUniqueOn
  <1>12. m = n
    <2>1. 1..m = 1..n
      BY <1>11
    <2> HIDE DEF s, t, m, n
    <2> QED BY <1>2, <2>1
  <1>13. ASSUME NEW i \in 1..m PROVE q[i].thing = r[i].thing
    <2>1. q[i].thing.rank = r[i].thing.rank
      <3>1. s[i] = t[i] /\ i \in 1..n
        BY <1>11, <1>12
      <3> QED BY <3>1
    <2>2. PICK k \in 1..m : q[i].thing = r[k].thing
      BY <1>4, <1>12
    <2>3. k = i
      BY <1>2, <2>1, <2>2
    <2> QED BY <2>2, <2>3
  <1> QED BY <1>2, <1>12, <1>13

\* The cursor stays on its object if its row does, and is where it was.
LEMMA SamePlace ==
  ASSUME TableInv, TableInv', resource' = resource, Shown' = Shown, NamesDiffer,
         cursor' = cursor \/ cursor' = ClampCursor(cursor, Len(rows'))
  PROVE SelectedID' = SelectedID
  <1>1. rows \in RowSets /\ rows' \in RowSets
    BY DEF TableInv
  <1>2. DOMAIN rows' = DOMAIN rows /\ \A i \in DOMAIN rows : rows'[i].thing = rows[i].thing
    BY <1>1, SameObjects DEF Shown, NamesDiffer
  <1>3. Len(rows') \in Nat /\ DOMAIN rows' = 1..Len(rows') /\ (rows = <<>> \/ rows # <<>>)
    BY <1>1 DEF RowSets
  <1>4. CASE rows # <<>>
    <2>1. cursor + 1 \in 1..Len(rows') /\ cursor \in Int
      BY <1>2, <1>3, <1>4 DEF TableInv
    <2>2. cursor' = cursor
      BY <1>3, <2>1, Clamped
    <2> QED BY <1>2, <1>3, <2>1, <2>2 DEF SelectedID
  <1>5. CASE rows = <<>>
    <2>1. DOMAIN rows = {}
      BY <1>5
    <2> QED BY <1>2, <2>1 DEF SelectedID
  <1> QED BY <1>4, <1>5

\* Keys aside, a step that leaves the same rows leaves the cursor's object.
LEMMA PlaceKept ==
  ASSUME ListsInv, [ListsNext]_listsVars, keys' = keys, resource' = resource,
         composeReselect' = composeReselect, Shown' = Shown, NamesDiffer
  PROVE SelectedID' = SelectedID
  <1> USE DEF netVars, viewVars, answerVars, rowVars, statVars
  <1>0. ListsInv' /\ TableInv /\ TableInv' /\ AnswersInv /\ FlagsInv
    BY ListsKept DEF ListsInv
  <1>1. ASSUME rows' = rows, cursor' = cursor PROVE SelectedID' = SelectedID
    BY <1>1 DEF SelectedID
  <1>2. ASSUME cursor' = cursor \/ cursor' = ClampCursor(cursor, Len(rows'))
        PROVE SelectedID' = SelectedID
    BY <1>0, <1>2, SamePlace
  <1>3. CASE UNCHANGED listsVars
    BY <1>1, <1>3 DEF listsVars
  <1>4. CASE Tick \/ ReconnectResult \/ RunAction \/ ActionResult \/ OtherClient
    BY <1>1, <1>4 DEF Tick, ReconnectResult, RunAction, ActionResult, OtherClient
  <1>5. CASE ConnectResult
    BY <1>2, <1>5 DEF ConnectResult, Relayout
  <1>6. ASSUME NEW c \in calls, Answer(c) \/ CallFails(c) PROVE SelectedID' = SelectedID
    BY <1>1, <1>6 DEF Answer, CallFails
  <1>7. ASSUME NEW v \in Views, NEW list \in ListsOf(v), NEW w \in BOOLEAN,
               rows' = RowsOf(list, w)
        PROVE Len(rows') = Len(list)
    <2> DEFINE R == [thing : Things, cells : Nat]
    <2>1. DOMAIN rows' = 1..Len(list) /\ rows' \in Seq(R)
      BY <1>7, RowsOfList DEF RowSets
    <2>2. Len(list) \in Nat
      BY DEF ListsOf
    <2> HIDE DEF R
    <2> QED BY <2>1, <2>2
  <1>8. ASSUME NEW c \in calls, Deliver(c) PROVE SelectedID' = SelectedID
    <2>1. CASE resource # c.view
      BY <1>1, <1>8, <2>1 DEF Deliver
    <2>2. CASE resource = c.view
      <3>1. rows' = RowsOf(c.list, statsView) /\ Reselect(c.list)
        BY <1>8, <2>2 DEF Deliver
      <3>2. cursor' = ClampCursor(cursor, Len(c.list))
        BY <3>1 DEF Reselect
      <3>3. c.view \in Views /\ c.list \in ListsOf(c.view) /\ statsView \in BOOLEAN
        BY <1>0 DEF AnswersInv, Fetches, FlagsInv
      <3>4. Len(rows') = Len(c.list)
        BY <1>7, <3>1, <3>3
      <3> QED BY <1>2, <3>2, <3>4
    <2> QED BY <2>1, <2>2
  <1>9. ASSUME NEW b \in batches, StatsUpdated(b) PROVE SelectedID' = SelectedID
    <2>1. CASE UNCHANGED rowVars
      BY <1>1, <2>1
    <2>2. CASE RefreshRows
      <3>1. /\ rows' = RowsOf(lists[resource], statsView)
            /\ cursor' = ClampCursor(cursor, Len(lists[resource]))
        BY <1>9, <2>2 DEF RefreshRows, SetRows, StatsUpdated
      <3>2. Len(rows') = Len(lists[resource])
        BY <1>0, <1>7, <3>1 DEF AnswersInv, FlagsInv
      <3> QED BY <1>2, <3>1, <3>2
    <2> QED BY <1>9, <2>1, <2>2 DEF StatsUpdated
  <1>10. CASE User
    <2>1. keys' # keys
      <3>1. Key
        BY <1>10 DEF User, SwitchView, DrillDown, EscMarks, EscDrillDown, EscRefresh, Mark,
          MoveCursor, ToggleStats, ToggleAll, Pause, Refresh, Connect, StartAction
      <3> QED BY <1>0, <3>1 DEF Key, FlagsInv
    <2> QED BY <2>1
  <1> QED BY <1>3, <1>4, <1>5, <1>6, <1>8, <1>9, <1>10 DEF ListsNext

\* Marks leave a view with the view, but for a switch of hosts.
LEMMA MarksKept ==
  ASSUME ListsInv, [ListsNext]_listsVars, MarksOfView, conn' = conn
  PROVE MarksOfView'
  <1> USE DEF netVars, viewVars, answerVars, rowVars, statVars
  <1>0. FlagsInv /\ TableInv
    BY DEF ListsInv
  <1>1. ASSUME selected' \subseteq selected, resource' = resource \/ selected' = {}
        PROVE MarksOfView'
    BY <1>1 DEF MarksOfView
  <1>2. CASE UNCHANGED listsVars
    BY <1>1, <1>2 DEF listsVars
  <1>3. CASE Tick \/ RunAction \/ OtherClient
    BY <1>1, <1>3 DEF Tick, RunAction, OtherClient
  <1>4. CASE ReconnectResult \/ ConnectResult
    <2>1. conn' = conn + 1
      BY <1>4 DEF ReconnectResult, ConnectResult
    <2> QED BY <1>0, <2>1 DEF FlagsInv
  <1>5. CASE ActionResult
    BY <1>1, <1>5 DEF ActionResult, Unmarked
  <1>6. ASSUME NEW c \in calls, Answer(c) \/ CallFails(c) \/ Deliver(c) PROVE MarksOfView'
    BY <1>1, <1>6 DEF Answer, CallFails, Deliver
  <1>7. ASSUME NEW b \in batches, StatsUpdated(b) PROVE MarksOfView'
    BY <1>1, <1>7 DEF StatsUpdated
  <1>8. CASE User
    <2>1. ASSUME NEW v \in Views, SwitchView(v) PROVE MarksOfView'
      BY <1>1, <2>1 DEF SwitchView, ShowView
    <2>2. CASE DrillDown \/ EscDrillDown
      BY <1>1, <2>2 DEF DrillDown, EscDrillDown, ShowView
    <2>3. CASE EscMarks \/ EscRefresh \/ MoveCursor \/ ToggleStats
      BY <1>1, <2>3 DEF EscMarks, EscRefresh, MoveCursor, ToggleStats
    <2>4. CASE Mark
      BY <1>0, <2>4, PointedAt DEF Mark, MarksOfView
    <2>5. CASE ToggleAll \/ Pause \/ Refresh \/ Connect \/ StartAction
      BY <1>1, <2>5 DEF ToggleAll, Pause, Refresh, Connect, StartAction
    <2> QED BY <1>8, <2>1, <2>2, <2>3, <2>4, <2>5 DEF User
  <1> QED BY <1>2, <1>3, <1>4, <1>5, <1>6, <1>7, <1>8 DEF ListsNext

\* No answer moves the cursor to another object or marks to another view.
THEOREM PointedCorrect == ListsSpec => PointedStays
  <1>1. ListsInv /\ [ListsNext]_listsVars
          => [MarksOfView /\ conn' = conn => MarksOfView']_listsVars
    BY MarksKept
  <1>2. ListsInv /\ [ListsNext]_listsVars
          => [(/\ keys' = keys /\ resource' = resource
               /\ composeReselect' = composeReselect
               /\ Shown' = Shown /\ NamesDiffer) => SelectedID' = SelectedID]_listsVars
    BY PlaceKept
  <1> QED
    BY <1>1, <1>2, ListsInvariance, PTL
    DEF ListsSpec, PointedStays, MarksStayInView, KeepsPlace
=============================================================================
