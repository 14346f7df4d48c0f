------------------------------ MODULE Streams ------------------------------
(***************************************************************************)
(* The streaming views of the terminal interface (internal/ui: model.go,   *)
(* update.go) and the producers behind them (internal/docker: containers.go*)
(* ContainerLogs, client.go Events): container logs, the console of a long *)
(* operation (compose up, build, push), which shares the log viewer, and   *)
(* the feed of daemon events.                                              *)
(*                                                                         *)
(* A stream is a buffered channel, the goroutine that fills it and a stop  *)
(* function.  The event loop owns the viewers; opening a stream and reading*)
(* its next batch are commands, goroutines whose results come back as      *)
(* messages, in any order: flying holds them, as in module Session.        *)
(* A line is the pair of its stream and its number.  Of the log viewer's   *)
(* text only whose lines it shows and the closing remark are kept.         *)
(***************************************************************************)
EXTENDS Integers, FiniteSets, Sequences, Bags

CONSTANTS
  Containers,  \* containers whose logs are shown
  Titles,      \* titles of operations
  Feed,        \* what the events view shows
  Streams,     \* streams a session may open (channels)
  NoCh,        \* the nil channel
  NoTitle,     \* the empty title, and the empty container id
  BufCap,      \* capacity of a channel (256 in the code)
  BatchMax,    \* streamBatchMax (256 in the code)
  MaxLines,    \* bound: lines a stream's source has
  MaxFlying    \* bound: commands in flight when a key adds one

Subjects == Containers \cup Titles \cup {Feed}

ASSUME StreamsAssumption ==
  /\ NoCh \notin Streams /\ NoTitle \notin Subjects /\ Feed \notin Containers \cup Titles
  /\ Containers \cap Titles = {}
  /\ BufCap \in Nat \ {0} /\ BatchMax \in Nat \ {0} /\ MaxLines \in Nat /\ MaxFlying \in Nat

VARIABLES
  mode,      \* m.mode; "other": a window that took the place of a streaming view
  logCh,     \* m.logCh
  logStop,   \* the stream m.logStop stops, or NoCh
  logID,     \* m.logs.ContainerID()
  opTitle,   \* m.opTitle
  shown,     \* the streams whose lines the log viewer shows
  remark,    \* it shows the "done" remark
  eventCh,   \* m.eventCh
  eventStop, \* the stream m.eventStop stops, or NoCh
  feed,      \* the lines of the events view
  told,      \* while it was shown, an error said why the events view is not live
  stream,    \* every stream
  flying     \* the commands and messages in flight

logVars == <<logCh, logStop, logID, opTitle, shown, remark>>
eventVars == <<eventCh, eventStop, feed, told>>
vars == <<mode, logVars, eventVars, stream, flying>>

Channel == Streams \cup {NoCh}
Msg == [what : {"open", "opened", "read", "lines", "end"}, of : Subjects, ch : Channel,
        first : Nat, last : Nat]

\* holds: the producer is blocked with a line in hand.  sent, taken: lines that
\* entered and left the channel.
Stream == [state : {"unmade", "running", "closed"}, of : Subjects, stopped : BOOLEAN,
           holds : BOOLEAN, sent : Nat, taken : Nat]

TypeOK ==
  /\ mode \in {"normal", "logs", "events", "other"}
  /\ {logCh, logStop, eventCh, eventStop} \subseteq Channel
  /\ logID \in Subjects \cup {NoTitle} /\ opTitle \in Titles \cup {NoTitle}
  /\ shown \subseteq Streams /\ remark \in BOOLEAN /\ told \in BOOLEAN
  /\ feed \in Seq(Streams \X Nat)
  /\ stream \in [Streams -> Stream]
  /\ IsABag(flying) /\ DOMAIN flying \subseteq Msg

Init ==
  /\ mode = "normal"
  /\ logCh = NoCh /\ logStop = NoCh /\ logID = NoTitle /\ opTitle = NoTitle
  /\ shown = {} /\ remark = FALSE
  /\ eventCh = NoCh /\ eventStop = NoCh /\ feed = <<>> /\ told = FALSE
  /\ stream = [s \in Streams |-> [state |-> "unmade", of |-> Feed, stopped |-> FALSE,
                                  holds |-> FALSE, sent |-> 0, taken |-> 0]]
  /\ flying = EmptyBag

Open(x) == [what |-> "open", of |-> x, ch |-> NoCh, first |-> 0, last |-> 0]
Opened(x, s) == [what |-> "opened", of |-> x, ch |-> s, first |-> 0, last |-> 0]
Read(x, s) == [what |-> "read", of |-> x, ch |-> s, first |-> 0, last |-> 0]
Ended(x, s) == [what |-> "end", of |-> x, ch |-> s, first |-> 0, last |-> 0]
Lines(x, s, i, j) == [what |-> "lines", of |-> x, ch |-> s, first |-> i, last |-> j]

Then(e, out) == flying' = (flying (-) SetToBag({e})) (+) SetToBag(out)
Room == BagCardinality(flying) < MaxFlying

----------------------------------------------------------------------------
(* Producers. *)

\* The source has a line: it is sent, or the goroutine blocks on a full channel
\* with the line in hand.
HasRoom(s) == stream[s].sent - stream[s].taken < BufCap
Scan(s) ==
  /\ stream[s].state = "running" /\ ~stream[s].holds
  /\ stream[s].sent < MaxLines
  /\ stream' = IF HasRoom(s) THEN [stream EXCEPT ![s].sent = @ + 1] ELSE [stream EXCEPT ![s].holds = TRUE]
  /\ UNCHANGED <<mode, logVars, eventVars, flying>>

\* A select with room in the channel may send even when stopped.
Send(s) ==
  /\ stream[s].state = "running" /\ stream[s].holds /\ HasRoom(s)
  /\ stream' = [stream EXCEPT ![s].holds = FALSE, ![s].sent = @ + 1]
  /\ UNCHANGED <<mode, logVars, eventVars, flying>>

\* The stop function was called: it closes the source and unblocks a send.
MutantAborts(s) == stream[s].stopped /\ ~stream[s].holds
Aborts(s) == stream[s].stopped

Quit(s) ==
  /\ stream[s].state = "running" /\ Aborts(s)
  /\ stream' = [stream EXCEPT ![s].state = "closed", ![s].holds = FALSE]
  /\ UNCHANGED <<mode, logVars, eventVars, flying>>

\* The source ends: the container stops, the connection breaks.
SourceEnds(s) ==
  /\ stream[s].state = "running" /\ ~stream[s].holds
  /\ stream' = [stream EXCEPT ![s].state = "closed", ![s].stopped = TRUE]
  /\ UNCHANGED <<mode, logVars, eventVars, flying>>

\* stopLogStream and stopEventStream, for the streams of S.
Stopped(S) == [s \in Streams |-> IF s \in S THEN [stream[s] EXCEPT !.stopped = TRUE] ELSE stream[s]]
ReleaseLog == logCh' = NoCh /\ logStop' = NoCh
ReleaseEvents == eventCh' = NoCh /\ eventStop' = NoCh

----------------------------------------------------------------------------
(* Commands. *)

\* Streams are interchangeable before they are made.
Unmade == {s \in Streams : stream[s].state = "unmade"}
NewStream == CHOOSE s \in Unmade : TRUE

\* The user asks for logs, an operation or events; the view opens later.
\* (Bound: not when no stream is left.)
Ask(x) ==
  /\ mode = "normal" /\ Room /\ Unmade # {}
  /\ flying' = flying (+) SetToBag({Open(x)})
  /\ UNCHANGED <<mode, logVars, eventVars, stream>>

OpenRun(e) ==
  /\ e.what = "open"
  /\ \/ /\ Unmade # {}
        /\ stream' = [stream EXCEPT ![NewStream].state = "running", ![NewStream].of = e.of]
        /\ Then(e, {Opened(e.of, NewStream)})
        /\ UNCHANGED told
     \/ /\ Then(e, {})
        /\ told' = (told \/ mode = "events")
        /\ UNCHANGED stream
  /\ UNCHANGED <<mode, logVars, eventCh, eventStop, feed>>

\* One batch: the first receive blocks, then what is buffered is drained.
Batch(s) ==
  IF stream[s].sent - stream[s].taken < BatchMax THEN stream[s].sent - stream[s].taken ELSE BatchMax

Receive(e) ==
  LET s == e.ch IN
  /\ e.what = "read" /\ s # NoCh
  /\ stream[s].taken < stream[s].sent
  /\ stream' = [stream EXCEPT ![s].taken = @ + Batch(s)]
  /\ Then(e, {Lines(e.of, s, stream[s].taken + 1, stream[s].taken + Batch(s))})
  /\ UNCHANGED <<mode, logVars, eventVars>>

\* A reader that finds its channel closed reports it, but for container logs.
ReadEnd(e) ==
  /\ e.what = "read" /\ e.ch # NoCh
  /\ stream[e.ch].state = "closed" /\ stream[e.ch].taken = stream[e.ch].sent
  /\ Then(e, IF e.of \in Containers THEN {} ELSE {Ended(e.of, e.ch)})
  /\ UNCHANGED <<mode, logVars, eventVars, stream>>

----------------------------------------------------------------------------
(* Messages. *)

\* logsOpenedMsg and opStartedMsg: the log viewer starts over for the new stream.
MutantReplacesLog(e) == stream
ReplacesLog(e) == Stopped({logStop})
MutantConsole(e) == e.of
MutantKeepsConsole(e) == IF e.of \in Titles THEN e.of ELSE opTitle
Console(e) == IF e.of \in Titles THEN e.of ELSE NoTitle
LogOpened(e) ==
  /\ e.what = "opened" /\ e.of # Feed
  /\ stream' = ReplacesLog(e)
  /\ logCh' = e.ch /\ logStop' = e.ch /\ logID' = e.of
  /\ opTitle' = Console(e)
  /\ shown' = {} /\ remark' = FALSE
  /\ mode' = "logs"
  /\ Then(e, {Read(e.of, e.ch)})
  /\ UNCHANGED eventVars

EventsOpened(e) ==
  /\ e.what = "opened" /\ e.of = Feed
  /\ stream' = Stopped({eventStop})
  /\ eventCh' = e.ch /\ eventStop' = e.ch
  /\ feed' = <<>> /\ told' = FALSE
  /\ mode' = "events"
  /\ Then(e, {Read(Feed, e.ch)})
  /\ UNCHANGED logVars

\* logs.LinesMsg and opLinesMsg name a container or a title, not a channel.
Shows(e) == IF e.of \in Titles THEN e.of = opTitle ELSE e.of = logID
LogLines(e) ==
  /\ e.what = "lines" /\ e.of # Feed
  /\ IF Shows(e)
       THEN shown' = shown \cup {e.ch} /\ Then(e, {Read(e.of, logCh)})
       ELSE Then(e, {}) /\ UNCHANGED shown
  /\ UNCHANGED <<mode, logCh, logStop, logID, opTitle, remark, eventVars, stream>>

OpDone(e) ==
  /\ e.what = "end" /\ e.of \in Titles
  /\ IF Shows(e)
       THEN logCh' = NoCh /\ remark' = TRUE
       ELSE UNCHANGED <<logCh, remark>>
  /\ Then(e, {})
  /\ UNCHANGED <<mode, logStop, logID, opTitle, shown, eventVars, stream>>

\* Messages of the feed carry their channel, and count in the events view only.
MutantIsFeed(e) == mode = "events"
IsFeed(e) == mode = "events" /\ e.ch = eventCh
NewLines(e) == [i \in 1..(e.last - e.first + 1) |-> <<e.ch, e.first + i - 1>>]

MutantFeedReader == {}
FeedReader == {Read(Feed, eventCh)}
EventLines(e) ==
  /\ e.what = "lines" /\ e.of = Feed
  /\ IF IsFeed(e)
       THEN feed' = feed \o NewLines(e) /\ Then(e, FeedReader)
       ELSE Then(e, {}) /\ UNCHANGED feed
  /\ UNCHANGED <<mode, logVars, eventCh, eventStop, told, stream>>

EventsClosed(e) ==
  /\ e.what = "end" /\ e.of = Feed
  /\ IF IsFeed(e)
       THEN ReleaseEvents /\ told' = TRUE /\ stream' = Stopped({eventStop})
       ELSE UNCHANGED <<eventCh, eventStop, told, stream>>
  /\ Then(e, {})
  /\ UNCHANGED <<mode, logVars, feed>>

----------------------------------------------------------------------------
(* What changes the view. *)

\* Closing a view releases its stream; a window over it is just closed.
Esc ==
  /\ mode # "normal"
  /\ mode' = "normal"
  /\ IF mode = "logs"
       THEN ReleaseLog /\ opTitle' = NoTitle ELSE UNCHANGED <<logCh, logStop, opTitle>>
  /\ IF mode = "events" THEN ReleaseEvents ELSE UNCHANGED <<eventCh, eventStop>>
  /\ stream' = Stopped(CASE mode = "logs" -> {logStop} [] mode = "events" -> {eventStop} [] OTHER -> {})
  /\ UNCHANGED <<logID, shown, remark, feed, told, flying>>

\* The key r of the events view.
Resubscribe ==
  /\ mode = "events" /\ Room
  /\ stream' = Stopped({eventStop})
  /\ ReleaseEvents
  /\ feed' = <<>> /\ told' = FALSE
  /\ flying' = flying (+) SetToBag({Open(Feed)})
  /\ UNCHANGED <<mode, logVars>>

\* A late result (an inspection, a question, a notice, a shell) takes the screen.
OtherWindow ==
  /\ mode \in {"logs", "events"}
  /\ mode' = "other"
  /\ UNCHANGED <<logVars, eventVars, stream, flying>>

\* The session moves to another host.
SwitchHost ==
  /\ stream' = Stopped({logStop, eventStop})
  /\ ReleaseLog /\ ReleaseEvents
  /\ mode' = "normal"
  /\ UNCHANGED <<logID, opTitle, shown, remark, feed, told, flying>>

\* It has a new connection to the same host.
Reconnected ==
  /\ stream' = Stopped({logStop, eventStop})
  /\ ReleaseLog /\ ReleaseEvents
  /\ UNCHANGED <<mode, logID, opTitle, shown, remark, feed, told, flying>>

----------------------------------------------------------------------------
Dispatch(e) ==
  \/ OpenRun(e) \/ Receive(e) \/ ReadEnd(e)
  \/ LogOpened(e) \/ EventsOpened(e) \/ LogLines(e) \/ OpDone(e) \/ EventLines(e) \/ EventsClosed(e)

Next ==
  \/ \E s \in Streams : Scan(s) \/ Send(s) \/ Quit(s) \/ SourceEnds(s)
  \/ \E x \in Subjects : Ask(x)
  \/ \E e \in DOMAIN flying : Dispatch(e)
  \/ Esc \/ Resubscribe \/ OtherWindow \/ SwitchHost \/ Reconnected

\* A goroutine that can run runs, and messages are handled.  Nothing is assumed
\* of the user, of an open that the daemon is slow to answer, or of a source.
Fairness == \A s \in Streams :
  /\ WF_vars(Quit(s))
  /\ WF_vars(\E e \in DOMAIN flying : e.ch = s /\ Dispatch(e))

Spec == Init /\ [][Next]_vars /\ Fairness

----------------------------------------------------------------------------
(* Properties. *)

\* No stream runs on unowned: one that nobody stopped is the stream of a viewer,
\* whose keys and successors stop it, or is about to be handed to one; and a
\* viewer's stop function is that of the channel it reads.
RunningIsOwned ==
  /\ \A s \in Streams : stream[s].state = "running" /\ ~stream[s].stopped =>
       s \in {logStop, eventStop} \/ \E e \in DOMAIN flying : e.what = "opened" /\ e.ch = s
  /\ logCh \in {logStop, NoCh} /\ eventCh = eventStop

\* The feed shows the lines of one stream from its first one on, in order and
\* without a gap, whatever readers of earlier subscriptions still deliver; and
\* while it is live, the only line it lacks are the ones on their way to it.
FeedInOrder ==
  /\ \A i \in 1..Len(feed) : feed[i] = <<feed[1][1], i>>
  /\ mode = "events" /\ eventCh # NoCh =>
       /\ feed # <<>> => feed[1][1] = eventCh
       /\ \E e \in DOMAIN flying :
            /\ e.ch = eventCh /\ flying[e] = 1
            /\ \A d \in DOMAIN flying : d.ch = eventCh => d = e
            /\ \/ e.what \in {"read", "end"} /\ Len(feed) = stream[eventCh].taken
               \/ e.what = "lines" /\ e.first = Len(feed) + 1 /\ e.last = stream[eventCh].taken

\* The log viewer, which logs and consoles share, only shows lines of what its
\* title names.
LogOfSubject == \A s \in shown : stream[s].of = logID

\* What the two viewers show: the feed its own lines in order, the log viewer
\* lines of its title (logLinesMsg, opLinesMsg, eventLinesMsg).
ShownInOrder == FeedInOrder /\ LogOfSubject

\* A stopped stream ends: its goroutine is not left blocked on a channel that
\* nobody reads any more.
StoppedEnds == \A s \in Streams : (stream[s].stopped) ~> (stream[s].state = "closed")

\* The live feed catches up with its stream, whose source pauses (or has no more
\* lines) now and then, unless the feed is left or replaced.
FeedIsLive == \A s \in Streams :
  (mode = "events" /\ eventCh = s)
    ~> (Len(feed) = stream[s].sent \/ mode # "events" \/ eventCh # s)

\* The streams' progress, in one: stopped ones end (stopLogStream, stopEventStream
\* and the producers), the live feed catches up (streamEvents).
StreamsLive == StoppedEnds /\ FeedIsLive

\* model.go:1022 of an operation's reader: it re-subscribes "until the channel
\* closes, at which point it reports completion".  A console that says done shows
\* an operation whose stream is closed.
DoneIsDone == remark /\ logStop # NoCh => stream[logStop].state = "closed"

\* update.go:449: "a silently dead feed is indistinguishable from a quiet
\* daemon".  An events view without a stream is waiting for one, or says why.
FeedNotSilent ==
  mode = "events" /\ eventCh = NoCh =>
    told \/ \E e \in DOMAIN flying : e.what \in {"open", "opened"} /\ e.of = Feed
=============================================================================
