---------------------------- MODULE PanelsProofs ----------------------------
(***************************************************************************)
(* Proofs about the panels, for any number of sessions, keys, chunks,      *)
(* lines, queries, hosts and files, and any capacity.                      *)
(*                                                                         *)
(* The shell.  KeysInOrder is about a concatenation.  What is inductive is *)
(* said of its parts: the keys a process has got come before the one its   *)
(* pump writes, which comes before those in the queue, all of them are     *)
(* keys typed, and no key is with two sessions.  PanelIsOfSession needs    *)
(* that a session not yet open has no reader.                              *)
(*                                                                         *)
(* The file browser.  A listing on its way is of the directory it was      *)
(* asked for, and what is asked for was once seen.                         *)
(*                                                                         *)
(* The log viewer.  SearchRight is inductive but for the current match of  *)
(* an empty search.  What a batch leaves is shown to rise and to have the  *)
(* positions a search finds; only one sequence does.                       *)
(***************************************************************************)
EXTENDS Panels, Facts, TLAPS

\* The keys session s got or may yet get.
Held(s) == ToSet(received[s]) \union ToSet(queue[s])
           \union (IF pump[s] = "writing" THEN {writing[s]} ELSE {})

Rising(q) == \A i, j \in DOMAIN q : i < j => q[i] < q[j]
Before(p, q) == \A i \in DOMAIN p, j \in DOMAIN q : p[i] < q[j]

\* What a process has got comes before what its pump writes, that before the queue.
SessionRises(s) ==
  /\ Rising(received[s]) /\ Rising(queue[s]) /\ Before(received[s], queue[s])
  /\ pump[s] = "writing" => /\ writing[s] > 0
                            /\ Before(received[s], <<writing[s]>>)
                            /\ Before(<<writing[s]>>, queue[s])

KeyInv ==
  /\ \A s \in Sessions : SessionRises(s)
  /\ \A s \in Sessions : \A k \in Held(s) : k <= typed
  /\ \A s, t \in Sessions : s # t => Held(s) \intersect Held(t) = {}

Readers(s) == {r \in readers : r.on = s}

PanelInv ==
  /\ \A r \in readers : phase[r.on] \in {"open", "closed"} /\ session # None
  /\ session # None => phase[session] \in {"open", "closed"}
  /\ (shown /\ ~closed /\ term \subseteq {session}) =>
       /\ input = session /\ session \in Live
       /\ \E r \in readers : Readers(session) = {r}

IInv == TypeOK /\ KeyInv /\ PanelInv

-----------------------------------------------------------------------------
LEMMA Bounds == QueueCap \in Nat \ {0} /\ MaxChunks \in Nat /\ MaxTyped \in Nat
BY ShellAssumption

LEMMA TypeInit == ASSUME Init PROVE TypeOK
<1> USE DEF Init, TypeOK, Phases
<1>1. /\ queue \in [Sessions -> Seq(1..MaxTyped)]
      /\ received \in [Sessions -> Seq(1..MaxTyped)]
      /\ \A s \in Sessions : Len(queue[s]) <= QueueCap
  BY Bounds
<1>2. /\ chunks \in [Sessions -> 0..MaxChunks]
      /\ writing \in [Sessions -> 0..MaxTyped]
      /\ typed \in 0..MaxTyped
  BY Bounds
<1> QED
  BY <1>1, <1>2

\* What a step of session s, of its reader or of the user leaves well formed.
LEMMA TypeStep ==
  ASSUME TypeOK, KeyInv, PanelInv, [Next]_vars
  PROVE  TypeOK'
<1> USE Bounds DEF TypeOK, Phases, procVars, pumpVars
<1>1. ASSUME NEW s \in Sessions, Exec(s) PROVE TypeOK'
  BY <1>1 DEF Exec
<1>2. ASSUME NEW s \in Sessions, StartFails(s) PROVE TypeOK'
  BY <1>2 DEF StartFails
<1>3. ASSUME NEW s \in Sessions, Open(s) PROVE TypeOK'
  <2>1. readers' \subseteq [on : Sessions, got : {"none", "out", "end"}]
    BY <1>3 DEF Open, Read
  <2> QED BY <1>3, <2>1 DEF Open
<1>4. ASSUME NEW s \in Sessions, Write(s) PROVE TypeOK'
  <2>0. chunks[s] + 1 \in 0..MaxChunks
    BY <1>4 DEF Write
  <2>1. chunks' \in [Sessions -> 0..MaxChunks]
    BY <1>4, <2>0 DEF Write
  <2> QED BY <1>4, <2>1 DEF Write
<1>5. ASSUME NEW s \in Sessions, Exit(s) PROVE TypeOK'
  BY <1>5 DEF Exit
<1>6. ASSUME NEW s \in Sessions, PumpTake(s) PROVE TypeOK'
  <2>1. queue[s] \in Seq(1..MaxTyped) /\ queue[s] # <<>>
    BY <1>6 DEF PumpTake
  <2>2. Head(queue[s]) \in 1..MaxTyped /\ Tail(queue[s]) \in Seq(1..MaxTyped)
    BY ONLY <2>1, HeadTailProperties
  <2>3. Len(Tail(queue[s])) = Len(queue[s]) - 1 /\ Len(queue[s]) <= QueueCap
    BY <2>1, HeadTailProperties
  <2>4. Len(Tail(queue[s])) <= QueueCap
    BY <2>1, <2>3
  <2>5. queue' = [queue EXCEPT ![s] = Tail(queue[s])]
    BY <1>6 DEF PumpTake, Taken
  <2>6. /\ queue' \in [Sessions -> Seq(1..MaxTyped)]
        /\ \A t \in Sessions : Len(queue'[t]) <= QueueCap
    BY <2>2, <2>4, <2>5
  <2>7. writing' \in [Sessions -> 0..MaxTyped]
    BY <1>6, <2>2 DEF PumpTake
  <2>8. pump' \in [Sessions -> {"none", "idle", "writing", "done"}]
    BY <1>6 DEF PumpTake
  <2> QED BY <1>6, <2>6, <2>7, <2>8 DEF PumpTake
<1>7. ASSUME NEW s \in Sessions, PumpWrite(s) PROVE TypeOK'
  <2>0. writing[s] > 0 /\ writing[s] \in 0..MaxTyped
    BY <1>7 DEF PumpWrite, KeyInv, SessionRises
  <2>1. writing[s] \in 1..MaxTyped
    BY <2>0
  <2>2. Append(received[s], writing[s]) \in Seq(1..MaxTyped)
    BY <2>1
  <2>3. received' \in [Sessions -> Seq(1..MaxTyped)]
    BY <1>7, <2>2 DEF PumpWrite
  <2> QED BY <1>7, <2>3 DEF PumpWrite
<1>8. ASSUME NEW s \in Sessions, PumpEnd(s) PROVE TypeOK'
  BY <1>8 DEF PumpEnd
<1>9. ASSUME NEW r \in readers, ReadOutput(r) PROVE TypeOK'
  <2>1. chunks' \in [Sessions -> 0..MaxChunks]
    <3>1. r.on \in Sessions
      OBVIOUS
    <3>2. chunks[r.on] \in 1..MaxChunks
      BY <1>9, <3>1 DEF ReadOutput
    <3>3. chunks' = [chunks EXCEPT ![r.on] = @ - 1]
      BY <1>9 DEF ReadOutput
    <3>4. chunks[r.on] - 1 \in 0..MaxChunks
      BY ONLY <3>2, Bounds
    <3> QED BY <3>1, <3>3, <3>4
  <2>2. readers' \subseteq [on : Sessions, got : {"none", "out", "end"}]
    <3>1. [r EXCEPT !.got = "out"] \in [on : Sessions, got : {"none", "out", "end"}]
      OBVIOUS
    <3>2. readers' = (readers \ {r}) \union {[r EXCEPT !.got = "out"]}
      BY <1>9 DEF ReadOutput
    <3> QED BY <3>1, <3>2
  <2> QED BY <1>9, <2>1, <2>2 DEF ReadOutput
<1>10. ASSUME NEW r \in readers, ReadEnd(r) PROVE TypeOK'
  BY <1>10 DEF ReadEnd
<1>11. ASSUME NEW r \in readers, Output(r) PROVE TypeOK'
  <2>1. readers' \subseteq [on : Sessions, got : {"none", "out", "end"}]
    <3>1. session \in Sessions
      BY DEF PanelInv
    <3>2. NextRead \subseteq [on : Sessions, got : {"none", "out", "end"}]
      BY <3>1 DEF NextRead, Read
    <3> QED BY <1>11, <3>2 DEF Output
  <2> QED BY <1>11, <2>1 DEF Output
<1>12. ASSUME NEW r \in readers, Ended(r) PROVE TypeOK'
  BY <1>12 DEF Ended
<1>13. CASE Type
  <2>1. input \in Sessions /\ typed' \in 1..MaxTyped
    BY <1>13 DEF Type
  <2> DEFINE q == queue[input]
  <2>2. q \in Seq(1..MaxTyped) /\ Len(q) <= QueueCap
    BY <2>1
  <2>a. /\ Append(q, typed') \in Seq(1..MaxTyped)
        /\ Len(Append(q, typed')) = Len(q) + 1
    BY ONLY <2>1, <2>2
  <2>b. /\ Queued(q, typed') \in Seq(1..MaxTyped)
        /\ Len(Queued(q, typed')) <= QueueCap
    <3>1. CASE Len(q) < QueueCap
      BY ONLY <3>1, <2>2, <2>a, Bounds DEF Queued
    <3>2. CASE ~(Len(q) < QueueCap)
      BY ONLY <3>2, <2>2 DEF Queued
    <3> QED BY <3>1, <3>2
  <2>3. /\ queue' \in [Sessions -> Seq(1..MaxTyped)]
        /\ \A t \in Sessions : Len(queue'[t]) <= QueueCap
    BY <1>13, <2>1, <2>b DEF Type
  <2>4. typed' \in 0..MaxTyped
    BY <2>1
  <2>5. UNCHANGED <<shown, session, closed, input, phase, procVars, inputClosed, pump,
                    writing, readers, term>>
    BY <1>13 DEF Type
  <2> QED BY <2>3, <2>4, <2>5
<1>14. CASE Close
  BY <1>14 DEF Close
<1>15. CASE TakenAway
  BY <1>15 DEF TakenAway
<1>16. CASE UNCHANGED vars
  BY <1>16 DEF vars
<1> QED
  BY <1>1, <1>2, <1>3, <1>4, <1>5, <1>6, <1>7, <1>8, <1>9, <1>10, <1>11, <1>12,
     <1>13, <1>14, <1>15, <1>16
  DEF Next, PumpStep, ReadStep, HandlerStep
-----------------------------------------------------------------------------
(* The panel. *)

LEMMA PanelInit == ASSUME Init PROVE PanelInv
BY DEF Init, PanelInv

LEMMA PanelStep ==
  ASSUME TypeOK, PanelInv, [Next]_vars
  PROVE  PanelInv'
<1> USE DEF PanelInv, TypeOK, Live, Readers
<1>1. ASSUME NEW s \in Sessions, Exec(s) PROVE PanelInv'
  BY <1>1 DEF Exec
<1>2. ASSUME NEW s \in Sessions, StartFails(s) PROVE PanelInv'
  BY <1>2 DEF StartFails
<1>3. ASSUME NEW s \in Sessions, Open(s) PROVE PanelInv'
  <2>1. Readers(s) = {}
    BY <1>3 DEF Open
  <2>2. Readers(s)' = {[on |-> s, got |-> "none"]}
    BY <1>3, <2>1 DEF Open, Read
  <2>3. \A r \in readers' : phase'[r.on] \in {"open", "closed"}
    BY <1>3 DEF Open, Read
  <2>4. session' = s /\ input' = s /\ s \in Live'
    BY <1>3 DEF Open
  <2>5. s # None
    BY ShellAssumption
  <2>6. [on |-> s, got |-> "none"] \in readers'
    BY <1>3 DEF Open, Read
  <2> QED BY <2>2, <2>3, <2>4, <2>5, <2>6
<1>4. ASSUME NEW s \in Sessions, Write(s) PROVE PanelInv'
  BY <1>4 DEF Write
<1>5. ASSUME NEW s \in Sessions, Exit(s) PROVE PanelInv'
  BY <1>5 DEF Exit
<1>6. ASSUME NEW s \in Sessions, PumpStep(s) PROVE PanelInv'
  <2>1. UNCHANGED <<shown, session, closed, input, phase, readers, term>>
    BY <1>6 DEF PumpStep, PumpTake, PumpWrite, PumpEnd
  <2> QED BY <2>1
<1>7. ASSUME NEW r \in readers, NEW g \in {"out", "end"},
             readers' = (readers \ {r}) \union {[r EXCEPT !.got = g]},
             UNCHANGED <<shown, session, closed, input, phase, term>>
      PROVE  PanelInv'
  <2>1. [r EXCEPT !.got = g].on = r.on
    OBVIOUS
  <2>2. \A x \in readers' : phase'[x.on] \in {"open", "closed"} /\ session' # None
    BY <1>7, <2>1
  <2>3. ASSUME NEW x \in readers, Readers(session) = {x}
        PROVE  \E y \in readers' : Readers(session)' = {y}
    <3>1. CASE r = x
      <4>1. Readers(session)' = {[r EXCEPT !.got = g]}
        BY <1>7, <2>1, <2>3, <3>1
      <4> QED BY <4>1, <1>7
    <3>2. CASE r # x
      <4>1. r.on # session
        BY <2>3, <3>2
      <4>2. Readers(session)' = {x}
        BY <1>7, <2>1, <2>3, <3>2, <4>1
      <4> QED BY <4>2, <1>7, <3>2
    <3> QED BY <3>1, <3>2
  <2> QED BY <1>7, <2>2, <2>3
<1>8. ASSUME NEW r \in readers, ReadOutput(r) \/ ReadEnd(r) PROVE PanelInv'
  BY <1>7, <1>8 DEF ReadOutput, ReadEnd, procVars, pumpVars
<1>9. ASSUME NEW r \in readers, Output(r) PROVE PanelInv'
  <2>1. session # None
    OBVIOUS
  <2>2. \A x \in readers' : phase'[x.on] \in {"open", "closed"} /\ session' # None
    <3>1. ASSUME NEW x \in NextRead PROVE phase[x.on] \in {"open", "closed"}
      BY <3>1, <1>9 DEF NextRead, Read
    <3> QED BY <1>9, <2>1, <3>1 DEF Output
  <2>3. ASSUME shown, ~closed, term' \subseteq {session}
        PROVE  /\ input = session /\ session \in Live
               /\ \E x \in readers' : Readers(session)' = {x}
    <3>1. r.on = session /\ term \subseteq {session}
      BY <1>9, <2>3 DEF Output
    <3>2. input = session /\ session \in Live /\ Readers(session) = {r}
      BY <2>3, <3>1
    <3>3. readers' = (readers \ {r}) \union {[on |-> session, got |-> "none"]}
      BY <1>9, <2>3 DEF Output, NextRead, Read
    <3>4. Readers(session)' = {[on |-> session, got |-> "none"]}
      BY <3>2, <3>3, <1>9 DEF Output
    <3> QED BY <3>2, <3>3, <3>4
  <2> QED BY <1>9, <2>2, <2>3 DEF Output
<1>10. ASSUME NEW r \in readers, Ended(r) PROVE PanelInv'
  BY <1>10 DEF Ended
<1>11. CASE Type
  BY <1>11 DEF Type
<1>12. CASE Close
  BY <1>12 DEF Close
<1>13. CASE TakenAway
  BY <1>13 DEF TakenAway
<1>14. CASE UNCHANGED vars
  BY <1>14 DEF vars
<1> QED
  BY <1>1, <1>2, <1>3, <1>4, <1>5, <1>6, <1>8, <1>9, <1>10, <1>11, <1>12, <1>13, <1>14
  DEF Next, ReadStep, HandlerStep
-----------------------------------------------------------------------------
(* The keys.  First what Append and Tail do to sequences that rise. *)

LEMMA AppendRises ==
  ASSUME NEW p \in Seq(Nat), NEW k \in Nat, Rising(p), Before(p, <<k>>)
  PROVE  Rising(Append(p, k))
BY DEF Rising, Before

LEMMA AppendAfter ==
  ASSUME NEW p \in Seq(Nat), NEW q \in Seq(Nat), NEW k \in Nat,
         Before(p, q), Before(p, <<k>>)
  PROVE  Before(p, Append(q, k))
BY DEF Before

LEMMA AppendBefore ==
  ASSUME NEW p \in Seq(Nat), NEW q \in Seq(Nat), NEW k \in Nat,
         Before(p, q), Before(<<k>>, q)
  PROVE  Before(Append(p, k), q)
BY DEF Before

LEMMA AppendSet ==
  ASSUME NEW p \in Seq(Nat), NEW k \in Nat
  PROVE  ToSet(Append(p, k)) = ToSet(p) \union {k}
<1>1. /\ Append(p, k)[Len(p) + 1] = k
      /\ Len(p) + 1 \in DOMAIN Append(p, k)
      /\ \A i \in DOMAIN p : i \in DOMAIN Append(p, k) /\ Append(p, k)[i] = p[i]
      /\ \A i \in DOMAIN Append(p, k) : i = Len(p) + 1 \/ i \in DOMAIN p
  OBVIOUS
<1> QED BY <1>1 DEF ToSet

LEMMA Taking ==
  ASSUME NEW q \in Seq(Nat), q # <<>>, Rising(q)
  PROVE  /\ Head(q) \in Nat /\ Tail(q) \in Seq(Nat)
         /\ Rising(Tail(q))
         /\ Before(<<Head(q)>>, Tail(q))
         /\ ToSet(q) = ToSet(Tail(q)) \union {Head(q)}
<1>1. /\ Head(q) \in Nat /\ Tail(q) \in Seq(Nat) /\ Len(q) > 0
      /\ Len(Tail(q)) = Len(q) - 1 /\ Head(q) = q[1]
      /\ \A i \in 1..(Len(q) - 1) : Tail(q)[i] = q[i + 1]
  BY HeadTailProperties
<1>2. DOMAIN q = 1..Len(q) /\ DOMAIN Tail(q) = 1..(Len(q) - 1) /\ Len(q) \in Nat
  BY <1>1
<1>3. Rising(Tail(q))
  <2> DEFINE r == Tail(q)
  <2>1. DOMAIN r = 1..(Len(q) - 1) /\ \A i \in DOMAIN r : r[i] = q[i + 1]
    BY <1>1, <1>2
  <2> HIDE DEF r
  <2>2. ASSUME NEW i \in DOMAIN r, NEW j \in DOMAIN r, i < j PROVE r[i] < r[j]
    <3>1. i + 1 \in DOMAIN q /\ j + 1 \in DOMAIN q /\ i + 1 < j + 1
      BY <1>2, <2>1, <2>2
    <3>2. q[i + 1] < q[j + 1]
      BY <3>1 DEF Rising
    <3> QED BY <2>1, <3>2
  <2>3. Rising(r)
    BY <2>2 DEF Rising
  <2> QED BY <2>3 DEF r
<1>4. Before(<<Head(q)>>, Tail(q))
  BY <1>1, <1>2 DEF Rising, Before
<1>5. ToSet(q) \subseteq ToSet(Tail(q)) \union {Head(q)}
  <2>1. ASSUME NEW i \in DOMAIN q PROVE q[i] \in ToSet(Tail(q)) \union {Head(q)}
    <3>1. CASE i = 1
      BY <3>1, <1>1
    <3>2. CASE i # 1
      <4>1. i - 1 \in DOMAIN Tail(q) /\ Tail(q)[i - 1] = q[i]
        BY <1>1, <1>2, <3>2
      <4> QED BY <4>1 DEF ToSet
    <3> QED BY <3>1, <3>2
  <2> QED BY <2>1 DEF ToSet
<1>6. ToSet(Tail(q)) \union {Head(q)} \subseteq ToSet(q)
  <2>1. 1 \in DOMAIN q /\ \A i \in DOMAIN Tail(q) : i + 1 \in DOMAIN q
    BY <1>1, <1>2
  <2> QED BY <1>1, <1>2, <2>1 DEF ToSet
<1> QED BY <1>1, <1>3, <1>4, <1>5, <1>6

LEMMA TakingAfter ==
  ASSUME NEW p \in Seq(Nat), NEW q \in Seq(Nat), q # <<>>, Before(p, q)
  PROVE  Before(p, <<Head(q)>>) /\ Before(p, Tail(q))
<1>1. /\ Tail(q) \in Seq(Nat) /\ Len(q) > 0
      /\ Len(Tail(q)) = Len(q) - 1 /\ Head(q) = q[1]
      /\ \A i \in 1..(Len(q) - 1) : Tail(q)[i] = q[i + 1]
  BY HeadTailProperties
<1>2. DOMAIN q = 1..Len(q) /\ DOMAIN Tail(q) = 1..(Len(q) - 1) /\ Len(q) \in Nat
  BY <1>1
<1>3. Before(p, <<Head(q)>>)
  <2>1. \A i \in DOMAIN p : p[i] < Head(q)
    BY <1>1, <1>2 DEF Before
  <2> QED BY <2>1 DEF Before
<1>4. Before(p, Tail(q))
  <2>1. ASSUME NEW i \in DOMAIN p, NEW j \in DOMAIN Tail(q) PROVE p[i] < Tail(q)[j]
    <3>1. j + 1 \in DOMAIN q /\ Tail(q)[j] = q[j + 1]
      BY <1>1, <1>2
    <3> QED BY <3>1 DEF Before
  <2> QED BY <2>1 DEF Before
<1> QED BY <1>3, <1>4

LEMMA AboveAll ==
  ASSUME NEW p \in Seq(Nat), NEW k, \A x \in ToSet(p) : x < k
  PROVE  Before(p, <<k>>)
BY DEF Before, ToSet

-----------------------------------------------------------------------------
LEMMA KeyInit == ASSUME Init PROVE KeyInv
BY DEF Init, KeyInv, SessionRises, Held, Rising, Before, ToSet

\* A step that types nothing and gives a session nothing it did not hold.
LEMMA HeldStep ==
  ASSUME TypeOK, KeyInv, typed' = typed,
         \A s \in Sessions : Held(s)' \subseteq Held(s)
  PROVE  /\ \A s \in Sessions : \A k \in Held(s)' : k <= typed'
         /\ \A s, t \in Sessions : s # t => Held(s)' \intersect Held(t)' = {}
BY DEF KeyInv, SessionRises

LEMMA KeyStep ==
  ASSUME TypeOK, KeyInv, [Next]_vars
  PROVE  KeyInv'
<1> USE Bounds
<1>0. /\ \A s \in Sessions : SessionRises(s)
      /\ \A s \in Sessions : /\ received[s] \in Seq(Nat) /\ queue[s] \in Seq(Nat)
                             /\ writing[s] \in Nat /\ typed \in Nat
  <2>1. \A s \in Sessions : received[s] \in Seq(1..MaxTyped) /\ queue[s] \in Seq(1..MaxTyped)
    BY DEF TypeOK
  <2>2. Seq(1..MaxTyped) \subseteq Seq(Nat)
    OBVIOUS
  <2> QED BY <2>1, <2>2 DEF KeyInv, SessionRises, TypeOK
<1>a. ASSUME typed' = typed, \A s \in Sessions : Held(s)' \subseteq Held(s),
             \A s \in Sessions : SessionRises(s)'
      PROVE  KeyInv'
  <2>1. \A s \in Sessions : SessionRises(s)'
    BY <1>a
  <2> QED BY HeldStep, <1>a, <2>1 DEF KeyInv, SessionRises
<1>b. ASSUME UNCHANGED <<received, queue, writing, typed>>,
             \A s \in Sessions : pump'[s] = "writing" => pump[s] = "writing"
      PROVE  KeyInv'
  <2>1. \A s \in Sessions : SessionRises(s)'
    BY <1>0, <1>b DEF SessionRises
  <2>2. \A s \in Sessions : Held(s)' \subseteq Held(s)
    BY <1>b DEF Held
  <2> QED BY <1>a, <1>b, <2>1, <2>2
<1>1. ASSUME NEW s \in Sessions,
             Exec(s) \/ StartFails(s) \/ Open(s) \/ Write(s) \/ Exit(s) \/ PumpEnd(s)
      PROVE  KeyInv'
  <2>1. UNCHANGED <<received, queue, writing, typed>>
    BY <1>1 DEF Exec, StartFails, Open, Write, Exit, PumpEnd, procVars, pumpVars
  <2>2. \A t \in Sessions : pump'[t] = "writing" => pump[t] = "writing"
    BY <1>1 DEF Exec, StartFails, Open, Write, Exit, PumpEnd, pumpVars, TypeOK
  <2> QED BY <1>b, <2>1, <2>2
<1>2. ASSUME NEW r \in readers, ReadOutput(r) \/ ReadEnd(r) \/ Output(r) \/ Ended(r)
      PROVE  KeyInv'
  BY <1>b, <1>2 DEF ReadOutput, ReadEnd, Output, Ended, procVars, pumpVars
<1>3. CASE Close \/ TakenAway \/ UNCHANGED vars
  BY <1>b, <1>3 DEF Close, TakenAway, vars, procVars, pumpVars
<1>4. ASSUME NEW s \in Sessions, PumpTake(s) PROVE KeyInv'
  <2>1. /\ queue[s] # <<>> /\ pump[s] = "idle"
        /\ queue'[s] = Tail(queue[s]) /\ writing'[s] = Head(queue[s])
        /\ pump'[s] = "writing" /\ received' = received /\ typed' = typed
        /\ \A t \in Sessions \ {s} : /\ queue'[t] = queue[t]
                                     /\ writing'[t] = writing[t]
                                     /\ pump'[t] = pump[t]
    BY <1>4 DEF PumpTake, Taken, TypeOK, procVars
  <2>2. SessionRises(s) /\ queue[s] \in Seq(Nat) /\ received[s] \in Seq(Nat)
    BY <1>0
  <2>3. Head(queue[s]) > 0
    <3>1. queue[s] \in Seq(1..MaxTyped)
      BY DEF TypeOK
    <3>2. Head(queue[s]) \in 1..MaxTyped
      BY <2>1, <3>1, HeadTailProperties
    <3> QED BY <3>2
  <2>4. SessionRises(s)'
    BY <2>1, <2>2, <2>3, Taking, TakingAfter DEF SessionRises
  <2>5. \A t \in Sessions : SessionRises(t)'
    BY <1>0, <2>1, <2>4 DEF SessionRises
  <2>6. Held(s)' = Held(s)
    <3>1. ToSet(queue[s]) = ToSet(Tail(queue[s])) \union {Head(queue[s])}
      BY <2>1, <2>2, Taking DEF SessionRises
    <3> QED BY <2>1, <3>1 DEF Held
  <2>7. \A t \in Sessions : Held(t)' \subseteq Held(t)
    BY <2>1, <2>6 DEF Held
  <2> QED BY <1>a, <2>1, <2>5, <2>7
<1>5. ASSUME NEW s \in Sessions, PumpWrite(s) PROVE KeyInv'
  <2>1. /\ pump[s] = "writing" /\ pump'[s] # "writing"
        /\ queue' = queue /\ writing' = writing /\ typed' = typed
        /\ \A t \in Sessions \ {s} : received'[t] = received[t] /\ pump'[t] = pump[t]
        /\ received'[s] \in {received[s], Append(received[s], writing[s])}
    BY <1>5 DEF PumpWrite, TypeOK
  <2>2. /\ SessionRises(s) /\ queue[s] \in Seq(Nat) /\ received[s] \in Seq(Nat)
        /\ writing[s] \in Nat
    BY <1>0
  <2>3. SessionRises(s)'
    BY <2>1, <2>2, AppendRises, AppendBefore DEF SessionRises
  <2>4. \A t \in Sessions : SessionRises(t)'
    BY <1>0, <2>1, <2>3 DEF SessionRises
  <2>5. Held(s)' \subseteq Held(s)
    <3>1. ToSet(Append(received[s], writing[s])) = ToSet(received[s]) \union {writing[s]}
      BY <2>2, AppendSet
    <3> QED BY <2>1, <3>1 DEF Held
  <2>6. \A t \in Sessions : Held(t)' \subseteq Held(t)
    BY <2>1, <2>5 DEF Held
  <2> QED BY <1>a, <2>1, <2>4, <2>6
<1>6. ASSUME NEW s \in Sessions, NEW k \in Nat, s = input, k = typed + 1, Type
      PROVE  KeyInv'
  <2>1. /\ s \in Sessions /\ typed' = k /\ k \in Nat
        /\ queue'[s] \in {queue[s], Append(queue[s], k)}
        /\ \A t \in Sessions \ {s} : queue'[t] = queue[t]
        /\ received' = received /\ writing' = writing /\ pump' = pump
    BY <1>6 DEF Type, Queued, TypeOK, procVars
  <2>2. /\ SessionRises(s) /\ queue[s] \in Seq(Nat) /\ received[s] \in Seq(Nat)
        /\ writing[s] \in Nat /\ typed \in Nat
    BY <1>0, <2>1
  <2>3. \A x \in Held(s) : x <= typed
    BY <2>1 DEF KeyInv, SessionRises
  <2>4. Before(received[s], <<k>>) /\ Before(queue[s], <<k>>)
    <3>1. \A x \in ToSet(received[s]) \union ToSet(queue[s]) : x <= typed
      BY <2>3 DEF Held
    <3>2. \A x \in ToSet(received[s]) : x < k
      <4>1. \A x \in ToSet(received[s]) : x \in Nat
        BY <2>2 DEF ToSet
      <4> QED BY <1>6, <3>1, <4>1, <2>2
    <3>3. \A x \in ToSet(queue[s]) : x < k
      <4>1. \A x \in ToSet(queue[s]) : x \in Nat
        BY <2>2 DEF ToSet
      <4> QED BY <1>6, <3>1, <4>1, <2>2
    <3> QED BY <2>2, <3>2, <3>3, AboveAll
  <2>5. pump[s] = "writing" => writing[s] < k
    <3>1. pump[s] = "writing" => writing[s] \in Held(s)
      BY DEF Held
    <3> QED BY <1>6, <2>2, <2>3, <3>1
  <2>6. Rising(queue'[s])
    BY <2>1, <2>2, <2>4, AppendRises DEF SessionRises
  <2>7. Before(received[s], queue'[s])
    BY <2>1, <2>2, <2>4, AppendAfter DEF SessionRises
  <2>8. pump[s] = "writing" => Before(<<writing[s]>>, queue'[s])
    <3> SUFFICES ASSUME pump[s] = "writing" PROVE Before(<<writing[s]>>, queue'[s])
      OBVIOUS
    <3>1. <<writing[s]>> \in Seq(Nat) /\ Before(<<writing[s]>>, queue[s])
      BY <2>2 DEF SessionRises
    <3>2. Before(<<writing[s]>>, <<k>>)
      BY <2>2, <2>5 DEF Before
    <3> QED BY <2>1, <2>2, <3>1, <3>2, AppendAfter
  <2>9. \A t \in Sessions : SessionRises(t)'
    BY <1>0, <2>1, <2>6, <2>7, <2>8 DEF SessionRises
  <2>10. Held(s)' \subseteq Held(s) \union {k}
    <3>1. ToSet(Append(queue[s], k)) = ToSet(queue[s]) \union {k}
      BY <2>1, <2>2, AppendSet
    <3> QED BY <2>1, <3>1 DEF Held
  <2>11. \A t \in Sessions \ {s} : Held(t)' = Held(t)
    BY <2>1 DEF Held
  <2>12. \A t \in Sessions : k \notin Held(t) /\ \A x \in Held(t) : x <= typed
    BY <1>6, <2>2 DEF KeyInv, SessionRises
  <2>13. \A t \in Sessions : \A x \in Held(t) : x \in Nat
    BY <1>0 DEF Held, ToSet
  <2>14. \A t \in Sessions : \A x \in Held(t)' : x <= typed'
    <3>1. ASSUME NEW t \in Sessions, NEW x, x \in Held(t)' PROVE x <= typed'
      <4>1. x = k \/ x \in Held(t)
        BY <2>10, <2>11, <3>1
      <4>2. x \in Held(t) => x \in Nat /\ x <= typed
        BY <2>12, <2>13
      <4> QED BY <1>6, <2>1, <2>2, <4>1, <4>2
    <3> QED BY <3>1
  <2>15. \A t, u \in Sessions : t # u => Held(t)' \intersect Held(u)' = {}
    BY <2>10, <2>11, <2>12 DEF KeyInv, SessionRises
  <2>16. \A t \in Sessions : SessionRises(t)'
    BY <2>9
  <2> QED BY <2>14, <2>15, <2>16 DEF KeyInv, SessionRises
<1>7. CASE Type
  <2>1. input \in Sessions /\ typed + 1 \in Nat
    BY <1>7 DEF Type, TypeOK
  <2> QED BY <1>6, <1>7, <2>1
<1> QED
  BY <1>1, <1>2, <1>3, <1>4, <1>5, <1>7 DEF Next, PumpStep, ReadStep, HandlerStep
-----------------------------------------------------------------------------
\* The concatenation: three sequences that rise and lie one behind another.
LEMMA Joined ==
  ASSUME NEW p \in Seq(Nat), NEW m \in Seq(Nat), NEW q \in Seq(Nat),
         Rising(p), Rising(m), Rising(q), Before(p, m), Before(p, q), Before(m, q)
  PROVE  /\ Rising(p \o m \o q)
         /\ ToSet(p \o m \o q) \subseteq ToSet(p) \union ToSet(m) \union ToSet(q)
<1>1. ASSUME NEW a \in Seq(Nat), NEW b \in Seq(Nat)
      PROVE  /\ a \o b \in Seq(Nat)
             /\ \A i \in DOMAIN (a \o b) :
                  \/ i \in DOMAIN a /\ (a \o b)[i] = a[i]
                  \/ i > Len(a) /\ i - Len(a) \in DOMAIN b /\ (a \o b)[i] = b[i - Len(a)]
  OBVIOUS
<1>2. ASSUME NEW a \in Seq(Nat), NEW b \in Seq(Nat), Rising(a), Rising(b), Before(a, b)
      PROVE  Rising(a \o b)
  <2>1. ASSUME NEW i \in DOMAIN (a \o b), NEW j \in DOMAIN (a \o b), i < j
        PROVE  (a \o b)[i] < (a \o b)[j]
    <3>0. DOMAIN a = 1..Len(a) /\ Len(a) \in Nat /\ i \in Nat /\ j \in Nat
      OBVIOUS
    <3>a. ASSUME NEW x \in DOMAIN (a \o b)
          PROVE  /\ x \in DOMAIN a => (a \o b)[x] = a[x]
                 /\ x \notin DOMAIN a => /\ x - Len(a) \in DOMAIN b
                                         /\ (a \o b)[x] = b[x - Len(a)]
      BY <1>1, <3>0
    <3>1. CASE i \in DOMAIN a /\ j \in DOMAIN a
      <4>1. a[i] < a[j]
        BY <1>2, <2>1, <3>1 DEF Rising
      <4> QED BY <3>1, <3>a, <4>1
    <3>2. CASE i \in DOMAIN a /\ j \notin DOMAIN a
      <4>1. j - Len(a) \in DOMAIN b
        BY <3>2, <3>a
      <4>2. a[i] < b[j - Len(a)]
        BY <1>2, <3>2, <4>1 DEF Before
      <4> QED BY <3>2, <3>a, <4>2
    <3>3. CASE i \notin DOMAIN a
      <4>1. j \notin DOMAIN a
        BY <3>0, <3>3, <2>1
      <4>2. i - Len(a) < j - Len(a)
        BY <3>0, <2>1
      <4> QED BY <3>3, <4>1, <4>2, <1>1, <1>2 DEF Rising
    <3> QED BY <3>1, <3>2, <3>3
  <2> QED BY <2>1 DEF Rising
<1>3. ASSUME NEW a \in Seq(Nat), NEW b \in Seq(Nat)
      PROVE  ToSet(a \o b) \subseteq ToSet(a) \union ToSet(b)
  BY <1>1 DEF ToSet
<1>4. Rising(p \o m) /\ p \o m \in Seq(Nat)
  BY <1>1, <1>2
<1>5. Before(p \o m, q)
  <2>1. ASSUME NEW i \in DOMAIN (p \o m), NEW j \in DOMAIN q PROVE (p \o m)[i] < q[j]
    BY <1>1 DEF Before
  <2> QED BY <2>1 DEF Before
<1>6. Rising(p \o m \o q)
  BY <1>2, <1>4, <1>5
<1>7. ToSet(p \o m \o q) \subseteq ToSet(p) \union ToSet(m) \union ToSet(q)
  BY <1>3, <1>4
<1> QED BY <1>6, <1>7

LEMMA Ordered == ASSUME TypeOK, KeyInv PROVE KeysInOrder
<1>1. ASSUME NEW s \in Sessions
      PROVE  Rising(Stream(s)) /\ ToSet(Stream(s)) \subseteq Held(s)
  <2> DEFINE m == IF pump[s] = "writing" THEN <<writing[s]>> ELSE <<>>
  <2>1. received[s] \in Seq(Nat) /\ queue[s] \in Seq(Nat) /\ writing[s] \in Nat
    <3>1. received[s] \in Seq(1..MaxTyped) /\ queue[s] \in Seq(1..MaxTyped)
      BY DEF TypeOK
    <3>2. Seq(1..MaxTyped) \subseteq Seq(Nat)
      BY Bounds
    <3> QED BY <3>1, <3>2, Bounds DEF TypeOK
  <2>2. m \in Seq(Nat) /\ Rising(m)
    BY <2>1 DEF Rising
  <2>3. Before(received[s], m) /\ Before(m, queue[s])
    <3>1. CASE pump[s] = "writing"
      BY <3>1 DEF KeyInv, SessionRises
    <3>2. CASE pump[s] # "writing"
      BY <3>2 DEF Before
    <3> QED BY <3>1, <3>2
  <2>4. Rising(received[s]) /\ Rising(queue[s]) /\ Before(received[s], queue[s])
    BY DEF KeyInv, SessionRises
  <2>5. ToSet(m) \subseteq (IF pump[s] = "writing" THEN {writing[s]} ELSE {})
    BY DEF ToSet
  <2>6. Stream(s) = received[s] \o m \o queue[s]
    BY DEF Stream
  <2> HIDE DEF m
  <2>7. /\ Rising(Stream(s))
        /\ ToSet(Stream(s)) \subseteq ToSet(received[s]) \union ToSet(m) \union ToSet(queue[s])
    BY <2>1, <2>2, <2>3, <2>4, <2>6, Joined
  <2> QED BY <2>5, <2>7 DEF Held
<1>2. \A s \in Sessions : \A i, j \in DOMAIN Stream(s) : i < j => Stream(s)[i] < Stream(s)[j]
  BY <1>1 DEF Rising
<1>3. \A s, t \in Sessions : s # t => ToSet(Stream(s)) \intersect ToSet(Stream(t)) = {}
  BY <1>1 DEF KeyInv, SessionRises
<1> QED BY <1>2, <1>3 DEF KeysInOrder

\* One reader is one reader.
LEMMA OneReader == ASSUME PanelInv PROVE PanelIsOfSession
<1> SUFFICES ASSUME shown, ~closed, term \subseteq {session}
             PROVE  /\ input = session /\ session \in Live
                    /\ Cardinality({r \in readers : r.on = session}) = 1
  BY DEF PanelIsOfSession
<1>1. PICK r \in readers : Readers(session) = {r}
  BY DEF PanelInv
<1>2. Cardinality(Readers(session)) = 1
  BY <1>1, FS_Singleton
<1> QED BY <1>2 DEF PanelInv, Readers

-----------------------------------------------------------------------------
\* The invariants of the shell hold together: its types, the order of what is
\* held for each process, and whose the panel is.
THEOREM Invariance == Spec => []IInv
<1>1. Init => IInv
  BY TypeInit, KeyInit, PanelInit DEF IInv
<1>2. IInv /\ [Next]_vars => IInv'
  BY TypeStep, KeyStep, PanelStep DEF IInv
<1> QED BY <1>1, <1>2, PTL DEF Spec

\* The embedded shell is right for any number of sessions: keys reach one process
\* in the order typed, and a panel that takes keys is that of its session, read
\* by one command.
THEOREM PanelCorrect == Spec => []PanelRight
<1>1. IInv => PanelRight
  BY Ordered, OneReader DEF IInv, PanelRight
<1> QED BY <1>1, Invariance, PTL

-----------------------------------------------------------------------------
(* The file browser. *)

Entry == [name : Names, isDir : BOOLEAN]

\* A path that has been a directory, or anything, of a container; and entries that
\* are those of a directory.
DirAt(c, path)   == path = <<>> \/ [path |-> path, isDir |-> TRUE] \in FileSystem[c]
ThereAt(c, path) == path = <<>> \/ \E e \in FileSystem[c] : e.path = path
IsOfDir(c, path, entries) ==
  \A i \in DOMAIN entries :
    [path |-> Append(path, entries[i].name), isDir |-> entries[i].isDir] \in FileSystem[c]

Requests ==
  [n : Nat, does : {"list", "download"}, on : Hosts, ctr : Containers,
   path : Seq(Names), answer : {"none", "ok", "failed"}, entries : Seq(Entry)]

RequestRight(r) ==
  /\ r.does = "list" => DirAt(r.ctr, r.path)
  /\ r.does = "download" => ThereAt(r.ctr, r.path)
  /\ r.does = "list" /\ r.answer = "ok" => IsOfDir(r.ctr, r.path, r.entries)

HostInv     == host \in Hosts /\ requested \in Nat /\ browsing \in BOOLEAN
TreeInv     == /\ tree \in [Containers -> SUBSET [path : Seq(Names), isDir : BOOLEAN]]
               /\ \A c \in Containers : tree[c] \subseteq FileSystem[c]
RequestsInv == requests \subseteq Requests /\ \A r \in requests : RequestRight(r)
BrowserInv  ==
  /\ browser \in [ctr : Containers \union {Nowhere}, path : Seq(Names), entries : Seq(Entry),
                  cursor : Nat \ {0}, failed : BOOLEAN]
  /\ browsing => browser.ctr \in Containers
  /\ browser.ctr \in Containers =>
       /\ DirAt(browser.ctr, browser.path)
       /\ IsOfDir(browser.ctr, browser.path, browser.entries)
       /\ browser.entries # <<>> => browser.cursor \in DOMAIN browser.entries

FilesInv == HostInv /\ TreeInv /\ RequestsInv /\ BrowserInv

LEMMA FilesSuffices == FilesInv => BrowserRight
<1> SUFFICES ASSUME FilesInv PROVE BrowserRight
  OBVIOUS
<1>1. browsing => /\ IsOfDir(browser.ctr, browser.path, browser.entries)
                  /\ AnySelected => browser.cursor \in DOMAIN browser.entries
  BY DEF FilesInv, BrowserInv, AnySelected
<1>2. ASSUME NEW r \in requests, r.path # <<>>
      PROVE  \E e \in FileSystem[r.ctr] : e.path = r.path /\ (r.does = "list" => e.isDir)
  <2>1. RequestRight(r) /\ r.does \in {"list", "download"}
    BY DEF FilesInv, RequestsInv, Requests
  <2>2. CASE r.does = "list"
    <3>1. [path |-> r.path, isDir |-> TRUE] \in FileSystem[r.ctr]
      BY <1>2, <2>1, <2>2 DEF RequestRight, DirAt
    <3> QED BY <3>1
  <2>3. CASE r.does = "download"
    BY <1>2, <2>1, <2>3 DEF RequestRight, ThereAt
  <2> QED BY <2>1, <2>2, <2>3
<1> QED BY <1>1, <1>2 DEF BrowserRight, IsOfDir

LEMMA FilesStart == FilesInit => FilesInv
<1> SUFFICES ASSUME FilesInit PROVE FilesInv
  OBVIOUS
<1> USE FilesAssumption DEF FilesInit
<1>1. HostInv
  BY DEF HostInv
<1>2. TreeInv
  BY DEF TreeInv
<1>3. RequestsInv
  BY DEF RequestsInv
<1>4. BrowserInv
  BY DEF BrowserInv
<1> QED BY <1>1, <1>2, <1>3, <1>4 DEF FilesInv

\* A path is the directory it is in and the name it has there.
LEMMA PathParts ==
  ASSUME NEW path \in Seq(Names), path # <<>>
  PROVE  Front(path) \in Seq(Names) /\ Last(path) \in Names
         /\ Append(Front(path), Last(path)) = path
<1>1. Len(path) \in Nat \ {0} /\ Last(path) \in Names
  BY DEF Last
<1>2. /\ Front(path) \in Seq(Names) /\ Len(Front(path)) = Len(path) - 1
      /\ \A i \in 1..(Len(path) - 1) : Front(path)[i] = path[i]
  <2>1. \A i \in 1..(Len(path) - 1) : path[i] \in Names
    BY <1>1
  <2>2. 1 \in Int /\ Len(path) - 1 \in Int
    BY <1>1
  <2>3. /\ Front(path) \in Seq(Names)
        /\ Len(Front(path)) = IF 1 <= Len(path) - 1 THEN (Len(path) - 1) - 1 + 1 ELSE 0
        /\ \A i \in 1..((Len(path) - 1) - 1 + 1) : Front(path)[i] = path[1 + i - 1]
    BY <2>1, <2>2, SubSeqProperties DEF Front
  <2>4. Len(Front(path)) = Len(path) - 1
    <3> DEFINE n == Len(path)
               m == Len(Front(path))
    <3>1. n \in Nat \ {0} /\ m = IF 1 <= n - 1 THEN (n - 1) - 1 + 1 ELSE 0
      BY <1>1, <2>3
    <3> HIDE DEF n, m
    <3>2. m = n - 1
      BY <3>1
    <3> QED BY <3>2 DEF n, m
  <2>5. ASSUME NEW i \in 1..(Len(path) - 1) PROVE Front(path)[i] = path[i]
    <3>1. i \in 1..((Len(path) - 1) - 1 + 1) /\ 1 + i - 1 = i
      BY <1>1
    <3> QED BY <2>3, <3>1
  <2> QED BY <2>3, <2>4, <2>5
<1>3. /\ Append(Front(path), Last(path)) \in Seq(Names)
      /\ Len(Append(Front(path), Last(path))) = Len(path)
      /\ \A i \in 1..Len(path) : Append(Front(path), Last(path))[i] = path[i]
  BY <1>1, <1>2 DEF Last
<1> QED BY <1>1, <1>2, <1>3

\* Every element of a finite set is given a place, and nothing else.
LEMMA SetToSeqType ==
  ASSUME NEW S, IsFiniteSet(S)
  PROVE  SetToSeq(S) \in Seq(S)
<1>1. Cardinality(S) \in Nat /\ ExistsBijection(1..Cardinality(S), S)
  BY FS_CardinalityType
<1>2. PICK f \in [1..Cardinality(S) -> S] : IsInjective(f)
  BY <1>1 DEF ExistsBijection, Bijection, Injection
<1>3. SetToSeq(S) \in [1..Cardinality(S) -> S]
  BY <1>2 DEF SetToSeq
<1> QED BY <1>1, <1>3

\* ListPath lists a directory.
LEMMA ListingFits ==
  ASSUME TreeInv, NEW c \in Containers, NEW dir \in Seq(Names)
  PROVE  Listing(c, dir) \in Seq(Entry) /\ IsOfDir(c, dir, Listing(c, dir))
<1> DEFINE X == {x \in tree[c] : x.path # <<>> /\ Front(x.path) = dir}
           S == {[name |-> Last(e.path), isDir |-> e.isDir] : e \in X}
           f == [e \in X |-> [name |-> Last(e.path), isDir |-> e.isDir]]
<1>1. X \subseteq FileSystem[c] /\ X \subseteq [path : Seq(Names), isDir : BOOLEAN]
  BY DEF TreeInv
<1>2. IsFiniteSet(X)
  BY <1>1, FilesAssumption, FS_Subset
<1>3. f \in Surjection(X, S)
  <2>1. f \in [X -> S] /\ \A y \in S : \E e \in X : f[e] = y
    OBVIOUS
  <2> QED BY <2>1, Fun_IsSurj
<1>4. IsFiniteSet(S)
  BY <1>2, <1>3, FS_Surjection
<1>5. ASSUME NEW y \in S
      PROVE  y \in Entry /\ [path |-> Append(dir, y.name), isDir |-> y.isDir] \in FileSystem[c]
  <2>1. PICK e \in X : y = [name |-> Last(e.path), isDir |-> e.isDir]
    OBVIOUS
  <2>2. e \in [path : Seq(Names), isDir : BOOLEAN] /\ e.path # <<>> /\ Front(e.path) = dir
    BY <1>1
  <2>3. Last(e.path) \in Names /\ Append(dir, Last(e.path)) = e.path
    BY <2>2, PathParts
  <2>4. e = [path |-> e.path, isDir |-> e.isDir]
    BY <2>2
  <2> QED BY <1>1, <2>1, <2>2, <2>3, <2>4 DEF Entry
<1> HIDE DEF S
<1>6. SetToSeq(S) \in Seq(S)
  BY <1>4, SetToSeqType
<1>7. \A i \in DOMAIN SetToSeq(S) : SetToSeq(S)[i] \in S
  BY <1>6
<1>8. SetToSeq(S) \in Seq(Entry)
  <2>1. S \subseteq Entry
    BY <1>5
  <2> QED BY <1>6, <2>1
<1>9. Listing(c, dir) = SetToSeq(S)
  BY DEF Listing, S
<1> QED BY <1>5, <1>7, <1>8, <1>9 DEF IsOfDir

\* A request of the moment.
LEMMA RequestFits ==
  ASSUME FilesInv, NEW does \in {"list", "download"}, NEW c \in Containers, NEW path \in Seq(Names),
         Request(does, c, path), does = "list" => DirAt(c, path),
         does = "download" => ThereAt(c, path)
  PROVE  RequestsInv' /\ requested' \in Nat
<1> DEFINE r == [n |-> requested', does |-> does, on |-> host, ctr |-> c, path |-> path,
                 answer |-> "none", entries |-> <<>>]
<1>1. requested' \in Nat /\ requests' = requests \union {r}
  BY DEF FilesInv, HostInv, Request
<1>2. r \in Requests
  <2>1. host \in Hosts /\ <<>> \in Seq(Entry)
    BY DEF FilesInv, HostInv
  <2> HIDE DEF Entry
  <2> QED BY <1>1, <2>1 DEF Requests
<1>3. RequestRight(r)
  BY DEF RequestRight
<1> HIDE DEF r
<1>4. \A q \in requests' : q \in Requests /\ RequestRight(q)
  BY <1>1, <1>2, <1>3 DEF FilesInv, RequestsInv
<1> QED BY <1>1, <1>4 DEF RequestsInv, Requests, RequestRight, DirAt, ThereAt, IsOfDir, Entry

\* What is left of the requests stays right.
LEMMA RequestsKept ==
  ASSUME RequestsInv, requests' \subseteq requests
  PROVE  RequestsInv'
BY DEF RequestsInv, Requests, RequestRight, DirAt, ThereAt, IsOfDir, Entry

\* The engine answers for what the container has at that moment.
LEMMA ServeFits ==
  ASSUME FilesInv, NEW r \in requests, Serve(r)
  PROVE  RequestsInv'
<1>1. r \in Requests /\ RequestRight(r)
  BY DEF FilesInv, RequestsInv
<1> DEFINE es == IF r.does = "list" THEN Listing(r.ctr, r.path) ELSE <<>>
           ok == [r EXCEPT !.answer = "ok", !.entries = es]
           no == [r EXCEPT !.answer = "failed"]
<1>2. requests' \subseteq requests \union {ok, no}
  BY DEF Serve
<1>3. r.ctr \in Containers /\ r.path \in Seq(Names)
  BY <1>1 DEF Requests
<1>4. es \in Seq(Entry) /\ (r.does = "list" => IsOfDir(r.ctr, r.path, es))
  <2>1. CASE r.does = "list"
    BY <1>3, <2>1, ListingFits DEF FilesInv
  <2>2. CASE r.does # "list"
    BY <2>2
  <2> QED BY <2>1, <2>2
<1> HIDE DEF es
<1>5. /\ ok \in Requests /\ ok.does = r.does /\ ok.ctr = r.ctr /\ ok.path = r.path
      /\ ok.entries = es
  BY <1>1, <1>4 DEF Requests
<1>6. /\ no \in Requests /\ no.does = r.does /\ no.ctr = r.ctr /\ no.path = r.path
      /\ no.answer = "failed"
  BY <1>1 DEF Requests
<1> HIDE DEF ok, no
<1>7. RequestRight(ok) /\ RequestRight(no)
  BY <1>1, <1>4, <1>5, <1>6 DEF RequestRight
<1>8. \A q \in requests' : q \in Requests /\ RequestRight(q)
  BY <1>2, <1>5, <1>6, <1>7 DEF FilesInv, RequestsInv
<1> QED BY <1>8 DEF RequestsInv, Requests, RequestRight, DirAt, ThereAt, IsOfDir, Entry

\* What the browser shows and asks for stays of its container and directory.
LEMMA FilesStep == FilesInv /\ [FilesNext]_fsVars => FilesInv'
<1> SUFFICES ASSUME FilesInv, [FilesNext]_fsVars PROVE FilesInv'
  OBVIOUS
<1>a. HostInv /\ TreeInv /\ RequestsInv /\ BrowserInv
  BY DEF FilesInv
<1>t. ASSUME UNCHANGED tree PROVE TreeInv'
  BY <1>t, <1>a DEF TreeInv
<1>b. ASSUME UNCHANGED browser, browsing' => browsing PROVE BrowserInv'
  BY <1>b, <1>a DEF BrowserInv, DirAt, IsOfDir, Entry
<1>r. ASSUME UNCHANGED requests PROVE RequestsInv'
  BY <1>r, <1>a, RequestsKept
<1>s. browsing /\ AnySelected =>
        /\ browser.ctr \in Containers /\ browser.path \in Seq(Names) /\ Selected.name \in Names
        /\ Append(browser.path, Selected.name) \in Seq(Names)
        /\ [path |-> Append(browser.path, Selected.name), isDir |-> Selected.isDir]
             \in FileSystem[browser.ctr]
        /\ Selected.isDir \in BOOLEAN
  <2> SUFFICES ASSUME browsing, AnySelected
               PROVE  /\ browser.ctr \in Containers /\ browser.path \in Seq(Names)
                      /\ Selected.name \in Names
                      /\ Append(browser.path, Selected.name) \in Seq(Names)
                      /\ [path |-> Append(browser.path, Selected.name), isDir |-> Selected.isDir]
                           \in FileSystem[browser.ctr]
                      /\ Selected.isDir \in BOOLEAN
    OBVIOUS
  <2>1. /\ browser.ctr \in Containers /\ browser.path \in Seq(Names)
        /\ browser.entries \in Seq(Entry) /\ browser.cursor \in DOMAIN browser.entries
        /\ IsOfDir(browser.ctr, browser.path, browser.entries)
    BY <1>a DEF BrowserInv, AnySelected
  <2>2. Selected \in Entry
    BY <2>1 DEF Selected
  <2>3. Selected.name \in Names /\ Selected.isDir \in BOOLEAN
    BY <2>2 DEF Entry
  <2>4. Append(browser.path, Selected.name) \in Seq(Names)
    BY <2>1, <2>3
  <2>5. [path |-> Append(browser.path, Selected.name), isDir |-> Selected.isDir]
          \in FileSystem[browser.ctr]
    BY <2>1 DEF Selected, IsOfDir
  <2> QED BY <2>1, <2>3, <2>4, <2>5
<1>0. CASE UNCHANGED fsVars
  BY <1>0, <1>a, <1>t, <1>b, <1>r DEF fsVars, FilesInv, HostInv
<1>1. ASSUME NEW c \in Containers, OpenBrowser(c) PROVE FilesInv'
  <2>1. Request("list", c, <<>>) /\ UNCHANGED <<host, browsing, browser, tree>>
    BY <1>1 DEF OpenBrowser
  <2>2. RequestsInv' /\ requested' \in Nat
    <3>1. <<>> \in Seq(Names) /\ DirAt(c, <<>>)
      BY DEF DirAt
    <3>2. "list" \in {"list", "download"} /\ "list" # "download"
      OBVIOUS
    <3> QED BY <2>1, <3>1, <3>2, RequestFits
  <2> QED BY <2>1, <2>2, <1>a, <1>t, <1>b DEF FilesInv, HostInv
<1>2. CASE Descend
  <2>1. /\ Request("list", browser.ctr, Append(browser.path, Selected.name))
        /\ UNCHANGED <<host, browsing, browser, tree>> /\ browsing /\ AnySelected /\ Selected.isDir
    BY <1>2 DEF Descend
  <2>2. DirAt(browser.ctr, Append(browser.path, Selected.name))
    BY <2>1, <1>s DEF DirAt
  <2>3. RequestsInv' /\ requested' \in Nat
    BY <2>1, <2>2, <1>s, RequestFits
  <2> QED BY <2>1, <2>3, <1>a, <1>t, <1>b DEF FilesInv, HostInv
<1>3. CASE Ascend
  <2>1. /\ Request("list", browser.ctr, Front(browser.path))
        /\ UNCHANGED <<host, browsing, browser, tree>> /\ browsing /\ browser.path # <<>>
    BY <1>3 DEF Ascend
  <2>2. browser.ctr \in Containers /\ browser.path \in Seq(Names) /\ DirAt(browser.ctr, browser.path)
    BY <2>1, <1>a DEF BrowserInv
  <2>3. Front(browser.path) \in Seq(Names)
    BY <2>1, <2>2, PathParts
  <2>4. DirAt(browser.ctr, Front(browser.path))
    <3> DEFINE e == [path |-> browser.path, isDir |-> TRUE]
    <3>1. e \in FileSystem[browser.ctr]
      BY <2>1, <2>2 DEF DirAt
    <3>2. \/ Front(e.path) = <<>>
          \/ [path |-> Front(e.path), isDir |-> TRUE] \in FileSystem[browser.ctr]
      BY <2>2, <3>1, FilesAssumption
    <3> QED BY <3>2 DEF DirAt
  <2>5. RequestsInv' /\ requested' \in Nat
    BY <2>1, <2>2, <2>3, <2>4, RequestFits
  <2> QED BY <2>1, <2>5, <1>a, <1>t, <1>b DEF FilesInv, HostInv
<1>4. CASE Download
  <2>1. /\ Request("download", browser.ctr, Append(browser.path, Selected.name))
        /\ UNCHANGED <<host, browsing, browser, tree>> /\ browsing /\ AnySelected
    BY <1>4 DEF Download
  <2>2. ThereAt(browser.ctr, Append(browser.path, Selected.name))
    BY <2>1, <1>s DEF ThereAt
  <2>3. RequestsInv' /\ requested' \in Nat
    BY <2>1, <2>2, <1>s, RequestFits
  <2> QED BY <2>1, <2>3, <1>a, <1>t, <1>b DEF FilesInv, HostInv
<1>5. ASSUME NEW r \in requests, Serve(r) PROVE FilesInv'
  <2>1. UNCHANGED <<host, browsing, browser, tree, requested>>
    BY <1>5 DEF Serve
  <2> QED BY <2>1, <1>5, <1>a, <1>t, <1>b, ServeFits DEF FilesInv, HostInv
<1>6. ASSUME NEW r \in requests, Listed(r) PROVE FilesInv'
  <2>1. /\ r.does = "list" /\ r.answer = "ok" /\ browsing' = TRUE
        /\ browser' = [ctr |-> r.ctr, path |-> r.path, entries |-> r.entries, cursor |-> 1,
                       failed |-> FALSE]
        /\ requests' \subseteq requests /\ UNCHANGED <<host, tree, requested>>
    BY <1>6 DEF Listed, ShownPath
  <2>2. r \in Requests /\ DirAt(r.ctr, r.path) /\ IsOfDir(r.ctr, r.path, r.entries)
    BY <2>1, <1>a DEF RequestsInv, RequestRight
  <2>3. r.ctr \in Containers /\ r.path \in Seq(Names) /\ r.entries \in Seq(Entry)
    BY <2>2 DEF Requests
  <2>4. r.entries # <<>> => 1 \in DOMAIN r.entries
    BY <2>3
  <2>5. browser' \in [ctr : Containers \union {Nowhere}, path : Seq(Names), entries : Seq(Entry),
                      cursor : Nat \ {0}, failed : BOOLEAN]
    <3> HIDE DEF Entry
    <3> QED BY <2>1, <2>3
  <2>6. /\ browser'.ctr = r.ctr /\ browser'.path = r.path /\ browser'.entries = r.entries
        /\ browser'.cursor = 1
    BY <2>1
  <2>7. BrowserInv'
    BY <2>2, <2>3, <2>4, <2>5, <2>6 DEF BrowserInv, DirAt, IsOfDir, Entry
  <2> QED BY <2>1, <2>7, <1>a, <1>t, RequestsKept DEF FilesInv, HostInv
<1>7. ASSUME NEW r \in requests, ListingFailed(r) \/ Copied(r) PROVE FilesInv'
  <2>1. /\ requests' \subseteq requests /\ UNCHANGED <<host, browsing, tree, requested>>
        /\ browser' = browser \/ \E b \in BOOLEAN : browser' = [browser EXCEPT !.failed = b]
    <3>1. (browser.failed \/ r.answer = "failed") \in BOOLEAN
      OBVIOUS
    <3> QED BY <1>7, <3>1 DEF ListingFailed, Copied
  <2>2. BrowserInv'
    <3>1. CASE browser' = browser
      BY <2>1, <3>1, <1>b
    <3>2. ASSUME NEW b \in BOOLEAN, browser' = [browser EXCEPT !.failed = b] PROVE BrowserInv'
      BY <2>1, <3>2, <1>a DEF BrowserInv, DirAt, IsOfDir, Entry
    <3> QED BY <2>1, <3>1, <3>2
  <2> QED BY <2>1, <2>2, <1>a, <1>t, RequestsKept DEF FilesInv, HostInv
<1>8. CASE MoveCursor
  <2>1. PICK n \in {1, browser.cursor - 1, Below(browser.cursor)} :
               n >= 1 /\ browser' = [browser EXCEPT !.cursor = n]
    BY <1>8 DEF MoveCursor
  <2>2. UNCHANGED <<host, browsing, tree, requests, requested>>
    BY <1>8 DEF MoveCursor
  <2>3. /\ browser.cursor \in Nat \ {0} /\ browser.entries \in Seq(Entry)
        /\ browser.ctr \in Containers /\ browsing
        /\ browser.entries # <<>> => browser.cursor \in DOMAIN browser.entries
    BY <1>8, <1>a DEF MoveCursor, BrowserInv
  <2>4. n \in Nat \ {0} /\ (browser.entries # <<>> => n \in DOMAIN browser.entries)
    <3>1. Len(browser.entries) \in Nat /\ DOMAIN browser.entries = 1..Len(browser.entries)
      BY <2>3
    <3> QED BY <2>1, <2>3, <3>1 DEF Below
  <2>5. BrowserInv'
    BY <2>1, <2>2, <2>3, <2>4, <1>a DEF BrowserInv, DirAt, IsOfDir, Entry
  <2> QED BY <2>2, <2>5, <1>a, <1>t, <1>r DEF FilesInv, HostInv
<1>9. CASE CloseBrowser \/ OtherHost
  <2>1. /\ UNCHANGED <<browser, tree, requests, requested>> /\ browsing' = FALSE
        /\ host' = host \/ host' \in Hosts
    BY <1>9 DEF CloseBrowser, OtherHost
  <2> QED BY <2>1, <1>a, <1>t, <1>b, <1>r DEF FilesInv, HostInv
<1>10. ASSUME NEW c \in Containers, Rewrite(c) PROVE FilesInv'
  <2>1. PICK t \in SUBSET FileSystem[c] : tree' = [tree EXCEPT ![c] = t]
    BY <1>10 DEF Rewrite
  <2>2. UNCHANGED <<host, browsing, browser, requests, requested>>
    BY <1>10 DEF Rewrite
  <2>3. FileSystem[c] \subseteq [path : Seq(Names), isDir : BOOLEAN]
    BY FilesAssumption
  <2>4. TreeInv'
    BY <2>1, <2>3, <1>a DEF TreeInv
  <2> QED BY <2>2, <2>4, <1>a, <1>b, <1>r DEF FilesInv, HostInv
<1> QED BY <1>0, <1>1, <1>2, <1>3, <1>4, <1>5, <1>6, <1>7, <1>8, <1>9, <1>10 DEF FilesNext

-----------------------------------------------------------------------------
(* The log viewer.  First sequences that list a set of numbers in order. *)

Enumerates(s, S) ==
  /\ s \in Seq(Nat) /\ Rising(s)
  /\ \A i \in DOMAIN s : s[i] \in S
  /\ \A x \in S : \E i \in DOMAIN s : s[i] = x

LEMMA AscendingLists ==
  ASSUME NEW S \in SUBSET Nat, IsFiniteSet(S)
  PROVE  Enumerates(Ascending(S), S)
<1> DEFINE id == [n \in Nat |-> n]
<1>1. id \in [Nat -> Nat] /\ \A n \in Nat : id[n] = n
  OBVIOUS
<1>2. \A x, y \in Nat : id[x] = id[y] => x = y
  BY <1>1
<1> HIDE DEF id
<1>3. PICK s \in SetToSeqs(S) : \A i, j \in DOMAIN s : i < j => id[s[i]] < id[s[j]]
  <2>1. ASSUME NEW key \in [Nat -> Nat], \A x, y \in Nat : key[x] = key[y] => x = y
        PROVE  \E s \in SetToSeqs(S) : \A i, j \in DOMAIN s : i < j => key[s[i]] < key[s[j]]
    BY <2>1, OrderExists, Zenon
  <2>2. id \in [Nat -> Nat]
    BY <1>1
  <2> QED BY <1>2, <2>1, <2>2, Zenon
<1>4. s \in Seq(S)
  BY SetToSeqsAll
<1>5. \A i \in DOMAIN s : s[i] \in Nat
  <2>1. \A i \in DOMAIN s : s[i] \in S
    BY <1>4
  <2> QED BY <2>1
<1>6. \A i, j \in DOMAIN s : i < j => s[i] < s[j]
  BY <1>1, <1>3, <1>5
<1>7. /\ Ascending(S) \in SetToSeqs(S)
      /\ \A i, j \in DOMAIN Ascending(S) : i < j => Ascending(S)[i] < Ascending(S)[j]
  BY <1>6 DEF Ascending
<1>8. /\ Ascending(S) \in Seq(S)
      /\ \A x \in S : \E i \in DOMAIN Ascending(S) : Ascending(S)[i] = x
  BY <1>7, SetToSeqsAll
<1>9. Ascending(S) \in Seq(Nat) /\ \A i \in DOMAIN Ascending(S) : Ascending(S)[i] \in S
  <2>1. \A i \in DOMAIN Ascending(S) : Ascending(S)[i] \in S
    BY <1>8
  <2> DEFINE t == Ascending(S)
  <2>2. t \in Seq(S)
    BY <1>8
  <2> HIDE DEF t
  <2>3. t \in Seq(Nat)
    BY <2>2, SeqOfSubset
  <2> QED BY <2>1, <2>3 DEF t
<1> QED BY <1>7, <1>8, <1>9 DEF Enumerates, Rising

LEMMA OnlyAscending ==
  ASSUME NEW S \in SUBSET Nat, IsFiniteSet(S), NEW s, Enumerates(s, S)
  PROVE  s = Ascending(S)
<1>1. Enumerates(Ascending(S), S)
  BY AscendingLists
<1> DEFINE t == Ascending(S)
<1> HIDE DEF t
<1>2. s \in Seq(Nat) /\ t \in Seq(Nat)
  BY <1>1 DEF Enumerates, t
<1>3. /\ \A i, j \in DOMAIN s : i < j => s[i] < s[j]
      /\ \A i, j \in DOMAIN t : i < j => t[i] < t[j]
  BY <1>1 DEF Enumerates, Rising, t
<1>4. /\ \A i \in DOMAIN s : \E j \in DOMAIN t : s[i] = t[j]
      /\ \A i \in DOMAIN t : \E j \in DOMAIN s : t[i] = s[j]
  BY <1>1 DEF Enumerates, t
<1> QED BY <1>2, <1>3, <1>4, OrderUnique DEF t

\* One list after the other.
LEMMA ListsJoined ==
  ASSUME NEW S, NEW T, NEW s, NEW t, Enumerates(s, S), Enumerates(t, T),
         \A x \in S, y \in T : x < y
  PROVE  Enumerates(s \o t, S \union T)
<1>1. PICK m \in Nat, n \in Nat :
        /\ s \in [1..m -> Nat] /\ t \in [1..n -> Nat] /\ Len(s) = m /\ Len(t) = n
        /\ DOMAIN s = 1..m /\ DOMAIN t = 1..n
  <2>1. Len(s) \in Nat /\ Len(t) \in Nat
    BY DEF Enumerates
  <2> QED BY <2>1 DEF Enumerates
<1> DEFINE u == s \o t
<1>2. /\ u \in Seq(Nat) /\ DOMAIN u = 1..(m + n)
      /\ \A i \in 1..(m + n) : u[i] = IF i <= m THEN s[i] ELSE t[i - m]
  <2>1. s \in Seq(Nat) /\ t \in Seq(Nat)
    BY DEF Enumerates
  <2>2. /\ u \in Seq(Nat) /\ Len(u) = m + n
        /\ \A i \in 1..(m + n) : u[i] = IF i <= m THEN s[i] ELSE t[i - m]
    BY <1>1, <2>1, ConcatProperties
  <2> HIDE DEF u
  <2> QED BY <1>1, <2>2
<1> HIDE DEF u
<1>3. \A i \in 1..m : s[i] \in S /\ s[i] \in Nat
  BY <1>1 DEF Enumerates
<1>4. \A i \in 1..n : t[i] \in T /\ t[i] \in Nat
  BY <1>1 DEF Enumerates
<1>5. ASSUME NEW i \in 1..(m + n)
      PROVE  \/ i \in 1..m /\ u[i] = s[i]
             \/ i - m \in 1..n /\ u[i] = t[i - m] /\ i > m
  <2>1. CASE i <= m
    <3>1. i \in 1..m
      BY <1>1, <2>1
    <3> QED BY <1>2, <2>1, <3>1
  <2>2. CASE ~(i <= m)
    <3>1. i - m \in 1..n /\ i > m
      BY <1>1, <2>2
    <3> QED BY <1>2, <2>2, <3>1
  <2> QED BY <2>1, <2>2
<1>6. ASSUME NEW i \in 1..(m + n), NEW j \in 1..(m + n), i < j PROVE u[i] < u[j]
  <2>1. CASE j \in 1..m /\ u[j] = s[j]
    <3>1. i \in 1..m /\ u[i] = s[i]
      BY <1>2, <1>6, <2>1
    <3> QED BY <1>1, <1>6, <2>1, <3>1 DEF Enumerates, Rising
  <2>2. CASE j - m \in 1..n /\ u[j] = t[j - m] /\ j > m
    <3>1. CASE i \in 1..m /\ u[i] = s[i]
      BY <1>3, <1>4, <2>2, <3>1
    <3>2. CASE i - m \in 1..n /\ u[i] = t[i - m] /\ i > m
      <4>1. i - m < j - m
        BY <1>1, <1>6
      <4> QED BY <1>1, <2>2, <3>2, <4>1 DEF Enumerates, Rising
    <3> QED BY <1>5, <3>1, <3>2
  <2> QED BY <1>5, <2>1, <2>2
<1>7. \A i \in DOMAIN u : u[i] \in S \union T
  BY <1>2, <1>3, <1>4, <1>5
<1>8. ASSUME NEW x \in S PROVE \E i \in DOMAIN u : u[i] = x
  <2>1. PICK i \in 1..m : s[i] = x
    BY <1>1 DEF Enumerates
  <2>2. i \in 1..(m + n) /\ i <= m
    BY <1>1
  <2> QED BY <1>2, <2>1, <2>2
<1>9. ASSUME NEW x \in T PROVE \E i \in DOMAIN u : u[i] = x
  <2>1. PICK i \in 1..n : t[i] = x
    BY <1>1 DEF Enumerates
  <2>2. m + i \in 1..(m + n) /\ ~(m + i <= m) /\ (m + i) - m = i
    BY <1>1
  <2>3. u[m + i] = t[i]
    BY <1>2, <2>2
  <2> QED BY <1>2, <2>1, <2>2, <2>3
<1>10. Rising(u)
  BY <1>2, <1>6 DEF Rising
<1>11. Enumerates(u, S \union T)
  BY <1>2, <1>7, <1>8, <1>9, <1>10 DEF Enumerates
<1> QED BY <1>11 DEF u

\* What is left of the matches is the end of them (shiftMatches).
LEMMA KeptEnd ==
  ASSUME NEW s \in Seq(Nat), Rising(s), NEW n \in Nat
  PROVE  \E g \in 0..Len(s) :
           /\ \A j \in DOMAIN s : s[j] > n <=> j > g
           /\ Kept(s, n) = [k \in 1..(Len(s) - g) |-> s[k + g]]
<1>1. PICK m \in Nat : Len(s) = m /\ DOMAIN s = 1..m /\ \A i \in 1..m : s[i] \in Nat
  <2>1. Len(s) \in Nat
    OBVIOUS
  <2> QED BY <2>1
<1>2. PICK g \in 0..m : \A j \in 1..m : s[j] > n <=> j > g
  <2> DEFINE P == {j \in Nat : j \in 1..m /\ s[j] > n}
  <2>1. CASE P = {}
    BY <1>1, <2>1
  <2>2. CASE P # {}
    <3>1. PICK j \in P : \A k \in P : j <= k
      BY <2>2, LeastNumber
    <3>2. j \in 1..m /\ s[j] > n
      OBVIOUS
    <3>3. ASSUME NEW k \in 1..m, k >= j PROVE s[k] > n
      <4>1. CASE k = j
        BY <3>2, <4>1
      <4>2. CASE k > j
        <5>1. s[j] < s[k]
          BY <1>1, <3>2, <4>2 DEF Rising
        <5> QED BY <1>1, <3>2, <5>1
      <4> QED BY <3>2, <3>3, <4>1, <4>2
    <3>4. ASSUME NEW k \in 1..m, s[k] > n PROVE k >= j
      BY <1>1, <3>1, <3>4
    <3>5. j - 1 \in 0..m /\ \A k \in 1..m : s[k] > n <=> k > j - 1
      BY <1>1, <3>2, <3>3, <3>4
    <3> QED BY <3>5
  <2> QED BY <2>1, <2>2
<1> DEFINE at == [k \in 1..(m - g) |-> k + g]
           P == {j \in DOMAIN s : s[j] > n}
<1>3. P = (g + 1)..m /\ P \in SUBSET Nat
  BY <1>1, <1>2
<1>4. IsFiniteSet(P)
  <2>1. g + 1 \in Int /\ m \in Int
    BY <1>1, <1>2
  <2> QED BY <1>3, <2>1, FS_Interval
<1>5. Enumerates(at, P)
  <2>1. m - g \in Nat /\ at \in [1..(m - g) -> Nat]
    BY <1>1, <1>2
  <2>2. at \in Seq(Nat) /\ DOMAIN at = 1..(m - g)
    BY <2>1
  <2>3. Rising(at)
    BY <2>1 DEF Rising
  <2>4. \A i \in 1..(m - g) : at[i] \in (g + 1)..m
    BY <1>1, <1>2
  <2>5. \A x \in (g + 1)..m : x - g \in 1..(m - g) /\ at[x - g] = x
    BY <1>1, <1>2
  <2> QED BY <1>3, <2>2, <2>3, <2>4, <2>5 DEF Enumerates
<1>6. at = Ascending(P)
  BY <1>3, <1>4, <1>5, OnlyAscending
<1>7. DOMAIN at = 1..(m - g) /\ \A k \in 1..(m - g) : at[k] = k + g
  OBVIOUS
<1>8. Kept(s, n) = [k \in DOMAIN at |-> s[at[k]]]
  BY <1>6 DEF Kept
<1> HIDE DEF at
<1>9. Kept(s, n) = [k \in 1..(m - g) |-> s[k + g]]
  BY <1>7, <1>8
<1> QED BY <1>1, <1>2, <1>9

\* The lines a search for q finds.
Found(q, ls) == {i \in DOMAIN ls : q \in ls[i]}

LogsType ==
  /\ logs \in [lines : Seq(Lines), searching : BOOLEAN, query : Queries \union {NoQuery},
               matches : Seq(Nat), current : Nat \ {0}, follows : BOOLEAN]
  /\ dropped \in Nat

LogsInv ==
  /\ LogsType
  /\ Len(logs.lines) <= Cap
  /\ Enumerates(logs.matches, Found(logs.query, logs.lines))
  /\ logs.current = 1 \/ logs.current \in DOMAIN logs.matches

LEMMA FoundFinite ==
  ASSUME NEW ls \in Seq(Lines), NEW q
  PROVE  Found(q, ls) \in SUBSET Nat /\ IsFiniteSet(Found(q, ls))
<1>1. Len(ls) \in Nat /\ DOMAIN ls = 1..Len(ls)
  OBVIOUS
<1>2. IsFiniteSet(1..Len(ls))
  BY <1>1, FS_Interval
<1>3. Found(q, ls) \subseteq 1..Len(ls)
  BY <1>1 DEF Found
<1> QED BY <1>1, <1>2, <1>3, FS_Subset

LEMMA LogsSuffice == LogsInv => SearchRight
<1> SUFFICES ASSUME LogsInv PROVE SearchRight
  OBVIOUS
<1>1. logs.lines \in Seq(Lines) /\ logs.matches \in Seq(Nat)
  BY DEF LogsInv, LogsType
<1>2. logs.matches = Ascending(Found(logs.query, logs.lines))
  BY <1>1, FoundFinite, OnlyAscending DEF LogsInv
<1>3. logs.matches # <<>> => logs.current \in DOMAIN logs.matches
  BY <1>1 DEF LogsInv
<1> QED BY <1>2, <1>3 DEF LogsInv, SearchRight, Found

\* Lines that have gone take their matches along, and the current one with them
\* (shiftMatches).
LEMMA ShiftFits ==
  ASSUME LogsInv, NEW n \in Nat
  PROVE  LET t == Shifted(logs, n) IN
         /\ t \in [lines : {logs.lines}, searching : {logs.searching}, query : {logs.query},
                  matches : Seq(Nat), current : Nat \ {0}, follows : {logs.follows}]
         /\ Enumerates(t.matches, {x \in Nat \ {0} : x + n \in Found(logs.query, logs.lines)})
         /\ t.current = 1 \/ t.current \in DOMAIN t.matches
         /\ logs.matches # <<>> =>
              IF logs.matches[logs.current] > n
              THEN /\ t.current \in DOMAIN t.matches
                   /\ t.matches[t.current] = logs.matches[logs.current] - n
              ELSE t.current = 1
<1> DEFINE t == Shifted(logs, n)
           F == Found(logs.query, logs.lines)
           s == logs.matches
           c == logs.current
<1>1. /\ s \in Seq(Nat) /\ Rising(s) /\ c \in Nat \ {0}
      /\ c = 1 \/ c \in DOMAIN s
      /\ \A i \in DOMAIN s : s[i] \in F
      /\ \A x \in F : \E i \in DOMAIN s : s[i] = x
  BY DEF LogsInv, LogsType, Enumerates
<1>2. F \subseteq Nat \ {0}
  <2>1. logs.lines \in Seq(Lines)
    BY DEF LogsInv, LogsType
  <2> QED BY <2>1 DEF Found
<1>t. logs \in [lines : {logs.lines}, searching : {logs.searching}, query : {logs.query},
               matches : {s}, current : {c}, follows : {logs.follows}]
  BY DEF LogsInv, LogsType
<1>3. PICK m \in Nat : Len(s) = m /\ DOMAIN s = 1..m /\ \A i \in 1..m : s[i] \in Nat
  <2>1. Len(s) \in Nat
    BY <1>1
  <2> HIDE DEF s
  <2>2. Len(s) = Len(s) /\ DOMAIN s = 1..Len(s) /\ \A i \in 1..Len(s) : s[i] \in Nat
    BY <1>1
  <2> QED BY <2>1, <2>2
<1>4. CASE n = 0 \/ s = <<>>
  <2>1. t = logs
    BY <1>4 DEF Shifted
  <2>2. {x \in Nat \ {0} : x + n \in F} = F \/ (F = {} /\ {x \in Nat \ {0} : x + n \in F} = {})
    <3>1. CASE n = 0
      BY <1>2, <3>1
    <3>2. CASE s = <<>>
      <4>1. F = {}
        BY <1>1, <3>2
      <4> QED BY <4>1
    <3> QED BY <1>4, <3>1, <3>2
  <2>3. Enumerates(s, {x \in Nat \ {0} : x + n \in F})
    BY <2>2 DEF LogsInv
  <2>4. s # <<>> => n = 0 /\ c \in DOMAIN s /\ s[c] > n /\ s[c] - n = s[c]
    BY <1>1, <1>2, <1>3, <1>4
  <2> HIDE DEF t, F
  <2>5. /\ t \in [lines : {logs.lines}, searching : {logs.searching}, query : {logs.query},
                 matches : Seq(Nat), current : Nat \ {0}, follows : {logs.follows}]
        /\ t.matches = s /\ t.current = c
    BY <1>1, <1>t, <2>1
  <2> QED BY <1>1, <2>3, <2>4, <2>5 DEF t, F
<1>5. CASE n # 0 /\ s # <<>>
  <2> HIDE DEF F
  <2>1. PICK g \in 0..Len(s) : /\ \A j \in DOMAIN s : s[j] > n <=> j > g
                               /\ Kept(s, n) = [k \in 1..(Len(s) - g) |-> s[k + g]]
    BY <1>1, KeptEnd
  <2> DEFINE kept == Kept(s, n)
             d == m - g
             u == [j \in DOMAIN kept |-> kept[j] - n]
             cur == Renumbered(logs, Len(s) - Len(kept))
             e == IF cur > Len(kept) THEN 1 ELSE cur
  <2>2. t = [logs EXCEPT !.matches = u, !.current = e]
    BY <1>5 DEF Shifted
  <2>3. d \in Nat /\ g \in Nat /\ g <= m /\ kept = [k \in 1..d |-> s[k + g]]
    BY <1>3, <2>1
  <2>4. \A k \in 1..d : k + g \in 1..m /\ k + g > g
    BY <1>3, <2>3
  <2>5. \A k \in 1..d : s[k + g] > n /\ s[k + g] \in Nat
    BY <1>3, <2>1, <2>4
  <2>6. DOMAIN kept = 1..d /\ Len(kept) = d /\ \A k \in 1..d : kept[k] = s[k + g]
    <3>1. kept \in Seq(Nat)
      BY <2>3, <2>5
    <3> QED BY <2>3, <3>1
  <2> HIDE DEF kept, d
  <2>7. u \in [1..d -> Nat \ {0}] /\ \A k \in 1..d : u[k] = s[k + g] - n
    <3>1. \A x \in Nat : x > n => x - n \in Nat \ {0}
      OBVIOUS
    <3>2. u = [j \in 1..d |-> kept[j] - n]
      BY <2>6
    <3>3. \A k \in 1..d : kept[k] - n \in Nat \ {0}
      BY <2>5, <2>6, <3>1
    <3> QED BY <2>6, <3>2, <3>3
  <2> HIDE DEF u
  <2>8. u \in Seq(Nat) /\ DOMAIN u = 1..d /\ Len(u) = d
    BY <2>3, <2>7
  <2>9. Enumerates(u, {x \in Nat \ {0} : x + n \in F})
    <3>1. Rising(u)
      <4> SUFFICES ASSUME NEW i \in 1..d, NEW j \in 1..d, i < j PROVE u[i] < u[j]
        BY <2>8 DEF Rising
      <4>1. s[i + g] < s[j + g]
        <5>1. i + g < j + g
          BY <2>3
        <5> QED BY <1>1, <1>3, <2>4, <5>1 DEF Rising
      <4>2. s[i + g] \in Nat /\ s[j + g] \in Nat
        BY <2>5
      <4>3. u[i] = s[i + g] - n /\ u[j] = s[j + g] - n
        BY <2>7
      <4> QED BY <4>1, <4>2, <4>3
    <3>2. ASSUME NEW i \in 1..d PROVE u[i] \in {x \in Nat \ {0} : x + n \in F}
      <4>1. u[i] + n = s[i + g] /\ u[i] \in Nat \ {0}
        BY <2>5, <2>7
      <4> QED BY <1>1, <1>3, <2>4, <4>1
    <3>3. ASSUME NEW x \in Nat \ {0}, x + n \in F PROVE \E i \in 1..d : u[i] = x
      <4>1. PICK j \in 1..m : s[j] = x + n
        BY <1>1, <1>3, <3>3
      <4>2. j > g
        <5>1. x + n > n
          OBVIOUS
        <5>2. s[j] > n
          BY <4>1, <5>1
        <5>3. j \in DOMAIN s
          BY <1>3
        <5> HIDE DEF s
        <5> QED BY <2>1, <5>2, <5>3
      <4>3. j - g \in 1..d /\ (j - g) + g = j
        BY <2>3, <4>2 DEF d
      <4> QED BY <2>7, <4>1, <4>3
    <3> QED BY <2>8, <3>1, <3>2, <3>3 DEF Enumerates
  <2>10. c \in 1..m
    BY <1>1, <1>3, <1>5
  <2>11. cur = IF c - g >= 1 THEN c - g ELSE 1
    BY <1>3, <2>3, <2>6 DEF Renumbered, d
  <2>12. s[c] > n => e = c - g /\ e \in 1..d /\ u[e] = s[c] - n
    <3> SUFFICES ASSUME s[c] > n PROVE e = c - g /\ e \in 1..d /\ u[e] = s[c] - n
      OBVIOUS
    <3>1. c > g
      BY <1>3, <2>1, <2>10
    <3>2. cur = c - g /\ cur \in 1..d
      BY <2>3, <2>10, <2>11, <3>1 DEF d
    <3>3. e = cur
      BY <2>6, <3>2
    <3>4. e \in 1..d /\ e + g = c
      BY <2>3, <2>10, <3>2, <3>3
    <3> QED BY <2>7, <3>2, <3>3, <3>4
  <2>13. ~(s[c] > n) => e = 1
    BY <1>3, <2>1, <2>3, <2>10, <2>11
  <2>14. e \in Nat \ {0}
    BY <2>12, <2>13
  <2> HIDE DEF e
  <2>15. /\ t \in [lines : {logs.lines}, searching : {logs.searching}, query : {logs.query},
                  matches : Seq(Nat), current : Nat \ {0}, follows : {logs.follows}]
         /\ t.matches = u /\ t.current = e
    BY <1>t, <2>2, <2>8, <2>14
  <2> HIDE DEF t, F
  <2> QED BY <2>8, <2>9, <2>12, <2>13, <2>15 DEF t, F
<1> QED BY <1>4, <1>5

\* The lines that go are counted.
LEMMA OverFits ==
  ASSUME NEW n \in Nat
  PROVE  Over(n) \in Nat /\ Over(n) <= n /\ n - Over(n) <= Cap /\ (n > 0 => Over(n) < n)
<1>1. Cap \in Nat \ {0}
  BY LogViewAssumption
<1> QED BY <1>1 DEF Over

\* The lines of a batch, joined to those kept.
LEMMA LinesLeft ==
  ASSUME NEW ls \in Seq(Lines), NEW n \in Nat, NEW b \in [1..n -> Lines]
  PROVE  LET all  == ls \o b
             over == Over(Len(all))
             left == SubSeq(all, over + 1, Len(all))
         IN  /\ Len(all) = Len(ls) + n
             /\ left \in Seq(Lines) /\ Len(left) = Len(ls) + n - over /\ Len(left) <= Cap
             /\ \A i \in DOMAIN left : i + over <= Len(ls) => left[i] = ls[i + over]
<1> DEFINE all  == ls \o b
           over == Over(Len(all))
           left == SubSeq(all, over + 1, Len(all))
<1>1. b \in Seq(Lines) /\ Len(b) = n
  OBVIOUS
<1>2. Len(ls) \in Nat
  OBVIOUS
<1>3. /\ all \in Seq(Lines) /\ Len(all) = Len(ls) + n
      /\ \A i \in 1..(Len(ls) + n) : i <= Len(ls) => all[i] = ls[i]
  BY <1>1, ConcatProperties
<1>4. Len(all) \in Nat
  BY <1>2, <1>3
<1>5. over \in Nat /\ over <= Len(all) /\ Len(all) - over <= Cap
  BY <1>4, OverFits
<1> HIDE DEF all, over
<1>6. \A i \in (over + 1)..Len(all) : all[i] \in Lines
  <2>1. \A i \in 1..Len(all) : all[i] \in Lines
    BY <1>3
  <2> QED BY <1>4, <1>5, <2>1
<1>7. over + 1 \in Int /\ Len(all) \in Int
  BY <1>4, <1>5
<1>8. /\ left \in Seq(Lines)
      /\ Len(left) = IF over + 1 <= Len(all) THEN Len(all) - (over + 1) + 1 ELSE 0
      /\ \A i \in 1..(Len(all) - (over + 1) + 1) : left[i] = all[(over + 1) + i - 1]
  BY <1>6, <1>7, SubSeqProperties
<1> HIDE DEF left
<1>9. Len(left) = Len(all) - over
  BY <1>4, <1>5, <1>8
<1>10. ASSUME NEW i \in DOMAIN left, i + over <= Len(ls) PROVE left[i] = ls[i + over]
  <2>1. i \in 1..(Len(all) - over)
    BY <1>8, <1>9
  <2>2. left[i] = all[i + over]
    <3>1. i \in 1..(Len(all) - (over + 1) + 1) /\ (over + 1) + i - 1 = i + over
      BY <1>4, <1>5, <2>1
    <3> QED BY <1>8, <3>1
  <2>3. i + over \in 1..(Len(ls) + n)
    BY <1>2, <1>5, <1>10, <2>1
  <2> QED BY <1>3, <1>10, <2>2, <2>3
<1>11. Len(left) = Len(ls) + n - over /\ Len(left) <= Cap
  BY <1>3, <1>5, <1>9
<1>12. left \in Seq(Lines) /\ Len(all) = Len(ls) + n
  BY <1>3, <1>8
<1> QED BY <1>10, <1>11, <1>12 DEF all, over, left

\* Where the lines carried over match, and those of the batch that are searched.
CarriedOver(q, ls, over) == {x \in Nat \ {0} : x + over \in Found(q, ls)}
Searched(q, ls, left, over) == {i \in ScanFrom(Len(ls), over)..Len(left) : q \in left[i]}

\* They are all there are.
LEMMA FoundInTwo ==
  ASSUME NEW ls \in Seq(Lines), NEW left \in Seq(Lines), NEW over \in Nat, NEW q,
         \A i \in DOMAIN left : i + over <= Len(ls) => left[i] = ls[i + over],
         Len(ls) <= Len(left) + over
  PROVE  /\ Found(q, left) = CarriedOver(q, ls, over) \union Searched(q, ls, left, over)
         /\ \A x \in CarriedOver(q, ls, over), y \in Searched(q, ls, left, over) : x < y
         /\ Searched(q, ls, left, over) \in SUBSET Nat
         /\ IsFiniteSet(Searched(q, ls, left, over))
<1> DEFINE from  == ScanFrom(Len(ls), over)
           kept  == {x \in Nat \ {0} : x + over \in Found(q, ls)}
           fresh == {i \in from..Len(left) : q \in left[i]}
<1>1. Len(ls) \in Nat /\ DOMAIN ls = 1..Len(ls) /\ Len(left) \in Nat /\ DOMAIN left = 1..Len(left)
  OBVIOUS
<1>2. from \in Nat \ {0} /\ \A y \in Nat : y >= from <=> (y > 0 /\ y + over > Len(ls))
  BY <1>1 DEF ScanFrom
<1> HIDE DEF from
<1>3. \A x \in kept : x \in 1..Len(left) /\ x + over \in 1..Len(ls) /\ q \in ls[x + over]
  BY <1>1 DEF Found
<1>4. fresh \subseteq 1..Len(left) /\ \A y \in fresh : y >= from /\ q \in left[y]
  BY <1>1, <1>2
<1>5. \A x \in kept, y \in fresh : x < y
  <2> SUFFICES ASSUME NEW x \in kept, NEW y \in fresh PROVE x < y
    OBVIOUS
  <2>1. y \in Nat /\ y + over > Len(ls)
    BY <1>1, <1>2, <1>4
  <2>2. x \in Nat /\ x + over <= Len(ls)
    BY <1>1, <1>3
  <2> QED BY <1>1, <2>1, <2>2
<1>6. ASSUME NEW x \in kept PROVE x \in Found(q, left)
  <2> HIDE DEF kept
  <2>1. x \in DOMAIN left /\ x + over <= Len(ls) /\ q \in ls[x + over]
    BY <1>1, <1>3
  <2> QED BY <2>1 DEF Found
<1>7. ASSUME NEW x \in Found(q, left) PROVE x \in kept \union fresh
  <2>1. x \in 1..Len(left) /\ q \in left[x]
    BY <1>1 DEF Found
  <2>2. CASE x + over <= Len(ls)
    <3>1. x + over \in DOMAIN ls /\ q \in ls[x + over]
      BY <1>1, <2>1, <2>2
    <3>2. x + over \in Found(q, ls)
      BY <3>1 DEF Found
    <3> QED BY <2>1, <3>2
  <2>3. CASE ~(x + over <= Len(ls))
    <3>1. x \in from..Len(left)
      BY <1>1, <1>2, <2>1, <2>3
    <3> QED BY <2>1, <3>1
  <2> QED BY <2>2, <2>3
<1>8. fresh \subseteq Found(q, left)
  BY <1>1, <1>4 DEF Found
<1>9. fresh \in SUBSET Nat /\ IsFiniteSet(fresh)
  <2>0. 1 \in Int /\ Len(left) \in Int
    BY <1>1
  <2>1. IsFiniteSet(1..Len(left))
    BY <2>0, FS_Interval
  <2> QED BY <1>1, <1>4, <2>1, FS_Subset
<1>10. Found(q, left) = kept \union fresh
  BY <1>6, <1>7, <1>8
<1> QED BY <1>5, <1>9, <1>10 DEF from, CarriedOver, Searched

\* AddLines and trimToCap keep the search right, and the current match with it.
LEMMA BatchFits ==
  ASSUME LogsInv, NEW n \in Nat, NEW b \in [1..n -> Lines]
  PROVE  LET s    == AddLines(logs, b)
             over == Over(Len(logs.lines) + n)
         IN  /\ s \in [lines : Seq(Lines), searching : {logs.searching}, query : {logs.query},
                       matches : Seq(Nat), current : Nat \ {0}, follows : {logs.follows}]
             /\ Len(s.lines) <= Cap
             /\ Enumerates(s.matches, Found(s.query, s.lines))
             /\ s.current = 1 \/ s.current \in DOMAIN s.matches
             /\ logs.matches # <<>> =>
                  IF logs.matches[logs.current] > over
                  THEN s.matches[s.current] = logs.matches[logs.current] - over
                  ELSE s.current = 1
<1> DEFINE all  == logs.lines \o b
           over == Over(Len(all))
           left == SubSeq(all, over + 1, Len(all))
           q    == logs.query
           t    == Shifted(logs, over)
           from == ScanFrom(Len(logs.lines), over)
           kept == {x \in Nat \ {0} : x + over \in Found(q, logs.lines)}
           fresh == {i \in from..Len(left) : q \in left[i]}
           s    == AddLines(logs, b)
<1>1. logs.lines \in Seq(Lines) /\ q \in Queries \union {NoQuery} /\ Len(logs.lines) \in Nat
  BY DEF LogsInv, LogsType
<1>2. /\ Len(all) = Len(logs.lines) + n
      /\ left \in Seq(Lines) /\ Len(left) = Len(logs.lines) + n - over /\ Len(left) <= Cap
      /\ \A i \in DOMAIN left : i + over <= Len(logs.lines) => left[i] = logs.lines[i + over]
  BY <1>1, LinesLeft
<1>3. over \in Nat /\ Len(logs.lines) <= Len(left) + over
  <2>1. Len(all) \in Nat
    BY <1>1, <1>2
  <2>2. over \in Nat
    BY <2>1, OverFits
  <2> HIDE DEF over, left, all
  <2> QED BY <1>1, <1>2, <2>2
<1>t. logs \in [lines : {logs.lines}, searching : {logs.searching}, query : {q},
               matches : {logs.matches}, current : {logs.current}, follows : {logs.follows}]
      /\ logs.matches \in Seq(Nat) /\ logs.current \in Nat \ {0}
  BY DEF LogsInv, LogsType
<1>4. CASE q = NoQuery
  <2>1. s = [logs EXCEPT !.lines = left]
    BY <1>4 DEF AddLines
  <2>2. ASSUME NEW ls \in Seq(Lines) PROVE Found(q, ls) = {}
    <3>1. \A i \in DOMAIN ls : ls[i] \in SUBSET Queries
      BY DEF Lines
    <3> QED BY <1>4, <3>1, LogViewAssumption DEF Found
  <2>3. DOMAIN logs.matches = {} /\ logs.matches = <<>>
    <3>1. \A i \in DOMAIN logs.matches : i \in {}
      BY <1>1, <2>2 DEF LogsInv, Enumerates
    <3>2. Len(logs.matches) \in Nat /\ DOMAIN logs.matches = 1..Len(logs.matches)
      BY <1>t
    <3>3. ~(1 \in 1..Len(logs.matches))
      BY <3>1, <3>2
    <3>4. Len(logs.matches) = 0
      BY <3>2, <3>3
    <3> QED BY <1>t, <3>1, <3>4, EmptySeq
  <2>4. Enumerates(logs.matches, Found(q, left))
    <3>1. Found(q, left) = Found(q, logs.lines)
      BY <1>1, <1>2, <2>2
    <3> QED BY <3>1 DEF LogsInv
  <2>5. logs.current = 1
    BY <2>3 DEF LogsInv
  <2> HIDE DEF s, left
  <2>6. /\ s \in [lines : {left}, searching : {logs.searching}, query : {q},
                 matches : {logs.matches}, current : {logs.current}, follows : {logs.follows}]
    BY <1>t, <2>1
  <2> QED BY <1>2, <1>t, <2>3, <2>4, <2>5, <2>6 DEF s
<1>5. CASE q # NoQuery
  <2> DEFINE u == Ascending(fresh)
  <2>1. s = [t EXCEPT !.matches = @ \o u, !.lines = left]
    <3>1. s = [Scanned(t, left, from) EXCEPT !.lines = left]
      BY <1>5 DEF AddLines
    <3>2. t.query = q
      BY <1>3, <1>t, ShiftFits
    <3> QED BY <3>1, <3>2 DEF Scanned
  <2> HIDE DEF s, u
  <2>2. /\ Found(q, left) = kept \union fresh
        /\ \A x \in kept, y \in fresh : x < y
        /\ fresh \in SUBSET Nat /\ IsFiniteSet(fresh)
    <3>1. /\ left \in Seq(Lines) /\ over \in Nat /\ logs.lines \in Seq(Lines)
          /\ \A i \in DOMAIN left : i + over <= Len(logs.lines) => left[i] = logs.lines[i + over]
          /\ Len(logs.lines) <= Len(left) + over
      BY <1>1, <1>2, <1>3
    <3> HIDE DEF left, over, q, kept, fresh
    <3>2. /\ Found(q, left) = CarriedOver(q, logs.lines, over) \union Searched(q, logs.lines, left, over)
          /\ \A x \in CarriedOver(q, logs.lines, over), y \in Searched(q, logs.lines, left, over) : x < y
          /\ Searched(q, logs.lines, left, over) \in SUBSET Nat
          /\ IsFiniteSet(Searched(q, logs.lines, left, over))
      BY <3>1, FoundInTwo
    <3>3. kept = CarriedOver(q, logs.lines, over) /\ fresh = Searched(q, logs.lines, left, over)
      BY DEF kept, fresh, CarriedOver, Searched
    <3> QED BY <3>2, <3>3
  <2>3. Enumerates(u, fresh)
    BY <2>2, AscendingLists DEF u
  <2>4. /\ t \in [lines : {logs.lines}, searching : {logs.searching}, query : {q},
                  matches : Seq(Nat), current : Nat \ {0}, follows : {logs.follows}]
        /\ Enumerates(t.matches, kept)
        /\ t.current = 1 \/ t.current \in DOMAIN t.matches
        /\ logs.matches # <<>> =>
             IF logs.matches[logs.current] > over
             THEN /\ t.current \in DOMAIN t.matches
                  /\ t.matches[t.current] = logs.matches[logs.current] - over
             ELSE t.current = 1
    BY <1>3, ShiftFits
  <2> HIDE DEF t, kept, fresh, over, left
  <2>5. Enumerates(t.matches \o u, Found(q, left))
    <3>1. Enumerates(t.matches, kept) /\ Enumerates(u, fresh) /\ \A x \in kept, y \in fresh : x < y
      BY <2>2, <2>3, <2>4
    <3>2. Enumerates(t.matches \o u, kept \union fresh)
      BY <3>1, ListsJoined
    <3> QED BY <2>2, <3>2
  <2>6. u \in Seq(Nat)
    BY <2>3 DEF Enumerates
  <2>7. /\ t.matches \o u \in Seq(Nat)
        /\ \A i \in DOMAIN t.matches : i \in DOMAIN (t.matches \o u)
                                       /\ (t.matches \o u)[i] = t.matches[i]
    <3> DEFINE v == t.matches
               w == v \o u
    <3>1. v \in Seq(Nat) /\ Len(v) \in Nat /\ Len(u) \in Nat /\ DOMAIN v = 1..Len(v)
      BY <2>4, <2>6
    <3>2. /\ w \in Seq(Nat) /\ Len(w) = Len(v) + Len(u)
          /\ \A i \in 1..(Len(v) + Len(u)) : i <= Len(v) => w[i] = v[i]
      BY <2>6, <3>1, ConcatProperties
    <3> HIDE DEF v, w
    <3>3. DOMAIN w = 1..(Len(v) + Len(u))
      BY <3>2
    <3>4. \A i \in DOMAIN v : i \in DOMAIN w /\ w[i] = v[i]
      BY <3>1, <3>2, <3>3
    <3> QED BY <3>2, <3>4 DEF v, w
  <2>8. /\ s \in [lines : {left}, searching : {logs.searching}, query : {q},
                 matches : {t.matches \o u}, current : {t.current}, follows : {logs.follows}]
    BY <2>1, <2>4
  <2>9. t.current \in Nat \ {0}
    BY <2>4
  <2>10. logs.matches # <<>> =>
           IF logs.matches[logs.current] > over
           THEN (t.matches \o u)[t.current] = logs.matches[logs.current] - over
           ELSE t.current = 1
    BY <2>4, <2>7
  <2>11. t.current = 1 \/ t.current \in DOMAIN (t.matches \o u)
    BY <2>4, <2>7
  <2> QED BY <1>2, <2>5, <2>7, <2>8, <2>9, <2>10, <2>11 DEF s, over
<1> QED BY <1>4, <1>5

\* A search of the whole buffer (recomputeMatches).
LEMMA SearchFits ==
  ASSUME NEW ls \in Seq(Lines), NEW q
  PROVE  LET u == <<>> \o Ascending({i \in 1..Len(ls) : q \in ls[i]})
         IN  u \in Seq(Nat) /\ Enumerates(u, Found(q, ls))
<1>1. Found(q, ls) = {i \in 1..Len(ls) : q \in ls[i]}
  BY DEF Found
<1> DEFINE a == Ascending(Found(q, ls))
<1>2. Enumerates(a, Found(q, ls))
  BY FoundFinite, AscendingLists
<1> HIDE DEF a
<1>3. a \in Seq(Nat)
  BY <1>2 DEF Enumerates
<1>4. <<>> \o a = a
  BY <1>3, ConcatEmptySeq
<1> QED BY <1>1, <1>2, <1>3, <1>4 DEF a

LEMMA NothingFound == Enumerates(<<>>, Found(NoQuery, <<>>)) /\ <<>> \in Seq(Nat)
<1>1. Found(NoQuery, <<>>) = {}
  BY DEF Found
<1> QED BY <1>1 DEF Enumerates, Rising

LEMMA NothingMatches ==
  ASSUME NEW ls \in Seq(Lines)
  PROVE  Enumerates(<<>>, Found(NoQuery, ls))
<1>1. \A i \in DOMAIN ls : ls[i] \in SUBSET Queries
  BY DEF Lines
<1>2. Found(NoQuery, ls) = {}
  BY <1>1, LogViewAssumption DEF Found
<1> QED BY <1>2 DEF Enumerates, Rising

\* What the viewer shows when nothing is searched for.
LEMMA NoMatchesFit ==
  ASSUME NEW ls \in Seq(Lines), NEW e \in Seq(Nat),
         NEW r \in [lines : {ls}, searching : BOOLEAN, query : {NoQuery}, matches : {e},
                   current : {1}, follows : BOOLEAN]
  PROVE  r \in [lines : Seq(Lines), searching : BOOLEAN, query : Queries \union {NoQuery},
                matches : Seq(Nat), current : Nat \ {0}, follows : BOOLEAN]
OBVIOUS

LEMMA EmptiedFits ==
  ASSUME logs' = Emptied, dropped' = 0
  PROVE  LogsInv'
<1>1. Cap \in Nat
  BY LogViewAssumption
<1>2. /\ logs'.lines = <<>> /\ logs'.query = NoQuery /\ logs'.matches = <<>> /\ logs'.current = 1
      /\ logs' \in [lines : {<<>>}, searching : BOOLEAN, query : {NoQuery},
                   matches : {<<>>}, current : {1}, follows : BOOLEAN]
  BY DEF Emptied
<1>3. <<>> \in Seq(Lines) /\ <<>> \in Seq(Nat) /\ Len(<<>>) = 0
  OBVIOUS
<1>4. LogsType'
  BY <1>2, <1>3, NoMatchesFit DEF LogsType
<1> QED BY <1>1, <1>2, <1>3, <1>4, NothingFound DEF LogsInv

LEMMA LogsStart == LogsInit => LogsInv
<1> SUFFICES ASSUME LogsInit PROVE LogsInv
  OBVIOUS
<1>1. Cap \in Nat
  BY LogViewAssumption
<1>2. /\ logs.lines = <<>> /\ logs.query = NoQuery /\ logs.matches = <<>> /\ logs.current = 1
      /\ logs \in [lines : {<<>>}, searching : BOOLEAN, query : {NoQuery},
                  matches : {<<>>}, current : {1}, follows : BOOLEAN]
      /\ dropped = 0
  BY DEF LogsInit, Emptied
<1>3. <<>> \in Seq(Lines) /\ <<>> \in Seq(Nat) /\ Len(<<>>) = 0
  OBVIOUS
<1>4. LogsType
  BY <1>2, <1>3, NoMatchesFit DEF LogsType
<1> QED BY <1>1, <1>2, <1>3, <1>4, NothingFound DEF LogsInv

\* A step round the matches is one of them.
LEMMA RoundFits ==
  ASSUME NEW n \in Nat \ {0}, NEW i \in Int
  PROVE  (i % n) + 1 \in 1..n
OBVIOUS

LEMMA LogsStep == LogsInv /\ [LogsNext]_logVars => LogsInv'
<1> SUFFICES ASSUME LogsInv, [LogsNext]_logVars PROVE LogsInv'
  OBVIOUS
<1>t. /\ logs \in [lines : {logs.lines}, searching : {logs.searching}, query : {logs.query},
                  matches : {logs.matches}, current : {logs.current}, follows : {logs.follows}]
      /\ logs.lines \in Seq(Lines) /\ logs.matches \in Seq(Nat) /\ logs.current \in Nat \ {0}
      /\ logs.query \in Queries \union {NoQuery}
      /\ logs.searching \in BOOLEAN /\ logs.follows \in BOOLEAN
      /\ dropped \in Nat
  BY DEF LogsInv, LogsType
\* What leaves the lines, the query and the matches alone keeps the search right.
<1>k. ASSUME logs' \in [lines : {logs.lines}, searching : BOOLEAN, query : {logs.query},
                       matches : {logs.matches}, current : Nat \ {0}, follows : BOOLEAN],
             logs'.current = 1 \/ logs'.current \in DOMAIN logs.matches,
             dropped' \in Nat
      PROVE  LogsInv'
  <2>1. logs'.lines = logs.lines /\ logs'.query = logs.query /\ logs'.matches = logs.matches
    BY <1>k
  <2>2. LogsType'
    BY <1>k, <1>t DEF LogsType
  <2> QED BY <1>k, <2>1, <2>2 DEF LogsInv
<1>1. CASE OpenLogs
  BY <1>1, EmptiedFits DEF OpenLogs
<1>2. CASE Batch
  <2>1. PICK n \in 1..BatchMax : \E b \in [1..n -> Lines] :
          logs' = AddLines(logs, b) /\ dropped' = dropped + Over(Len(logs.lines) + n)
    BY <1>2 DEF Batch
  <2>2. n \in Nat
    BY LogViewAssumption
  <2>3. PICK b \in [1..n -> Lines] : logs' = AddLines(logs, b)
    BY <2>1
  <2> DEFINE s == AddLines(logs, b)
  <2>4. /\ s \in [lines : Seq(Lines), searching : {logs.searching}, query : {logs.query},
                 matches : Seq(Nat), current : Nat \ {0}, follows : {logs.follows}]
        /\ Len(s.lines) <= Cap
        /\ Enumerates(s.matches, Found(s.query, s.lines))
        /\ s.current = 1 \/ s.current \in DOMAIN s.matches
    BY <2>2, BatchFits
  <2> HIDE DEF s
  <2>5. Over(Len(logs.lines) + n) \in Nat
    <3>1. Len(logs.lines) + n \in Nat
      BY <1>t, <2>2
    <3> QED BY <3>1, OverFits
  <2>6. dropped' \in Nat
    BY <1>t, <2>1, <2>5
  <2>7. s \in [lines : Seq(Lines), searching : BOOLEAN, query : Queries \union {NoQuery},
               matches : Seq(Nat), current : Nat \ {0}, follows : BOOLEAN]
    BY <1>t, <2>4
  <2>8. logs' = s
    BY <2>3 DEF s
  <2> QED BY <2>4, <2>6, <2>7, <2>8 DEF LogsInv, LogsType
<1>3. CASE StartSearch
  <2>1. logs' = [logs EXCEPT !.searching = TRUE] /\ dropped' = dropped
    BY <1>3 DEF StartSearch, Key
  <2>2. logs' \in [lines : {logs.lines}, searching : BOOLEAN, query : {logs.query},
                  matches : {logs.matches}, current : Nat \ {0}, follows : BOOLEAN]
        /\ logs'.current = logs.current
    BY <1>t, <2>1
  <2> QED BY <1>k, <1>t, <2>1, <2>2 DEF LogsInv
<1>4. CASE EditQuery
  <2>1. PICK q \in Queries \union {NoQuery} : logs' = Edited(logs, q) /\ dropped' = dropped
    BY <1>4 DEF EditQuery, Key
  <2> DEFINE u == <<>> \o Ascending({i \in 1..Len(logs.lines) : q \in logs.lines[i]})
  <2>2. u \in Seq(Nat) /\ Enumerates(u, Found(q, logs.lines))
    BY <1>t, SearchFits
  <2> DEFINE m == [logs EXCEPT !.query = q, !.matches = <<>>, !.current = 1]
             r == Scanned(m, m.lines, 1)
  <2>3. m \in [lines : {logs.lines}, searching : {logs.searching}, query : {q},
              matches : {<<>>}, current : {1}, follows : {logs.follows}]
    BY <1>t
  <2> HIDE DEF m
  <2>4. r = [m EXCEPT !.matches = u]
    BY <2>3 DEF Scanned
  <2> HIDE DEF u, r
  <2>5. r \in [lines : {logs.lines}, searching : {logs.searching}, query : {q},
              matches : {u}, current : {1}, follows : {logs.follows}]
    BY <2>3, <2>4
  <2>6. logs' = [r EXCEPT !.follows = @ /\ r.matches = <<>>]
    BY <2>1 DEF Edited, m, r
  <2>7. logs' \in [lines : {logs.lines}, searching : {logs.searching}, query : {q},
                  matches : {u}, current : {1}, follows : BOOLEAN]
    BY <1>t, <2>5, <2>6
  <2>8. LogsType'
    BY <1>t, <2>1, <2>2, <2>7 DEF LogsType
  <2>9. /\ logs'.lines = logs.lines /\ logs'.query = q /\ logs'.matches = u /\ logs'.current = 1
    BY <2>7
  <2> QED BY <2>2, <2>8, <2>9 DEF LogsInv
<1>5. CASE EnterSearch
  <2>1. logs' = [logs EXCEPT !.searching = FALSE] /\ dropped' = dropped
    BY <1>5 DEF EnterSearch, Key
  <2>2. logs' \in [lines : {logs.lines}, searching : BOOLEAN, query : {logs.query},
                  matches : {logs.matches}, current : Nat \ {0}, follows : BOOLEAN]
        /\ logs'.current = logs.current
    BY <1>t, <2>1
  <2> QED BY <1>k, <1>t, <2>1, <2>2 DEF LogsInv
<1>6. CASE EscSearch
  <2>1. logs' = NoSearch(logs) /\ dropped' = dropped
    BY <1>6 DEF EscSearch, Key
  <2>2. logs' \in [lines : {logs.lines}, searching : BOOLEAN, query : {NoQuery},
                  matches : {<<>>}, current : {1}, follows : {logs.follows}]
    BY <1>t, <2>1 DEF NoSearch
  <2>5. <<>> \in Seq(Nat)
    OBVIOUS
  <2>3. LogsType'
    BY <1>t, <2>1, <2>2, <2>5, NoMatchesFit DEF LogsType
  <2>4. /\ logs'.lines = logs.lines /\ logs'.query = NoQuery /\ logs'.matches = <<>>
        /\ logs'.current = 1
    BY <2>2
  <2> QED BY <1>t, <2>3, <2>4, NothingMatches DEF LogsInv
<1>7. CASE StepMatch
  <2>1. PICK d \in {-1, 1} : logs' = Stepped([logs EXCEPT !.follows = FALSE], d) /\ dropped' = dropped
    BY <1>7 DEF StepMatch, Key
  <2> DEFINE m == [logs EXCEPT !.follows = FALSE]
  <2>2. m \in [lines : {logs.lines}, searching : {logs.searching}, query : {logs.query},
              matches : {logs.matches}, current : {logs.current}, follows : {FALSE}]
    BY <1>t
  <2> HIDE DEF m
  <2>3. CASE logs.matches = <<>>
    <3>1. logs' = m
      BY <2>1, <2>2, <2>3 DEF Stepped, m
    <3> QED BY <1>k, <1>t, <2>1, <2>2, <3>1 DEF LogsInv
  <2>4. CASE logs.matches # <<>>
    <3> DEFINE n == Len(logs.matches)
               i == logs.current - 1 + d + n
    <3>1. n \in Nat \ {0} /\ i \in Int /\ DOMAIN logs.matches = 1..n
      <4>1. n \in Nat \ {0} /\ DOMAIN logs.matches = 1..n
        BY <1>t, <2>4, EmptySeq
      <4> QED BY <1>t, <4>1
    <3>2. (i % n) + 1 \in 1..n
      BY <3>1, RoundFits
    <3>3. logs' = [m EXCEPT !.current = (i % n) + 1]
      BY <2>1, <2>2, <2>4 DEF Stepped, m
    <3> HIDE DEF n, i
    <3>4. logs' \in [lines : {logs.lines}, searching : {logs.searching}, query : {logs.query},
                    matches : {logs.matches}, current : {(i % n) + 1}, follows : {FALSE}]
      BY <2>2, <3>3
    <3>5. (i % n) + 1 \in Nat \ {0}
      BY <3>1, <3>2
    <3> QED BY <1>k, <1>t, <2>1, <3>1, <3>2, <3>4, <3>5
  <2> QED BY <2>3, <2>4
<1>8. CASE ToggleFollow
  <2>1. logs' = [logs EXCEPT !.follows = ~@] /\ dropped' = dropped
    BY <1>8 DEF ToggleFollow, Key
  <2>2. logs' \in [lines : {logs.lines}, searching : BOOLEAN, query : {logs.query},
                  matches : {logs.matches}, current : Nat \ {0}, follows : BOOLEAN]
        /\ logs'.current = logs.current
    BY <1>t, <2>1
  <2> QED BY <1>k, <1>t, <2>1, <2>2 DEF LogsInv
<1>9. CASE Scroll
  <2>1. logs' = [logs EXCEPT !.follows = FALSE] /\ dropped' = dropped
    BY <1>9 DEF Scroll, Key
  <2>2. logs' \in [lines : {logs.lines}, searching : BOOLEAN, query : {logs.query},
                  matches : {logs.matches}, current : Nat \ {0}, follows : BOOLEAN]
        /\ logs'.current = logs.current
    BY <1>t, <2>1
  <2> QED BY <1>k, <1>t, <2>1, <2>2 DEF LogsInv
<1>10. CASE CloseLogs \/ UNCHANGED logVars
  BY <1>10 DEF CloseLogs, logVars, LogsInv, LogsType
<1> QED BY <1>1, <1>2, <1>3, <1>4, <1>5, <1>6, <1>7, <1>8, <1>9, <1>10 DEF LogsNext

\* A batch leaves the current match on its line (shiftMatches).
LEMMA LineStays ==
  ASSUME LogsInv, Batch, logs.matches # <<>>
  PROVE  IF CurrentLine > dropped' THEN CurrentLine' = CurrentLine ELSE logs'.current = 1
<1>1. PICK n \in 1..BatchMax : \E b \in [1..n -> Lines] :
        logs' = AddLines(logs, b) /\ dropped' = dropped + Over(Len(logs.lines) + n)
  BY DEF Batch
<1>2. n \in Nat
  BY LogViewAssumption
<1>3. PICK b \in [1..n -> Lines] : logs' = AddLines(logs, b)
  BY <1>1
<1> DEFINE over == Over(Len(logs.lines) + n)
           l == logs.matches[logs.current]
<1>4. IF l > over THEN logs'.matches[logs'.current] = l - over ELSE logs'.current = 1
  BY <1>2, <1>3, BatchFits
<1>5. over \in Nat
  <2>1. Len(logs.lines) + n \in Nat
    BY <1>2 DEF LogsInv, LogsType
  <2> QED BY <2>1, OverFits
<1>6. l \in Nat
  <2>1. logs.matches \in Seq(Nat)
    BY DEF LogsInv, LogsType
  <2>2. 1 \in DOMAIN logs.matches
    <3>1. Len(logs.matches) \in Nat \ {0}
      BY <2>1, EmptySeq
    <3> QED BY <2>1, <3>1
  <2> QED BY <2>1, <2>2 DEF LogsInv
<1> HIDE DEF over, l
<1>7. dropped \in Nat /\ dropped' = dropped + over /\ CurrentLine = dropped + l
  BY <1>1 DEF LogsInv, LogsType, CurrentLine, over, l
<1>8. CurrentLine' = dropped' + logs'.matches[logs'.current]
  BY DEF CurrentLine
<1>9. CurrentLine > dropped' <=> l > over
  BY <1>5, <1>6, <1>7
<1> QED BY <1>4, <1>5, <1>6, <1>7, <1>8, <1>9

-----------------------------------------------------------------------------
(* The panels together. *)

AllInv == IInv /\ LogsInv /\ FilesInv

LEMMA AllStep == AllInv /\ [PanelsNext]_panelVars => AllInv'
<1> SUFFICES ASSUME AllInv, [PanelsNext]_panelVars PROVE AllInv'
  OBVIOUS
<1>1. [Next]_vars /\ [LogsNext]_logVars /\ [FilesNext]_fsVars
  BY DEF PanelsNext, panelVars
<1>2. IInv'
  BY <1>1, TypeStep, KeyStep, PanelStep DEF AllInv, IInv
<1>3. LogsInv'
  BY <1>1, LogsStep DEF AllInv
<1>4. FilesInv'
  BY <1>1, FilesStep DEF AllInv
<1> QED BY <1>2, <1>3, <1>4 DEF AllInv

THEOREM AllInvariance == PanelsSpec => []AllInv
<1>1. PanelsInit => AllInv
  BY TypeInit, KeyInit, PanelInit, LogsStart, FilesStart DEF AllInv, IInv, PanelsInit
<1> QED BY <1>1, AllStep, PTL DEF PanelsSpec

\* The log viewer's search stays what a search of the whole buffer finds, whatever
\* has been pushed out; the file browser shows the directory it names.
THEOREM ViewersCorrect == PanelsSpec => []ViewersRight
<1>1. AllInv => ViewersRight
  BY LogsSuffice, FilesSuffices DEF AllInv, ViewersRight
<1> QED BY <1>1, AllInvariance, PTL

\* The shell among the panels is as right as alone.
THEOREM PanelsCorrect == PanelsSpec => []PanelRight
<1>1. AllInv => PanelRight
  BY Ordered, OneReader DEF AllInv, IInv, PanelRight
<1> QED BY <1>1, AllInvariance, PTL

\* A batch moves the cursor only off a line that it pushes out (shiftMatches).
THEOREM MatchesStay == PanelsSpec => MatchStays
<1>1. AllInv /\ [PanelsNext]_panelVars =>
        [(Batch /\ logs.matches # <<>> /\ logs'.matches # <<>>) =>
           IF CurrentLine > dropped' THEN CurrentLine' = CurrentLine
           ELSE logs'.current = 1]_logVars
  BY LineStays DEF AllInv
<1> QED BY <1>1, AllInvariance, PTL DEF PanelsSpec, MatchStays
=============================================================================
