------------------------------ MODULE LogView ------------------------------
(***************************************************************************)
(* The log viewer's buffer and search (internal/ui/logs), and the keys of  *)
(* its window (handleLogs).                                                *)
(*                                                                         *)
(* The buffer is capped; batches push its oldest lines out while a search  *)
(* is on, whose matches are positions in the buffer and are carried over   *)
(* instead of searched again.  A line is the set of queries found in it.   *)
(* Where the viewport stands is left out.  Streams has who sends batches.  *)
(***************************************************************************)
EXTENDS Integers, Sequences, SequencesExt

CONSTANTS Queries,      \* what is typed into the search
          NoQuery,
          Cap,          \* maxBufferLines
          BatchMax,     \* bound: lines of a batch
          MaxLines      \* bound: lines after an Open

ASSUME LogViewAssumption ==
  /\ NoQuery \notin Queries /\ {Cap, BatchMax, MaxLines} \subseteq Nat \ {0}

VARIABLES
  logs,     \* logs.Model: [lines, searching, query, matches, current, follows]
  dropped,  \* the lines pushed out since Open
  viewing   \* whether the mode is ModeLogs

logVars == <<logs, dropped, viewing>>

Lines == SUBSET Queries

\* resetSearch.
NoSearch(m) == [m EXCEPT !.searching = FALSE, !.query = NoQuery, !.matches = <<>>,
                         !.current = 1]

\* New, Open.
Emptied == [lines |-> <<>>, searching |-> FALSE, query |-> NoQuery,
            matches |-> <<>>, current |-> 1, follows |-> TRUE]

LogsInit == logs = Emptied /\ dropped = 0 /\ viewing = FALSE

\* logsOpenedMsg, opStartedMsg: whatever the viewer shows.
OpenLogs ==
  /\ logs' = Emptied /\ dropped' = 0 /\ viewing' = TRUE
-----------------------------------------------------------------------------
(* A batch. *)

Over(n) == IF n > Cap THEN n - Cap ELSE 0

\* Positions, in the order a loop over the buffer meets them.
Ascending(P) == CHOOSE s \in SetToSeqs(P) : \A i, j \in DOMAIN s : i < j => s[i] < s[j]

\* Where appendMatches scans the lines ls from.
Scanned(m, ls, from) ==
  [m EXCEPT !.matches = @ \o Ascending({i \in from..Len(ls) : m.query \in ls[i]})]

\* Mutant: the current match keeps its number, whatever went before it.
KeptNumber(m, gone) == m.current
\* The number of the current match once the first ones are gone.
Renumbered(m, gone) == IF m.current - gone >= 1 THEN m.current - gone ELSE 1

\* What is left of the matches s once n lines have gone.
Kept(s, n) == LET at == Ascending({j \in DOMAIN s : s[j] > n})
              IN [k \in DOMAIN at |-> s[at[k]]]

\* shiftMatches.
Shifted(m, n) ==
  LET kept == Kept(m.matches, n)
      cur  == Renumbered(m, Len(m.matches) - Len(kept))
  IN IF n = 0 \/ m.matches = <<>> THEN m
     ELSE [m EXCEPT !.matches = [j \in DOMAIN kept |-> kept[j] - n],
                    !.current = IF cur > Len(kept) THEN 1 ELSE cur]

\* Mutant: the scan starts where the lines ended before the trim.
ScanFromOld(old, over) == old + 1
\* The first line of the batch that is still there.
ScanFrom(old, over) == IF old > over THEN old - over + 1 ELSE 1

\* AddLines, trimToCap.
AddLines(m, batch) ==
  LET all  == m.lines \o batch
      over == Over(Len(all))
      ls   == SubSeq(all, over + 1, Len(all))
      s    == IF m.query = NoQuery THEN m
              ELSE Scanned(Shifted(m, over), ls, ScanFrom(Len(m.lines), over))
  IN [s EXCEPT !.lines = ls]

\* LinesMsg, opLinesMsg, opDoneMsg: also once the window has gone.
Batch ==
  \E n \in 1..BatchMax : \E b \in [1..n -> Lines] :
    /\ dropped + Len(logs.lines) + n <= MaxLines
    /\ logs' = AddLines(logs, b)
    /\ dropped' = dropped + Over(Len(logs.lines) + n)
    /\ UNCHANGED viewing
-----------------------------------------------------------------------------
(* Keys. *)

Key(m) == viewing /\ logs' = m /\ UNCHANGED <<dropped, viewing>>

\* "/".
StartSearch == ~logs.searching /\ Key([logs EXCEPT !.searching = TRUE])

\* A key in the search bar: recomputeMatches.
Edited(m, q) ==
  LET s == Scanned([m EXCEPT !.query = q, !.matches = <<>>, !.current = 1], m.lines, 1)
  IN [s EXCEPT !.follows = @ /\ s.matches = <<>>]
EditQuery == \E q \in Queries \union {NoQuery} :
               logs.searching /\ Key(Edited(logs, q))

\* Enter keeps the search, Esc drops it.
EnterSearch == logs.searching /\ Key([logs EXCEPT !.searching = FALSE])
EscSearch   == (logs.searching \/ logs.query # NoQuery) /\ Key(NoSearch(logs))

\* n, N: stepMatch.
Stepped(m, d) ==
  IF m.matches = <<>> THEN m
  ELSE [m EXCEPT !.current = ((@ - 1 + d + Len(m.matches)) % Len(m.matches)) + 1]
StepMatch == \E d \in {-1, 1} :
               ~logs.searching /\ Key(Stepped([logs EXCEPT !.follows = FALSE], d))

\* f; and the keys that scroll.
ToggleFollow == ~logs.searching /\ Key([logs EXCEPT !.follows = ~@])
Scroll       == ~logs.searching /\ Key([logs EXCEPT !.follows = FALSE])

\* q, and Esc when there is no search to drop.
CloseLogs ==
  /\ viewing /\ ~logs.searching /\ viewing' = FALSE
  /\ UNCHANGED <<logs, dropped>>

LogsNext ==
  \/ OpenLogs \/ Batch \/ StartSearch \/ EditQuery \/ EnterSearch \/ EscSearch
  \/ StepMatch \/ ToggleFollow \/ Scroll \/ CloseLogs
-----------------------------------------------------------------------------
\* What is carried over from batch to batch is what a search of the whole buffer
\* would find, the current match is one of them (renderContent reads it without
\* a check), and the buffer stays within its cap.
SearchRight ==
  /\ Len(logs.lines) <= Cap
  /\ logs.matches = Ascending({i \in DOMAIN logs.lines : logs.query \in logs.lines[i]})
  /\ logs.matches # <<>> => logs.current \in DOMAIN logs.matches

\* The line the current match is on, counted from Open.
CurrentLine == dropped + logs.matches[logs.current]

\* "Keeping the current-match cursor on the same line where possible"
\* (shiftMatches): a batch moves it only off a line that is pushed out, and then
\* to the oldest match left.
MatchStays ==
  [][(Batch /\ logs.matches # <<>> /\ logs'.matches # <<>>) =>
       IF CurrentLine > dropped' THEN CurrentLine' = CurrentLine
       ELSE logs'.current = 1]_logVars
=============================================================================
