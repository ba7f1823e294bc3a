----------------------------- MODULE TCPMonitor -----------------------------
(***************************************************************************)
(* startTCPMonitoring of internal/gcsx/garbage_collect.go: a goroutine     *)
(* that waits on a ticker or on its context; on each tick it reads         *)
(* /proc/net/tcp, splits it into lines, skips the header line, splits each *)
(* other line into whitespace-separated fields and counts a line with at   *)
(* least four fields as active when its fourth field (the connection       *)
(* state) is "01" (ESTABLISHED) and as idle otherwise.                     *)
(*                                                                         *)
(* The file's text is a sequence of characters over a small alphabet: the  *)
(* digits 0 and 1, a space and a newline. strings.Split and strings.Fields *)
(* are modelled by what they do on that text, as left folds written as     *)
(* recursive functions over the length of the prefix read so far.          *)
(***************************************************************************)
EXTENDS Naturals, Sequences, FiniteSets

CONSTANTS
  Files,     \* the contents ReadFile may return (sequences over Chars)
  MaxTicks   \* bound on the ticks of the model's ticker

NL == "newline"
SP == "space"
Chars == {"0", "1", SP, NL}

ASSUME FilesAssumption == Files \subseteq Seq(Chars)
ASSUME MaxTicksAssumption == MaxTicks \in Nat

NoReport == [Active |-> 0, Idle |-> 0, none |-> TRUE]

VARIABLES
  ctxDone,   \* the context has been cancelled
  tick,      \* a tick is buffered in ticker.C (capacity 1)
  ticks,     \* ticks the ticker has fired so far (bounded)
  mon,       \* "waiting" in the select, or "stopped" (returned)
  file,      \* the last content read from /proc/net/tcp
  report     \* the TCPStats of the last Infof, or NoReport

vars == <<ctxDone, tick, ticks, mon, file, report>>

-----------------------------------------------------------------------------
(* strings.Split(s, "\n"): n separators give n + 1 pieces, so the result   *)
(* always has a first element, and a trailing newline gives an empty last  *)
(* line.                                                                   *)
SplitStep(acc, c) ==
  IF c = NL THEN Append(acc, << >>)
            ELSE [acc EXCEPT ![Len(acc)] = Append(@, c)]

\* SplitPrefix(s)[i]: the pieces of the first i characters of s.
SplitPrefix(s) ==
  LET f[i \in 0..Len(s)] ==
        IF i = 0 THEN << << >> >> ELSE SplitStep(f[i - 1], s[i])
  IN  f

Split(s) == SplitPrefix(s)[Len(s)]

(* strings.Fields(line): the maximal runs of non-space characters.         *)
FieldsStep(st, c) ==
  IF c = SP THEN [st EXCEPT !.inField = FALSE]
  ELSE IF st.inField
       THEN [st EXCEPT !.fields[Len(st.fields)] = Append(@, c)]
       ELSE [fields |-> Append(st.fields, <<c>>), inField |-> TRUE]

\* FieldsPrefix(line)[i]: the scan's state after the first i characters.
FieldsPrefix(line) ==
  LET f[i \in 0..Len(line)] ==
        IF i = 0 THEN [fields |-> << >>, inField |-> FALSE]
                 ELSE FieldsStep(f[i - 1], line[i])
  IN  f

Fields(line) == FieldsPrefix(line)[Len(line)].fields

\* Mutant: a line with exactly four fields is skipped.
CountLineShort(stats, line) ==
  LET fields == Fields(line) IN
  IF Len(fields) <= 4 THEN stats
  ELSE IF fields[4] = <<"0", "1">> THEN [stats EXCEPT !.Active = @ + 1]
                                   ELSE [stats EXCEPT !.Idle = @ + 1]

(* The body of the range loop over lines[1:]: a line with fewer than four  *)
(* fields is skipped; otherwise state "01" is active and any other idle.   *)
CountLine(stats, line) ==
  LET fields == Fields(line) IN
  IF Len(fields) < 4 THEN stats
  ELSE IF fields[4] = <<"0", "1">> THEN [stats EXCEPT !.Active = @ + 1]
                                   ELSE [stats EXCEPT !.Idle = @ + 1]

\* CountPrefix(stats, lines)[i]: the counts after the loop body has run on
\* the first i lines, starting from stats.
CountPrefix(stats, lines) ==
  LET f[i \in 0..Len(lines)] ==
        IF i = 0 THEN stats ELSE CountLine(f[i - 1], lines[i])
  IN  f

\* Mutant: stats is declared once outside the loop and never reset, so
\* each interval's counts add to the previous ones.
StatsNoReset(data) ==
  LET lines == Tail(Split(data)) IN
  CountPrefix([report EXCEPT !.none = FALSE], lines)[Len(lines)]

\* stats := TCPStats{}, then the loop over lines[1:] (Tail of a non-empty
\* sequence, since Split never returns an empty one).
Stats(data) ==
  LET lines == Tail(Split(data)) IN
  CountPrefix([Active |-> 0, Idle |-> 0, none |-> FALSE], lines)[Len(lines)]

-----------------------------------------------------------------------------
(* A reference definition of the counts, over character positions and      *)
(* without folds: line k of the text is the characters with k - 1 newlines *)
(* before them, a field starts at a non-space whose predecessor on the     *)
(* line is a space or absent, and the fourth field is "01" when it is the  *)
(* two characters 0 and 1 followed by a space or the end of the line.      *)
LinePos(d, k) ==
  {i \in DOMAIN d : d[i] # NL /\ Cardinality({j \in 1..(i - 1) : d[j] = NL}) = k - 1}

FieldStarts(d, k) ==
  {i \in LinePos(d, k) : d[i] # SP /\ (i - 1 \notin LinePos(d, k) \/ d[i - 1] = SP)}

FourthIs01(d, k) ==
  \E s \in FieldStarts(d, k) :
    /\ Cardinality({t \in FieldStarts(d, k) : t < s}) = 3
    /\ d[s] = "0" /\ s + 1 \in LinePos(d, k) /\ d[s + 1] = "1"
    /\ (s + 2 \notin LinePos(d, k) \/ d[s + 2] = SP)

RefStats(d) ==
  LET lines == 1 + Cardinality({i \in DOMAIN d : d[i] = NL})
      counted == {k \in 2..lines : Cardinality(FieldStarts(d, k)) >= 4}
  IN [Active |-> Cardinality({k \in counted : FourthIs01(d, k)}),
      Idle |-> Cardinality({k \in counted : ~FourthIs01(d, k)}),
      none |-> FALSE]

-----------------------------------------------------------------------------
(* The loop.                                                               *)

Init ==
  /\ ctxDone = FALSE
  /\ tick = FALSE
  /\ ticks = 0
  /\ mon = "waiting"
  /\ file = << >>
  /\ report = NoReport

\* The ticker fires; a tick is dropped while the previous one is buffered.
Tick ==
  /\ ticks < MaxTicks
  /\ ticks' = ticks + 1
  /\ tick' = TRUE
  /\ UNCHANGED <<ctxDone, mon, file, report>>

Cancel ==
  /\ ~ctxDone
  /\ ctxDone' = TRUE
  /\ UNCHANGED <<tick, ticks, mon, file, report>>

\* The select receives from ctx.Done and the goroutine returns.
Stop ==
  /\ mon = "waiting"
  /\ ctxDone
  /\ mon' = "stopped"
  /\ UNCHANGED <<ctxDone, tick, ticks, file, report>>

\* The select receives a tick and os.ReadFile fails: the tick is skipped.
ReadFails ==
  /\ mon = "waiting"
  /\ tick
  /\ tick' = FALSE
  /\ UNCHANGED <<ctxDone, ticks, mon, file, report>>

\* The select receives a tick, the file is read and parsed and the counts
\* are logged.
Monitor(data) ==
  /\ mon = "waiting"
  /\ tick
  /\ tick' = FALSE
  /\ file' = data
  /\ report' = Stats(data)
  /\ UNCHANGED <<ctxDone, ticks, mon>>

Next ==
  \/ Tick \/ Cancel \/ Stop \/ ReadFails
  \/ \E d \in Files : Monitor(d)

\* Only safety is checked of the monitor, so no fairness is assumed.
Spec == Init /\ [][Next]_vars

-----------------------------------------------------------------------------
(* Properties.                                                             *)

\* Every count the monitor logs is the number of established and of other
\* connection lines of the file it read, below the header, among the lines
\* that have a state field: the Split, the lines[1:] slice, the Fields and
\* the len(fields) < 4 test of startTCPMonitoring agree with the definition.
ReportMatchesReference ==
  report # NoReport => report = RefStats(file)

=============================================================================
