------------------------------ MODULE ReportDb ------------------------------
(* openstack/hostreport/report_db.py: the lines of a drop log summarised over
   intervals.  A line is its time; its flow, which lines are grouped by within an
   interval, is left out. *)
EXTENDS Naturals, Sequences, SequencesExt

CONSTANTS
    LastTime,       \* LAST_TIME; FIRST_TIME is 0
    Logs,           \* drop logs: sequences of times
    Windows,        \* options: [start, stop, delta]
    August          \* times that parse_date_time fails on

Times == 0..LastTime

ASSUME LogAssumption ==
    /\ LastTime \in Nat
    /\ Logs \subseteq Seq(Times) /\ August \subseteq Times
    /\ Windows \subseteq [start : Times, stop : Times, delta : 1..LastTime]

VARIABLES
    log,            \* the file
    window,         \* the options
    at,             \* the next line
    intervals       \* self.intervals; "filed" are the lines of "summarized"

reportVars == <<log, window, at, intervals>>

ReportTypeOK ==
    /\ log \in Seq(Times) /\ window \in [start : Times, stop : Times, delta : Times]
    /\ at \in 1..(Len(log) + 1)
    /\ intervals \in Seq([start : Times, stop : Times, filed : Seq(DOMAIN log)])

ReportIdle ==
    /\ log = <<>> /\ window = [start |-> 0, stop |-> 0, delta |-> 0]
    /\ at = 1 /\ intervals = <<>>

\* The process ends: with its output, or by a KeyError.
ReportExit ==
    /\ intervals # <<>>
    /\ at \in DOMAIN log => log[at] \in August
    /\ log' = <<>> /\ window' = [start |-> 0, stop |-> 0, delta |-> 0]
    /\ at' = 1 /\ intervals' = <<>>

\* Mutant: an interval is as long as it is asked for.
IntervalUnclipped(start, w) ==
    [start |-> start, filed |-> <<>>, stop |-> start + w.delta]

\* DropLogSummaryInterval: it ends with the window, and a sum beyond the last
\* time is an OverflowError.
Interval(start, w) ==
    [start |-> start, filed |-> <<>>,
     stop |-> Min({w.stop, start + w.delta, LastTime})]

Summarize(file, w) ==
    /\ intervals = <<>>
    /\ {w.start, w.stop} \cap August = {}
    /\ log' = file /\ window' = w /\ at' = 1
    /\ intervals' = <<Interval(w.start, w)>>

Time == log[at]

\* The intervals, with one more if the line is after the current one.
Opened ==
    IF Time > Last(intervals).stop
    THEN Append(intervals, Interval(Last(intervals).stop, window)) ELSE intervals

InWindow(t) == t >= window.start /\ t <= window.stop
Breaks(t) == t >= window.start /\ t > window.stop

\* Mutant: a line is filed before the interval is advanced.
SummarizeLineFirst ==
    /\ intervals # <<>> /\ at <= Len(log) /\ Time \notin August
    /\ intervals' = IF InWindow(Time)
                    THEN [Opened EXCEPT ![Len(intervals)].filed = Append(@, at)] ELSE Opened
    /\ at' = IF Breaks(Time) THEN Len(log) + 1 ELSE at + 1
    /\ UNCHANGED <<log, window>>

\* Mutant: a line after the window does not end the loop.
SummarizeLineContinues ==
    /\ intervals # <<>> /\ at <= Len(log) /\ Time \notin August
    /\ intervals' = IF InWindow(Time)
                    THEN [Opened EXCEPT ![Len(Opened)].filed = Append(@, at)] ELSE Opened
    /\ at' = at + 1
    /\ UNCHANGED <<log, window>>

SummarizeLine ==
    /\ intervals # <<>> /\ at <= Len(log) /\ Time \notin August
    /\ intervals' = IF InWindow(Time)
                    THEN [Opened EXCEPT ![Len(Opened)].filed = Append(@, at)] ELSE Opened
    /\ at' = IF Breaks(Time) THEN Len(log) + 1 ELSE at + 1
    /\ UNCHANGED <<log, window>>

\* _show_drops for all tables: the lines it prints.
Shown == {k \in DOMAIN log : InWindow(log[k]) /\ \A j \in 1..(k - 1) : ~Breaks(log[j])}

ReportStart == \E file \in Logs, w \in Windows : Summarize(file, w)
ReportStep == SummarizeLine \/ ReportExit

----------------------------------------------------------------------------
Summed == intervals # <<>> /\ at > Len(log)
Filed == FlattenSeq([i \in DOMAIN intervals |-> intervals[i].filed])
Sorted == \A k \in 2..Len(log) : log[k - 1] <= log[k]

\* A summary counts the lines that show prints for the same times, each of them
\* in one interval, whether the log is sorted or not, and whatever the intervals.
SummaryCountsShown == Summed => IsInjective(Filed) /\ ToSet(Filed) = Shown

\* The intervals follow one another.  Of a sorted log no line is counted too late,
\* and lines that are counted together all belong there.  That each is counted at its
\* own time, as openstack/hostreport/README.md:66 says ("Summarize logs for each
\* second"), is not so: after a gap of several intervals one is added, and the line is
\* counted there, too early, though not with lines of that time.
CountsOfOneInterval ==
    /\ \A i \in 2..Len(intervals) : intervals[i].start = intervals[i - 1].stop
    /\ Sorted => \A i \in DOMAIN intervals : \A j, k \in ToSet(intervals[i].filed) :
          /\ log[k] >= intervals[i].start
          /\ j # k => log[k] <= intervals[i].stop

============================================================================
