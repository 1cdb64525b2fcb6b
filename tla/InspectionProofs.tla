-------------------------- MODULE InspectionProofs --------------------------
(* Safety of the tools that only read, for any dumps, logs and options: what a
   command has shown when it ends. *)
EXTENDS Inspection, SequenceFacts

----------------------------------------------------------------------------
(* The summary of a drop log *)

LEMMA MinFacts ==
    ASSUME NEW T \in SUBSET Nat, T # {}
    PROVE  Min(T) \in T /\ \A x \in T : Min(T) <= x
BY LeastNatural DEF Min

Window == [start : Times, stop : Times, delta : Times]
IntervalOver(lines) == [start : Times, stop : Times, filed : Seq(lines)]

\* An interval ends within the window, and not before it starts.
LEMMA IntervalFacts ==
    ASSUME NEW start \in Times, NEW w \in Window, NEW lines
    PROVE  /\ Interval(start, w) \in IntervalOver(lines)
           /\ Interval(start, w).start = start /\ Interval(start, w).filed = <<>>
<1> DEFINE ends == {w.stop, start + w.delta, LastTime}
           t == Min(ends)
<1>1. ends \in SUBSET Nat /\ ends # {} /\ LastTime \in ends /\ LastTime \in Nat
    BY LogAssumption DEF Times, Window
<1>2. t \in ends /\ t <= LastTime /\ t \in Nat
    <2> HIDE DEF ends
    <2> QED BY <1>1, MinFacts
<1>3. t \in Times
    <2> HIDE DEF t
    <2> QED BY <1>1, <1>2 DEF Times
<1>4. Interval(start, w) = [start |-> start, filed |-> <<>>, stop |-> t]
    BY DEF Interval
<1> HIDE DEF t
<1> QED BY <1>3, <1>4 DEF IntervalOver

Filed0 == [i \in 1..(Len(intervals) + 1) |-> IF i <= Len(intervals) THEN intervals[i].filed ELSE <<>>]

\* One turn of the loop over the lines: an interval more if the line is after the
\* last one, and the line in the last one if it is in the window.
LineTaken(n, m) ==
    /\ n \in Nat \ {0} /\ n = Len(intervals)
    /\ m = Len(intervals') /\ m = (IF Time > intervals[n].stop THEN n + 1 ELSE n)
    /\ \A i \in 1..n : intervals'[i].start = intervals[i].start /\ intervals'[i].stop = intervals[i].stop
    /\ m = n + 1 => intervals'[m].start = intervals[n].stop
    /\ \A i \in 1..m :
          intervals'[i].filed = IF i = m /\ InWindow(Time) THEN Append(Filed0[i], at) ELSE Filed0[i]

LEMMA LineFacts ==
    ASSUME ReportTypeOK, SummarizeLine
    PROVE  /\ intervals' \in Seq(IntervalOver(DOMAIN log))
           /\ LineTaken(Len(intervals), Len(intervals'))
<1> DEFINE n == Len(intervals)
           m == Len(Opened)
           I == IntervalOver(DOMAIN log)
<1>1. /\ intervals \in Seq(I) /\ n \in Nat \ {0} /\ \A i \in 1..n : intervals[i] \in I
      /\ at \in DOMAIN log /\ Time \in Times /\ window \in Window
    <2>1. log \in Seq(Times) /\ at \in 1..Len(log) /\ DOMAIN log = 1..Len(log)
        BY DEF ReportTypeOK, SummarizeLine
    <2>2. intervals \in Seq(I) /\ intervals # <<>>
        BY DEF ReportTypeOK, SummarizeLine, IntervalOver
    <2> QED BY <2>1, <2>2 DEF ReportTypeOK, Window, Time
<1>2. Last(intervals) = intervals[n]
    BY <1>1 DEF Last
<1> DEFINE new == Interval(intervals[n].stop, window)
<1>3. new \in I /\ new.start = intervals[n].stop /\ new.filed = <<>>
    <2>1. intervals[n].stop \in Times
        BY <1>1 DEF IntervalOver
    <2> HIDE DEF n
    <2> QED BY <1>1, <2>1, IntervalFacts
<1>4. /\ Opened \in Seq(I) /\ m = (IF Time > intervals[n].stop THEN n + 1 ELSE n)
      /\ \A i \in 1..n : Opened[i] = intervals[i]
      /\ m = n + 1 => Opened[m] = new
    <2> HIDE DEF I, new
    <2>1. CASE Time > intervals[n].stop
        <3>1. Opened = Append(intervals, new)
            BY <1>2, <2>1 DEF Opened, new
        <3> QED BY <1>1, <1>3, <2>1, <3>1, AppendProperties
    <2>2. CASE ~(Time > intervals[n].stop)
        <3>1. Opened = intervals
            BY <1>2, <2>2 DEF Opened
        <3>2. n + 1 # n
            BY <1>1
        <3> QED BY <1>1, <2>2, <3>1, <3>2
    <2> QED BY <2>1, <2>2
<1> HIDE DEF new, m
<1>5. m \in Nat \ {0} /\ m \in 1..m /\ (m = n \/ m = n + 1) /\ m \in 1..Len(Opened)
    BY <1>1, <1>4 DEF m
<1>6. \A i \in 1..m : Opened[i] \in I /\ Opened[i].filed = Filed0[i] /\ Opened[i].filed \in Seq(DOMAIN log)
    <2> SUFFICES ASSUME NEW i \in 1..m
                 PROVE  Opened[i] \in I /\ Opened[i].filed = Filed0[i] /\ Opened[i].filed \in Seq(DOMAIN log)
        OBVIOUS
    <2>1. i \in 1..n \/ (i = n + 1 /\ i = m)
        BY <1>1, <1>5
    <2>2. i \in 1..(n + 1) /\ (i \in 1..n <=> i <= n)
        BY <1>1, <2>1
    <2>3. Filed0[i] = IF i <= n THEN intervals[i].filed ELSE <<>>
        BY <2>2 DEF Filed0
    <2>4. CASE i \in 1..n
        <3>1. Opened[i] = intervals[i] /\ Filed0[i] = intervals[i].filed
            BY <1>4, <2>2, <2>3, <2>4
        <3>2. intervals[i] \in I
            BY <1>1, <2>4
        <3> QED BY <3>1, <3>2 DEF IntervalOver
    <2>5. CASE i = n + 1 /\ i = m
        <3>1. Opened[i] = new /\ ~(i <= n) /\ Filed0[i] = <<>>
            BY <1>1, <1>4, <2>3, <2>5
        <3> HIDE DEF n
        <3> QED BY <1>3, <3>1 DEF IntervalOver
    <2> QED BY <2>1, <2>4, <2>5
<1> DEFINE filed == Append(Filed0[m], at)
           last == [Opened[m] EXCEPT !.filed = filed]
<1>7. filed \in Seq(DOMAIN log)
    BY <1>1, <1>5, <1>6
<1>8. last \in I /\ last.filed = filed /\ last.start = Opened[m].start /\ last.stop = Opened[m].stop
    <2> HIDE DEF filed
    <2> QED BY <1>5, <1>6, <1>7 DEF IntervalOver
<1>9. CASE InWindow(Time)
    <2>1. intervals' = [Opened EXCEPT ![m] = last]
        BY <1>5, <1>6, <1>9 DEF SummarizeLine, m
    <2>2. /\ intervals' \in Seq(I) /\ Len(intervals') = m
          /\ \A i \in 1..m : intervals'[i] = IF i = m THEN last ELSE Opened[i]
        <3> HIDE DEF I, last
        <3> QED BY <1>4, <1>5, <1>8, <2>1, ExceptSeq DEF m
    <2> HIDE DEF last, I
    <2>3. \A i \in 1..n : i \in 1..m /\ (i = m => Opened[m] = intervals[i])
        BY <1>1, <1>4, <1>5
    <2>4. \A i \in 1..n : intervals'[i].start = intervals[i].start /\ intervals'[i].stop = intervals[i].stop
        <3> HIDE DEF n, filed
        <3> QED BY <1>4, <1>8, <2>2, <2>3
    <2>5. m = n + 1 => intervals'[m].start = intervals[n].stop
        <3> HIDE DEF n, filed
        <3> QED BY <1>3, <1>4, <1>5, <1>8, <2>2
    <2>6. \A i \in 1..m : intervals'[i].filed = IF i = m THEN filed ELSE Filed0[i]
        <3> HIDE DEF n, filed
        <3> QED BY <1>6, <1>8, <2>2
    <2> QED BY <1>1, <1>4, <1>9, <2>2, <2>4, <2>5, <2>6 DEF LineTaken, I
<1>10. CASE ~InWindow(Time)
    <2>1. intervals' = Opened
        BY <1>10 DEF SummarizeLine
    <2> QED BY <1>1, <1>3, <1>4, <1>5, <1>6, <1>10, <2>1 DEF LineTaken, m
<1> QED BY <1>9, <1>10

LEMMA LineType == ReportTypeOK /\ SummarizeLine => ReportTypeOK'
<1> SUFFICES ASSUME ReportTypeOK, SummarizeLine PROVE ReportTypeOK'
    OBVIOUS
<1>1. intervals' \in Seq(IntervalOver(DOMAIN log))
    BY LineFacts
<1>2. at' \in 1..(Len(log) + 1)
    <2>1. Len(log) \in Nat /\ at \in 1..(Len(log) + 1) /\ at <= Len(log)
        BY DEF ReportTypeOK, SummarizeLine
    <2>2. at' = Len(log) + 1 \/ at' = at + 1
        BY DEF SummarizeLine
    <2> QED BY <2>1, <2>2
<1> QED BY <1>1, <1>2 DEF ReportTypeOK, SummarizeLine, IntervalOver

LEMMA IdleReportType == ReportIdle => ReportTypeOK
<1> SUFFICES ASSUME ReportIdle PROVE ReportTypeOK
    OBVIOUS
<1>1. 0 \in Times /\ Len(<<>>) = 0 /\ 1 \in 1..(0 + 1)
    BY LogAssumption DEF Times
<1> QED BY <1>1 DEF ReportIdle, ReportTypeOK

LEMMA SummarizeType ==
    ASSUME NEW file \in Logs, NEW w \in Windows, Summarize(file, w)
    PROVE  ReportTypeOK' /\ intervals' = <<Interval(w.start, w)>> /\ w.start \in Times /\ w \in Window
<1>1. w \in Window /\ w.start \in Times
    <2>1. 1..LastTime \subseteq Times
        BY LogAssumption DEF Times
    <2> QED BY <2>1, LogAssumption DEF Window
<1>2. Interval(w.start, w) \in IntervalOver(DOMAIN file)
    BY <1>1, IntervalFacts
<1>3. file \in Seq(Times)
    BY LogAssumption
<1>4. 1 \in 1..(Len(file) + 1)
    BY <1>3
<1> QED BY <1>1, <1>2, <1>3, <1>4 DEF Summarize, ReportTypeOK, Window, IntervalOver

----------------------------------------------------------------------------
(* Every line in an interval that it belongs to. *)

\* In a sorted log no line of an interval is before it, and if one is after it,
\* it is the only one.
Proper(interval) ==
    \A k \in ToSet(interval.filed) :
        /\ log[k] >= interval.start
        /\ log[k] <= interval.stop \/ Len(interval.filed) = 1

Chained ==
    intervals # <<>> =>
        /\ intervals[1].start = window.start
        /\ \A i \in 2..Len(intervals) : intervals[i].start = intervals[i - 1].stop

\* The next line of a sorted log is not before those of the last interval, nor
\* before the interval, unless it is the first.
InOrder ==
    Sorted =>
        /\ \A i \in 1..Len(intervals) : Proper(intervals[i])
        /\ intervals # <<>> /\ at <= Len(log) =>
               /\ \A k \in ToSet(intervals[Len(intervals)].filed) : log[k] <= log[at]
               /\ Len(intervals) = 1 \/ intervals[Len(intervals)].start <= log[at]

\* The lines that show prints are filed, as far as the loop has come.
FiledSoFar ==
    /\ \A i \in 1..Len(intervals) : IsInjective(intervals[i].filed)
    /\ \A i, j \in 1..Len(intervals) :
          i # j => ToSet(intervals[i].filed) \cap ToSet(intervals[j].filed) = {}
    /\ intervals # <<>> =>
          UNION {ToSet(intervals[i].filed) : i \in 1..Len(intervals)} = {k \in Shown : k < at}
    /\ at <= Len(log) => \A j \in 1..(at - 1) : ~Breaks(log[j])

ReportInv == ReportTypeOK /\ Chained /\ InOrder /\ FiledSoFar

LEMMA SummarizeInv ==
    ASSUME NEW file \in Logs, NEW w \in Windows, Summarize(file, w)
    PROVE  ReportInv'
<1> DEFINE first == Interval(w.start, w)
<1>1. /\ ReportTypeOK' /\ intervals' = <<first>> /\ at' = 1 /\ window' = w
      /\ first.start = w.start /\ first.filed = <<>>
    BY SummarizeType, IntervalFacts DEF Summarize
<1> HIDE DEF first
<1>2. Len(intervals') = 1 /\ intervals'[1] = first /\ \A i \in 1..1 : i = 1
    BY <1>1
<1>3. ToSet(first.filed) = {} /\ IsInjective(first.filed)
    BY <1>1 DEF ToSet, IsInjective
<1>4. Chained'
    BY <1>1, <1>2 DEF Chained
<1>5. InOrder'
    BY <1>2, <1>3 DEF InOrder, Proper
<1>6. FiledSoFar'
    <2>1. \A k \in DOMAIN log' : ~(k < 1)
        <3>1. DOMAIN log' = 1..Len(log')
            BY <1>1 DEF ReportTypeOK
        <3>2. \A n \in Nat : \A k \in 1..n : ~(k < 1)
            OBVIOUS
        <3>3. Len(log') \in Nat
            BY <1>1 DEF ReportTypeOK
        <3> QED BY <3>1, <3>2, <3>3
    <2>2. {k \in Shown' : k < at'} = {}
        BY <1>1, <2>1 DEF Shown
    <2>3. 1..(at' - 1) = {}
        BY <1>1
    <2>4. UNION {ToSet(intervals'[i].filed) : i \in 1..1} = {}
        BY <1>2, <1>3
    <2> QED BY <1>2, <1>3, <2>2, <2>3, <2>4 DEF FiledSoFar
<1> QED BY <1>1, <1>4, <1>5, <1>6 DEF ReportInv

\* What LineTaken says of the sets of filed lines.
LEMMA LineSets ==
    ASSUME ReportInv, SummarizeLine, NEW n, n = Len(intervals), NEW m, m = Len(intervals')
    PROVE  /\ n \in Nat \ {0} /\ m \in Nat \ {0} /\ n <= m /\ m <= n + 1
           /\ \A i \in 1..m : ToSet(Filed0[i]) \subseteq 1..(at - 1) /\ IsInjective(Filed0[i])
           /\ \A i \in 1..n : Filed0[i] = intervals[i].filed
           /\ \A i \in 1..m : i \notin 1..n => i = m /\ m = n + 1 /\ Filed0[i] = <<>> /\ ToSet(Filed0[i]) = {}
           /\ \A i \in 1..m : i # m \/ ~InWindow(Time) => intervals'[i].filed = Filed0[i]
           /\ InWindow(Time) => /\ intervals'[m].filed = Append(Filed0[m], at)
                                /\ ToSet(intervals'[m].filed) = ToSet(Filed0[m]) \cup {at}
                                /\ IsInjective(intervals'[m].filed)
<1>1. /\ LineTaken(n, m) /\ at \in DOMAIN log /\ intervals # <<>> /\ at \in Nat
      /\ \A i \in 1..n : intervals[i].filed \in Seq(DOMAIN log)
    <2>1. LineTaken(n, m)
        BY LineFacts DEF ReportInv
    <2>2. log \in Seq(Times) /\ at \in 1..Len(log) /\ DOMAIN log = 1..Len(log)
        BY DEF ReportInv, ReportTypeOK, SummarizeLine
    <2>3. intervals \in Seq(IntervalOver(DOMAIN log))
        BY DEF ReportInv, ReportTypeOK, IntervalOver
    <2>4. \A i \in 1..n : intervals[i] \in IntervalOver(DOMAIN log)
        BY <2>3, ElementOfSeq
    <2>5. \A i \in 1..n : intervals[i].filed \in Seq(DOMAIN log)
        BY <2>4 DEF IntervalOver
    <2> QED BY <2>1, <2>2, <2>5 DEF SummarizeLine
<1>2. n \in Nat \ {0} /\ (m = n \/ m = n + 1)
    BY <1>1 DEF LineTaken
<1>3. \A i \in 1..m : i \in 1..n \/ (i = n + 1 /\ i = m /\ i \notin 1..n)
    BY <1>2
<1>4. \A i \in 1..(n + 1) : Filed0[i] = IF i <= n THEN intervals[i].filed ELSE <<>>
    BY DEF Filed0
<1>5. \A i \in 1..n : Filed0[i] = intervals[i].filed
    BY <1>2, <1>4
<1>6. ASSUME NEW i \in 1..m, i \notin 1..n PROVE Filed0[i] = <<>> /\ ToSet(Filed0[i]) = {}
    <2>1. i \in 1..(n + 1) /\ ~(i <= n)
        BY <1>2, <1>3, <1>6
    <2>2. Filed0[i] = <<>>
        BY <1>4, <2>1
    <2> QED BY <2>2 DEF ToSet
<1>7. ASSUME NEW i \in 1..m
      PROVE  /\ ToSet(Filed0[i]) \subseteq 1..(at - 1) /\ IsInjective(Filed0[i])
             /\ Filed0[i] \in Seq(DOMAIN log)
    <2>1. CASE i \in 1..n
        <3>1. ToSet(intervals[i].filed) \subseteq {k \in Shown : k < at}
            BY <1>1, <2>1 DEF ReportInv, FiledSoFar
        <3>2. \A k \in Shown : k \in Nat \ {0}
            <4>1. DOMAIN log = 1..Len(log) /\ Len(log) \in Nat
                BY DEF ReportInv, ReportTypeOK
            <4> QED BY <4>1 DEF Shown
        <3>3. \A k \in Nat \ {0} : k < at => k \in 1..(at - 1)
            BY <1>1
        <3> QED BY <1>1, <1>5, <2>1, <3>1, <3>2, <3>3 DEF ReportInv, FiledSoFar
    <2>2. CASE i \notin 1..n
        <3>1. IsInjective(<<>>) /\ <<>> \in Seq(DOMAIN log)
            BY DEF IsInjective
        <3> QED BY <1>6, <2>2, <3>1
    <2> QED BY <2>1, <2>2
<1>8. m \in 1..m /\ at \notin 1..(at - 1)
    BY <1>1, <1>2
<1>9. /\ Append(Filed0[m], at) \in Seq(DOMAIN log)
      /\ ToSet(Append(Filed0[m], at)) = ToSet(Filed0[m]) \cup {at}
      /\ IsInjective(Append(Filed0[m], at))
    BY <1>1, <1>7, <1>8, AppendFacts
<1>10. \A i \in 1..m :
          intervals'[i].filed = IF i = m /\ InWindow(Time) THEN Append(Filed0[i], at) ELSE Filed0[i]
    BY <1>1 DEF LineTaken
<1>11. n <= m /\ m <= n + 1 /\ m \in Nat \ {0}
    BY <1>2
<1> QED BY <1>2, <1>3, <1>5, <1>6, <1>7, <1>8, <1>9, <1>10, <1>11

LEMMA LineChained == ReportInv /\ SummarizeLine => Chained'
<1> SUFFICES ASSUME ReportInv, SummarizeLine PROVE Chained'
    OBVIOUS
<1> DEFINE n == Len(intervals)
           m == Len(intervals')
<1>1. LineTaken(n, m) /\ window' = window /\ intervals # <<>>
    BY LineFacts DEF ReportInv, SummarizeLine
<1>2. n \in Nat \ {0} /\ (m = n \/ m = n + 1)
    <2> HIDE DEF m
    <2> QED BY <1>1 DEF LineTaken
<1>3. /\ intervals[1].start = window.start
      /\ \A i \in 2..n : intervals[i].start = intervals[i - 1].stop
    BY <1>1 DEF ReportInv, Chained
<1> HIDE DEF n, m
<1>4. /\ \A i \in 1..n : intervals'[i].start = intervals[i].start /\ intervals'[i].stop = intervals[i].stop
      /\ m = n + 1 => intervals'[m].start = intervals[n].stop
    BY <1>1 DEF LineTaken
<1>5. intervals'[1].start = window'.start
    BY <1>1, <1>2, <1>3, <1>4
<1>6. ASSUME NEW i \in 2..m PROVE intervals'[i].start = intervals'[i - 1].stop
    <2>1. i - 1 \in 1..n /\ (i \in 2..n \/ (i = m /\ m = n + 1 /\ i - 1 = n))
        BY <1>2
    <2>2. \A k \in 2..n : k \in 1..n
        OBVIOUS
    <2> QED BY <1>3, <1>4, <2>1, <2>2
<1> QED BY <1>5, <1>6 DEF Chained, m

LEMMA LineInOrder == ReportInv /\ SummarizeLine => InOrder'
<1> SUFFICES ASSUME ReportInv, SummarizeLine, Sorted' PROVE InOrder'
    BY DEF InOrder
<1> DEFINE n == Len(intervals)
           m == Len(intervals')
<1>1. /\ LineTaken(n, m) /\ log' = log /\ window' = window /\ intervals # <<>> /\ Sorted
      /\ at <= Len(log) /\ at' = IF Breaks(Time) THEN Len(log) + 1 ELSE at + 1
    BY LineFacts DEF ReportInv, SummarizeLine, Sorted
<1>2. /\ n \in Nat \ {0} /\ n = Len(intervals) /\ m = (IF Time > intervals[n].stop THEN n + 1 ELSE n)
      /\ n \in 1..n /\ m \in 1..m /\ (m # n => m = n + 1 /\ m \notin 1..n)
    <2> HIDE DEF m
    <2> QED BY <1>1 DEF LineTaken
<1>3. /\ log \in Seq(Times) /\ at \in 1..Len(log) /\ Len(log) \in Nat /\ Times \subseteq Nat
      /\ \A k \in 1..Len(log) : log[k] \in Nat
      /\ \A i \in 1..n : intervals[i] \in IntervalOver(1..Len(log))
    <2>1. log \in Seq(Times) /\ at \in 1..Len(log) /\ DOMAIN log = 1..Len(log)
        BY DEF ReportInv, ReportTypeOK, SummarizeLine
    <2>2. Times \subseteq Nat
        BY DEF Times
    <2>3. intervals \in Seq(IntervalOver(1..Len(log)))
        BY <2>1 DEF ReportInv, ReportTypeOK, IntervalOver
    <2>4. \A i \in 1..n : intervals[i] \in IntervalOver(1..Len(log))
        BY <2>3, ElementOfSeq
    <2>5. \A k \in 1..Len(log) : log[k] \in Nat
        BY <2>1, <2>2, ElementOfSeq
    <2> QED BY <2>1, <2>2, <2>4, <2>5, LenProperties
<1>4. /\ \A i \in 1..n : Proper(intervals[i])
      /\ \A k \in ToSet(intervals[n].filed) : log[k] <= log[at]
      /\ n = 1 \/ intervals[n].start <= log[at]
      /\ intervals[1].start = window.start
    BY <1>1 DEF ReportInv, InOrder, Chained
<1>5. /\ \A i \in 1..n : intervals'[i].start = intervals[i].start /\ intervals'[i].stop = intervals[i].stop
      /\ m = n + 1 => intervals'[m].start = intervals[n].stop
      /\ \A i \in 1..m :
            intervals'[i].filed = IF i = m /\ InWindow(Time) THEN Append(Filed0[i], at) ELSE Filed0[i]
    <2> HIDE DEF n, m
    <2> QED BY <1>1 DEF LineTaken
<1>6. /\ \A i \in 1..m : ToSet(Filed0[i]) \subseteq 1..(at - 1)
      /\ \A i \in 1..n : Filed0[i] = intervals[i].filed
      /\ \A i \in 1..m : i \notin 1..n => i = m /\ m = n + 1 /\ Filed0[i] = <<>> /\ ToSet(Filed0[i]) = {}
      /\ InWindow(Time) => ToSet(intervals'[m].filed) = ToSet(Filed0[m]) \cup {at}
    BY LineSets
<1> HIDE DEF n, m
<1> DEFINE Good(i) == \A k \in ToSet(intervals'[i].filed) :
                         /\ log[k] >= intervals'[i].start
                         /\ log[k] <= intervals'[i].stop \/ Len(intervals'[i].filed) = 1
\* What was filed before is not after the line.
<1>7. \A k \in ToSet(Filed0[m]) : log[k] <= Time
    <2>1. CASE m = n
        BY <1>2, <1>4, <1>6, <2>1 DEF Time
    <2>2. CASE m # n
        BY <1>2, <1>6, <2>2
    <2> QED BY <2>1, <2>2
\* A line in the window is not before the last interval.
<1>8. InWindow(Time) => intervals'[m].start <= Time
    <2>1. CASE m # n
        <3>1. Time > intervals[n].stop /\ intervals'[m].start = intervals[n].stop
            BY <1>2, <1>5, <2>1
        <3>2. intervals[n].stop \in Nat /\ Time \in Nat
            BY <1>2, <1>3 DEF Time, IntervalOver
        <3> QED BY <3>1, <3>2
    <2>2. CASE m = n
        BY <1>2, <1>4, <1>5, <2>2 DEF InWindow, Time
    <2> QED BY <2>1, <2>2
<1>9. ASSUME NEW i \in 1..m, i # m PROVE Good(i)
    <2>1. i \in 1..n /\ intervals'[i].filed = intervals[i].filed
        BY <1>5, <1>6, <1>9
    <2> QED BY <1>1, <1>4, <1>5, <2>1 DEF Proper
<1>10. Good(m)
    <2>1. CASE ~InWindow(Time)
        <3>1. intervals'[m].filed = Filed0[m]
            BY <1>2, <1>5, <2>1
        <3>2. CASE m = n
            <4>1. /\ intervals'[m].filed = intervals[m].filed
                  /\ intervals'[m].start = intervals[m].start /\ intervals'[m].stop = intervals[m].stop
                BY <1>2, <1>5, <1>6, <3>1, <3>2
            <4>2. Proper(intervals[m])
                BY <1>2, <1>4, <3>2
            <4> QED BY <4>1, <4>2 DEF Proper
        <3>3. CASE m # n
            BY <1>2, <1>6, <3>1, <3>3 DEF Proper
        <3> QED BY <3>2, <3>3
    <2>2. CASE InWindow(Time)
        <3>1. ToSet(intervals'[m].filed) = ToSet(Filed0[m]) \cup {at}
            BY <1>6, <2>2
        <3>2. CASE m = n
            <4>1. Time \in Nat /\ intervals[n].stop \in Nat /\ intervals[n].start \in Nat
                BY <1>2, <1>3 DEF Time, IntervalOver
            <4>2. Time <= intervals[n].stop /\ intervals[n].start <= Time
                BY <1>2, <1>5, <1>8, <2>2, <3>2, <4>1
            <4>3. \A k \in ToSet(Filed0[m]) : log[k] \in Nat /\ log[k] >= intervals[n].start /\ log[k] <= Time
                <5>1. \A k \in 1..(at - 1) : k \in 1..Len(log)
                    BY <1>3
                <5> QED BY <1>2, <1>3, <1>4, <1>6, <1>7, <3>2, <5>1 DEF Proper
            <4>4. \A a, b, c \in Nat : a <= b /\ b <= c => a <= c
                OBVIOUS
            <4>5. \A k \in ToSet(Filed0[m]) \cup {at} :
                     log[k] >= intervals[n].start /\ log[k] <= intervals[n].stop
                BY <4>1, <4>2, <4>3, <4>4 DEF Time
            <4>6. intervals'[m].start = intervals[n].start /\ intervals'[m].stop = intervals[n].stop
                BY <1>2, <1>5, <3>2
            <4> QED BY <3>1, <4>5, <4>6
        <3>3. CASE m # n
            <4>1. intervals'[m].filed = Append(<<>>, at) /\ ToSet(intervals'[m].filed) = {at}
                BY <1>2, <1>5, <1>6, <2>2, <3>1, <3>3
            <4>2. Len(intervals'[m].filed) = 1
                BY <4>1
            <4>3. Time >= intervals'[m].start
                <5>1. Time \in Nat /\ intervals'[m].start \in Nat
                    BY <1>2, <1>3, <1>5, <3>3 DEF Time, IntervalOver
                <5> QED BY <1>8, <2>2, <5>1
            <4> QED BY <1>1, <4>1, <4>2, <4>3 DEF Proper, Time
        <3> QED BY <3>2, <3>3
    <2> QED BY <2>1, <2>2
\* The next line is not before this one.
<1>11. ASSUME at' <= Len(log)
       PROVE  /\ \A k \in ToSet(intervals'[m].filed) : log[k] <= log[at']
              /\ m = 1 \/ intervals'[m].start <= log[at']
    <2>1. at' = at + 1 /\ at + 1 \in 2..Len(log) /\ (at + 1) - 1 = at
        BY <1>1, <1>3, <1>11
    <2>2. Time <= log[at'] /\ Time \in Nat /\ log[at'] \in Nat
        <3>1. log[(at + 1) - 1] <= log[at + 1]
            BY <1>1, <2>1 DEF Sorted
        <3>2. at + 1 \in 1..Len(log)
            BY <2>1
        <3> QED BY <1>3, <2>1, <3>1, <3>2 DEF Time
    <2>3. \A a, b, c \in Nat : a <= b /\ b <= c => a <= c
        OBVIOUS
    <2>4. \A k \in ToSet(intervals'[m].filed) : k \in 1..Len(log) /\ log[k] <= Time
        <3>1. ToSet(intervals'[m].filed) \subseteq ToSet(Filed0[m]) \cup {at}
            BY <1>2, <1>5, <1>6
        <3>2. \A k \in 1..(at - 1) : k \in 1..Len(log)
            BY <1>3
        <3>3. \A k \in ToSet(Filed0[m]) : k \in 1..Len(log)
            BY <1>2, <1>6, <3>2
        <3> QED BY <1>3, <1>7, <2>2, <3>1, <3>3 DEF Time
    <2>5. m = 1 \/ (intervals'[m].start \in Nat /\ intervals'[m].start <= Time)
        <3>1. CASE m = n
            BY <1>2, <1>3, <1>4, <1>5, <3>1 DEF Time, IntervalOver
        <3>2. CASE m # n
            BY <1>2, <1>3, <1>5, <2>2, <3>2 DEF IntervalOver, Times
        <3> QED BY <3>1, <3>2
    <2> QED BY <1>3, <2>2, <2>3, <2>4, <2>5
<1>12. \A i \in 1..m : Good(i)
    <2> HIDE DEF Good
    <2> QED BY <1>9, <1>10
<1> QED BY <1>1, <1>11, <1>12 DEF InOrder, Proper, m

LEMMA LineFiled == ReportInv /\ SummarizeLine => FiledSoFar'
<1> SUFFICES ASSUME ReportInv, SummarizeLine PROVE FiledSoFar'
    OBVIOUS
<1> DEFINE n == Len(intervals)
           m == Len(intervals')
<1>1. /\ log' = log /\ window' = window /\ intervals # <<>>
      /\ at' = IF Breaks(Time) THEN Len(log) + 1 ELSE at + 1
      /\ DOMAIN log = 1..Len(log) /\ Len(log) \in Nat /\ at \in 1..Len(log)
      /\ window.start \in Nat /\ window.stop \in Nat /\ \A k \in 1..Len(log) : log[k] \in Nat
    <2>1. log \in Seq(Times) /\ at \in 1..(Len(log) + 1) /\ at <= Len(log) /\ Len(log) \in Nat
        BY DEF ReportInv, ReportTypeOK, SummarizeLine
    <2>2. window.start \in Nat /\ window.stop \in Nat
        BY DEF ReportInv, ReportTypeOK, Times
    <2>3. \A k \in 1..Len(log) : log[k] \in Nat
        <3>1. \A k \in 1..Len(log) : log[k] \in Times
            BY <2>1, ElementOfSeq
        <3> QED BY <3>1 DEF Times
    <2>4. at \in 1..Len(log) /\ DOMAIN log = 1..Len(log)
        BY <2>1
    <2> QED BY <2>1, <2>2, <2>3, <2>4 DEF SummarizeLine
<1>2. /\ n \in Nat \ {0} /\ m \in Nat \ {0} /\ n <= m /\ m <= n + 1
      /\ \A i \in 1..m : ToSet(Filed0[i]) \subseteq 1..(at - 1) /\ IsInjective(Filed0[i])
      /\ \A i \in 1..n : Filed0[i] = intervals[i].filed
      /\ \A i \in 1..m : i \notin 1..n => i = m /\ m = n + 1 /\ Filed0[i] = <<>> /\ ToSet(Filed0[i]) = {}
      /\ \A i \in 1..m : i # m \/ ~InWindow(Time) => intervals'[i].filed = Filed0[i]
      /\ InWindow(Time) => /\ intervals'[m].filed = Append(Filed0[m], at)
                           /\ ToSet(intervals'[m].filed) = ToSet(Filed0[m]) \cup {at}
                           /\ IsInjective(intervals'[m].filed)
    BY LineSets
<1>3. /\ \A i, j \in 1..n : i # j => ToSet(intervals[i].filed) \cap ToSet(intervals[j].filed) = {}
      /\ UNION {ToSet(intervals[i].filed) : i \in 1..n} = {k \in Shown : k < at}
      /\ \A j \in 1..(at - 1) : ~Breaks(log[j])
    <2>1. at <= Len(log) /\ FiledSoFar
        BY <1>1 DEF ReportInv
    <2> QED BY <1>1, <2>1 DEF FiledSoFar
<1> HIDE DEF n, m
<1>4. m \in 1..m /\ (1..n) \subseteq 1..m /\ at \notin 1..(at - 1)
    BY <1>1, <1>2
<1>5. \A i \in 1..m : IsInjective(intervals'[i].filed)
    BY <1>2
<1>6. \A i \in 1..m : ToSet(intervals'[i].filed) =
                         ToSet(Filed0[i]) \cup (IF i = m /\ InWindow(Time) THEN {at} ELSE {})
    BY <1>2
<1>7. \A i, j \in 1..m : i # j => ToSet(Filed0[i]) \cap ToSet(Filed0[j]) = {}
    <2> SUFFICES ASSUME NEW i \in 1..m, NEW j \in 1..m, i # j
                 PROVE  ToSet(Filed0[i]) \cap ToSet(Filed0[j]) = {}
        OBVIOUS
    <2>1. CASE i \in 1..n /\ j \in 1..n
        BY <1>2, <1>3, <2>1
    <2>2. CASE i \notin 1..n \/ j \notin 1..n
        BY <1>2, <2>2
    <2> QED BY <2>1, <2>2
<1>8. \A i, j \in 1..m : i # j => ToSet(intervals'[i].filed) \cap ToSet(intervals'[j].filed) = {}
    BY <1>2, <1>4, <1>6, <1>7
<1> DEFINE before == {k \in Shown : k < at}
<1>9. UNION {ToSet(intervals'[i].filed) : i \in 1..m} = before \cup (IF InWindow(Time) THEN {at} ELSE {})
    <2>1. UNION {ToSet(Filed0[i]) : i \in 1..m} = before
        <3>1. \A i \in 1..n : ToSet(Filed0[i]) = ToSet(intervals[i].filed)
            BY <1>2
        <3>2. \A i \in 1..m : i \in 1..n \/ ToSet(Filed0[i]) = {}
            BY <1>2
        <3> HIDE DEF before
        <3>3. UNION {ToSet(intervals[i].filed) : i \in 1..n} = before
            BY <1>3 DEF before
        <3> QED BY <1>4, <3>1, <3>2, <3>3
    <2> HIDE DEF before
    <2> QED BY <1>4, <1>6, <2>1
<1>10. Shown' = Shown
    BY <1>1 DEF Shown, InWindow, Breaks
<1>11. at \in Shown <=> InWindow(Time)
    BY <1>1, <1>3 DEF Shown, Time
<1>12. {k \in Shown : k < at'} = before \cup (IF InWindow(Time) THEN {at} ELSE {})
    <2>1. Shown \subseteq 1..Len(log)
        BY <1>1 DEF Shown
    <2>2. CASE Breaks(Time)
        <3>1. at' = Len(log) + 1 /\ ~InWindow(Time) /\ at \notin Shown
            BY <1>1, <1>11, <2>2 DEF Breaks, InWindow, Time
        <3>2. \A k \in Shown : ~(k > at)
            <4>1. \A k \in 1..Len(log) : k > at => at \in 1..(k - 1)
                BY <1>1
            <4> QED BY <2>1, <2>2, <4>1 DEF Shown, Time
        <3>3. \A k \in 1..Len(log) : k < Len(log) + 1 /\ (k = at \/ k > at \/ k < at)
            BY <1>1
        <3> HIDE DEF Shown
        <3> QED BY <2>1, <3>1, <3>2, <3>3
    <2>3. CASE ~Breaks(Time)
        <3>1. at' = at + 1
            BY <1>1, <2>3
        <3>2. \A k \in 1..Len(log) : k < at + 1 <=> k < at \/ k = at
            BY <1>1
        <3> HIDE DEF Shown
        <3> QED BY <1>1, <1>11, <2>1, <3>1, <3>2
    <2> QED BY <2>2, <2>3
<1>13. at' <= Len(log') => \A j \in 1..(at' - 1) : ~Breaks(log[j])
    <2>1. SUFFICES ASSUME at' <= Len(log), NEW j \in 1..(at' - 1) PROVE ~Breaks(log[j])
        BY <1>1
    <2>2. at' = at + 1 /\ ~Breaks(Time)
        BY <1>1, <2>1
    <2>3. j \in 1..(at - 1) \/ j = at
        BY <1>1, <2>1, <2>2
    <2> QED BY <1>3, <2>2, <2>3 DEF Time
<1> HIDE DEF before
<1> QED BY <1>1, <1>5, <1>8, <1>9, <1>10, <1>12, <1>13 DEF FiledSoFar, m, Breaks

LEMMA IdleReport == ReportIdle => ReportInv
<1> SUFFICES ASSUME ReportIdle PROVE ReportInv
    OBVIOUS
<1>1. intervals = <<>> /\ at = 1 /\ log = <<>> /\ 1..Len(intervals) = {} /\ Len(log) = 0
    BY DEF ReportIdle
<1> QED BY <1>1, IdleReportType DEF ReportInv, Chained, InOrder, FiledSoFar

LEMMA ReportStepInv == ReportInv /\ ReportStep => ReportInv'
<1> SUFFICES ASSUME ReportInv, ReportStep PROVE ReportInv'
    OBVIOUS
<1>1. CASE SummarizeLine
    BY <1>1, LineType, LineChained, LineInOrder, LineFiled DEF ReportInv
<1>2. CASE ReportExit
    <2>1. ReportIdle'
        BY <1>2 DEF ReportExit, ReportIdle
    <2> QED BY <2>1, IdleReport, PTL
<1> QED BY <1>1, <1>2 DEF ReportStep

----------------------------------------------------------------------------
(* The loops of policy_config.py *)

\* The innermost loop goes on, in the others nothing happens.
LEMMA TurnFacts ==
    ASSUME frames \in Seq(Seq(Uris)), frames # <<>>, Last(frames) # <<>>, NEW n, n = Len(frames)
    PROVE  /\ n \in Nat \ {0} /\ n \in 1..n /\ 1 \in 1..n /\ Last(frames) = frames[n]
           /\ \A i \in 1..n : frames[i] \in Seq(Uris) /\ NextTurn[i] \in Seq(Uris)
           /\ Current \in Uris /\ Current = Head(frames[n])
           /\ NextTurn \in Seq(Seq(Uris)) /\ Len(NextTurn) = n
           /\ \A i \in 1..n : NextTurn[i] = IF i = n THEN Tail(frames[n]) ELSE frames[i]
<1>1. n \in Nat \ {0} /\ n \in 1..n /\ 1 \in 1..n /\ Last(frames) = frames[n]
      /\ \A i \in 1..n : frames[i] \in Seq(Uris)
    <2>1. \A i \in 1..n : frames[i] \in Seq(Uris)
        BY ElementOfSeq
    <2>2. n \in Nat \ {0} /\ n \in 1..n /\ Last(frames) = frames[n]
        BY FrontFacts
    <2> QED BY <2>1, <2>2
<1>2. Tail(frames[n]) \in Seq(Uris) /\ Head(frames[n]) \in Uris
    BY <1>1, TailFacts
<1> DEFINE rest == Tail(frames[n])
           V == Seq(Uris)
<1>3. NextTurn = [frames EXCEPT ![n] = rest]
    BY DEF NextTurn
<1>4. /\ NextTurn \in Seq(V) /\ Len(NextTurn) = n
      /\ \A i \in 1..n : NextTurn[i] = IF i = n THEN rest ELSE frames[i]
    <2> HIDE DEF V, rest
    <2>1. frames \in Seq(V) /\ rest \in V
        BY <1>2 DEF V, rest
    <2> QED BY <1>1, <1>3, <2>1, ExceptSeq
<1>5. \A i \in 1..n : NextTurn[i] \in V
    BY <1>1, <1>2, <1>4
<1> QED BY <1>1, <1>2, <1>4, <1>5 DEF Current

\* The innermost loop starts another.
LEMMA PushFacts ==
    ASSUME NEW fs \in Seq(Seq(Uris)), NEW n, n = Len(fs), NEW kids \in Seq(Uris)
    PROVE  /\ Append(fs, kids) \in Seq(Seq(Uris)) /\ Len(Append(fs, kids)) = n + 1 /\ n \in Nat
           /\ \A i \in 1..n : Append(fs, kids)[i] = fs[i]
           /\ Append(fs, kids)[n + 1] = kids
           /\ Append(fs, kids) # <<>>
<1> DEFINE V == Seq(Uris)
<1>1. fs \in Seq(V) /\ kids \in V
    OBVIOUS
<1> HIDE DEF V
<1>2. /\ Append(fs, kids) \in Seq(V) /\ Len(Append(fs, kids)) = n + 1 /\ n \in Nat
      /\ \A i \in 1..n : Append(fs, kids)[i] = fs[i]
      /\ Append(fs, kids)[n + 1] = kids
      /\ Append(fs, kids) # <<>>
    BY <1>1, AppendProperties, LenProperties
<1> QED BY <1>2 DEF V

\* The outermost list grows.
LEMMA GrowFacts ==
    ASSUME NEW fs \in Seq(Seq(Uris)), NEW n, n = Len(fs), n # 0, NEW kids \in Seq(Uris)
    PROVE  /\ [fs EXCEPT ![1] = @ \o kids] \in Seq(Seq(Uris))
           /\ Len([fs EXCEPT ![1] = @ \o kids]) = n
           /\ \A i \in 1..n : [fs EXCEPT ![1] = @ \o kids][i] = IF i = 1 THEN fs[1] \o kids ELSE fs[i]
<1> DEFINE V == Seq(Uris)
           longer == fs[1] \o kids
<1>1. n \in Nat /\ 1 \in 1..n
    OBVIOUS
<1>2. longer \in V
    <2>1. fs[1] \in Seq(Uris)
        BY <1>1, ElementOfSeq
    <2> QED BY <2>1, ConcatProperties
<1>3. [fs EXCEPT ![1] = @ \o kids] = [fs EXCEPT ![1] = longer]
    OBVIOUS
<1>4. fs \in Seq(V)
    OBVIOUS
<1> HIDE DEF V, longer
<1>5. /\ [fs EXCEPT ![1] = longer] \in Seq(V) /\ Len([fs EXCEPT ![1] = longer]) = n
      /\ \A i \in 1..n : [fs EXCEPT ![1] = longer][i] = IF i = 1 THEN longer ELSE fs[i]
    BY <1>1, <1>2, <1>4, ExceptSeq
<1> QED BY <1>3, <1>5 DEF V, longer

\* The innermost loop ends.
LEMMA PopFacts ==
    ASSUME frames \in Seq(Seq(Uris)), frames # <<>>, NEW n, n = Len(frames)
    PROVE  /\ n \in Nat \ {0} /\ Last(frames) = frames[n]
           /\ Front(frames) \in Seq(Seq(Uris)) /\ Len(Front(frames)) = n - 1
           /\ \A i \in 1..(n - 1) : i \in 1..n /\ Front(frames)[i] = frames[i]
<1> DEFINE V == Seq(Uris)
<1>1. frames \in Seq(V) /\ frames # <<>>
    OBVIOUS
<1> HIDE DEF V
<1>2. /\ Front(frames) \in Seq(V) /\ Last(frames) = frames[n]
      /\ Len(Front(frames)) = n - 1 /\ n \in Nat \ {0}
      /\ \A i \in 1..(n - 1) : i \in 1..n /\ Front(frames)[i] = frames[i]
    BY <1>1, FrontFacts
<1> QED BY <1>2 DEF V

----------------------------------------------------------------------------
(* What ep-info follows *)

\* What one target adds to the list of those to follow.
Picked(seq, u) == IF u \in dump.objects \ (visited \cup ToSet(seq)) THEN Append(seq, u) ELSE seq

LEMMA TargetsSteps ==
    ASSUME NEW node, NEW targets \in Seq(Uris), targets = dump.targets[node]
    PROVE  \E g \in [0..Len(targets) -> Seq(Uris)] :
              /\ g[0] = <<>>
              /\ \A k \in 1..Len(targets) : g[k] = Picked(g[k - 1], targets[k])
              /\ TargetsOf(node) = g[Len(targets)]
<1> DEFINE n == Len(targets)
           V == Seq(Uris)
           step == [p \in (1..n) \X V |-> Picked(p[2], targets[p[1]])]
           Turn(h, s) == IF s = {} THEN <<>> ELSE Picked(h[s \ {Max(s)}], targets[Max(s)])
           fold == CHOOSE h : h = [s \in SUBSET (1..n) |-> Turn(h, s)]
<1>1. n \in Nat /\ DOMAIN targets = 1..n /\ \A k \in 1..n : targets[k] \in Uris
    OBVIOUS
<1>2. \A seq \in V, o \in Uris : Picked(seq, o) \in V
    BY AppendFacts DEF Picked
<1>3. step \in [(1..n) \X V -> V] /\ <<>> \in V
    <2>1. \A p \in (1..n) \X V : Picked(p[2], targets[p[1]]) \in V
        <3> HIDE DEF n, V
        <3> QED BY <1>1, <1>2
    <2> HIDE DEF n
    <2> QED BY <2>1
<1>4. PICK h \in [SUBSET (1..n) -> V] : FollowsSets(h, n, <<>>, step)
    <2> HIDE DEF n, V, step
    <2> QED BY <1>1, <1>3, RecursionOnSets
<1>5. \A k \in 1..n, seq \in V : step[<<k, seq>>] = Picked(seq, targets[k])
    <2> HIDE DEF n, V
    <2> QED OBVIOUS
<1>6. h = [s \in SUBSET (1..n) |-> Turn(h, s)]
    <2>1. ASSUME NEW s \in SUBSET (1..n) PROVE h[s] = Turn(h, s)
        <3>1. CASE s = {}
            BY <1>4, <3>1 DEF FollowsSets
        <3>2. CASE s # {}
            <4>1. Max(s) \in 1..n /\ s \ {Max(s)} \in SUBSET (1..n)
                <5> HIDE DEF n
                <5> QED BY <1>1, <3>2, MaxFacts
            <4>2. h[s \ {Max(s)}] \in V
                <5> HIDE DEF n, V
                <5> QED BY <1>4, <4>1
            <4>3. h[s] = step[<<Max(s), h[s \ {Max(s)}]>>]
                <5> HIDE DEF n, V, step
                <5> QED BY <1>4, <3>2 DEF FollowsSets
            <4> HIDE DEF n, V, step
            <4> QED BY <1>5, <3>2, <4>1, <4>2, <4>3
        <3> QED BY <3>1, <3>2
    <2> HIDE DEF n, V, Turn
    <2> QED BY <1>4, <2>1
<1>7. fold = [s \in SUBSET (1..n) |-> Turn(fold, s)]
    <2> HIDE DEF n, V, Turn
    <2> QED BY <1>6
<1>8. TargetsOf(node) = fold[1..n]
    BY <1>1 DEF TargetsOf, FoldLeft, MapThenFoldSet, Picked
<1> HIDE DEF fold
<1>9. FollowsIntervals(fold, n, V, <<>>, step)
    <2>1. fold[1..0] = <<>>
        <3>1. 1..0 = {} /\ {} \in SUBSET (1..n)
            OBVIOUS
        <3> HIDE DEF n
        <3> QED BY <1>7, <3>1
    <2>2. ASSUME NEW k \in 1..n, fold[1..(k - 1)] \in V
          PROVE  fold[1..k] = step[<<k, fold[1..(k - 1)]>>]
        <3>1. 1..k \in SUBSET (1..n) /\ 1..k # {} /\ k \in Nat \ {0}
            <4>1. \A m \in Nat : \A j \in 1..m :
                     1..j \in SUBSET (1..m) /\ 1..j # {} /\ j \in Nat \ {0}
                <5>1. ASSUME NEW m \in Nat, NEW j \in 1..m
                      PROVE  1..j \in SUBSET (1..m) /\ 1..j # {} /\ j \in Nat \ {0}
                    <6>1. j \in Nat \ {0} /\ j \in 1..j
                        OBVIOUS
                    <6>2. ASSUME NEW i \in 1..j PROVE i \in 1..m
                        OBVIOUS
                    <6> QED BY <6>1, <6>2
                <5> QED BY <5>1
            <4> HIDE DEF n
            <4> QED BY <1>1, <4>1
        <3>2. Max(1..k) = k /\ (1..k) \ {k} = 1..(k - 1)
            BY <3>1, MaxOfInterval
        <3>3. fold[1..k] = Picked(fold[1..(k - 1)], targets[k])
            <4> HIDE DEF n
            <4> QED BY <1>7, <3>1, <3>2
        <3> HIDE DEF n, V, step
        <3> QED BY <1>5, <2>2, <3>3
    <2> HIDE DEF n, V, step
    <2> QED BY <2>1, <2>2 DEF FollowsIntervals
<1>10. PICK g \in [0..n -> V] : Along(g, n, <<>>, step) /\ fold[1..n] = g[n]
    <2> HIDE DEF n, V, step
    <2>1. FoldsAlong(fold, n, V, <<>>, step)
        BY <1>1, <1>3, <1>9, FoldAlong
    <2> QED BY <2>1 DEF FoldsAlong
<1>11. \A k \in 1..n : g[k] = Picked(g[k - 1], targets[k])
    <2>1. \A k \in 1..n : k - 1 \in 0..n
        OBVIOUS
    <2> HIDE DEF n, V, step
    <2>2. \A k \in 1..n : g[k - 1] \in V
        BY <1>10, <2>1
    <2>3. \A k \in 1..n : g[k] = step[<<k, g[k - 1]>>]
        BY <1>10 DEF Along
    <2> HIDE DEF Picked
    <2> QED BY <1>5, <2>2, <2>3
<1>12. g[0] = <<>>
    BY <1>10 DEF Along
<1> HIDE DEF n, V, step
<1> QED BY <1>8, <1>10, <1>11, <1>12 DEF n, V

LEMMA TargetsFacts ==
    ASSUME NEW node, NEW targets \in Seq(Uris), targets = dump.targets[node]
    PROVE  /\ TargetsOf(node) \in Seq(Uris)
           /\ ToSet(TargetsOf(node)) = (ToSet(targets) \cap dump.objects) \ visited
           /\ IsInjective(TargetsOf(node))
<1> DEFINE n == Len(targets)
           upto(k) == ({targets[j] : j \in 1..k} \cap dump.objects) \ visited
<1>1. /\ n \in Nat /\ DOMAIN targets = 1..n /\ \A k \in 1..n : targets[k] \in Uris
      /\ \A k \in 1..n : k - 1 \in 0..n
    OBVIOUS
<1>2. PICK g \in [0..n -> Seq(Uris)] :
              /\ g[0] = <<>>
              /\ \A k \in 1..n : g[k] = Picked(g[k - 1], targets[k])
              /\ TargetsOf(node) = g[n]
    BY TargetsSteps
<1> HIDE DEF n
<1> DEFINE Made(k) == k <= n => ToSet(g[k]) = upto(k) /\ IsInjective(g[k])
           made == {k \in Nat : Made(k)}
<1>3. Made(0)
    <2>1. ToSet(<<>>) = {}
        BY DEF ToSet
    <2>2. {targets[j] : j \in 1..0} = {} /\ IsInjective(<<>>)
        BY DEF IsInjective
    <2> QED BY <1>2, <2>1, <2>2
<1>4. ASSUME NEW k \in Nat, Made(k) PROVE Made(k + 1)
    <2>1. SUFFICES ASSUME k + 1 <= n PROVE ToSet(g[k + 1]) = upto(k + 1) /\ IsInjective(g[k + 1])
        OBVIOUS
    <2> DEFINE u == targets[k + 1]
    <2>2. k + 1 \in 1..n /\ (k + 1) - 1 = k /\ k \in 0..n /\ ToSet(g[k]) = upto(k)
          /\ IsInjective(g[k])
        <3> HIDE DEF upto
        <3>1. k <= n
            BY <1>1, <2>1
        <3> QED BY <1>1, <1>4, <2>1, <3>1
    <2>3. u \in Uris /\ g[k] \in Seq(Uris)
        BY <1>1, <1>2, <2>2
    <2>4. g[k + 1] = Picked(g[k], u)
        BY <1>2, <2>2
    <2>5. {targets[j] : j \in 1..(k + 1)} = {targets[j] : j \in 1..k} \cup {u}
        <3>1. 1..(k + 1) = (1..k) \cup {k + 1}
            OBVIOUS
        <3> QED BY <3>1
    <2> HIDE DEF u
    <2>6. CASE u \in dump.objects \ (visited \cup ToSet(g[k]))
        <3>1. g[k + 1] = Append(g[k], u)
            BY <2>4, <2>6 DEF Picked
        <3>2. ToSet(g[k + 1]) = ToSet(g[k]) \cup {u} /\ IsInjective(g[k + 1])
            BY <2>2, <2>3, <2>6, <3>1, AppendFacts
        <3>3. upto(k + 1) = upto(k) \cup {u}
            BY <2>5, <2>6
        <3> HIDE DEF upto
        <3> QED BY <2>2, <3>2, <3>3
    <2>7. CASE ~ (u \in dump.objects \ (visited \cup ToSet(g[k])))
        <3>1. g[k + 1] = g[k]
            BY <2>4, <2>7 DEF Picked
        <3>2. upto(k + 1) = upto(k)
            BY <2>2, <2>5, <2>7
        <3> HIDE DEF upto
        <3> QED BY <2>2, <3>1, <3>2
    <2> QED BY <2>6, <2>7
<1>5. Made(n)
    <2> HIDE DEF Made
    <2>1. 0 \in made /\ \A k \in made \cap Nat : k + 1 \in made
        BY <1>3, <1>4
    <2>2. n \in made
        <3> HIDE DEF made
        <3> QED BY <1>1, <2>1, InductionFromZero
    <2> QED BY <2>2
<1>6. ToSet(targets) = {targets[j] : j \in 1..n} /\ n \in 0..n
    BY <1>1 DEF ToSet
<1>7. g[n] \in Seq(Uris) /\ ToSet(g[n]) = (ToSet(targets) \cap dump.objects) \ visited
      /\ IsInjective(g[n])
    <2>1. n <= n /\ g[n] \in Seq(Uris)
        BY <1>1, <1>2, <1>6
    <2>2. ToSet(g[n]) = upto(n) /\ IsInjective(g[n])
        <3> HIDE DEF upto
        <3> QED BY <1>5, <2>1
    <2>3. upto(n) = (ToSet(targets) \cap dump.objects) \ visited
        BY <1>6
    <2> HIDE DEF upto
    <2> QED BY <2>1, <2>2, <2>3
<1> HIDE DEF upto, Made
<1> QED BY <1>2, <1>7

----------------------------------------------------------------------------
(* What a URI leads to: the least set that has it and is closed under next. *)

Grown(next, S) == S \cup UNION {next[x] : x \in S}
Size == Cardinality(Uris)

Reaches(r, next, uri) ==
    /\ r \in [0..Size -> SUBSET Uris]
    /\ r[0] = {uri}
    /\ \A k \in 0..(Size - 1) : r[k + 1] = Grown(next, r[k])
    /\ From(next, uri) = r[Size]

LEMMA SizeIsNat == Size \in Nat
BY DumpAssumption, FS_CardinalityType DEF Size

LEMMA FromSteps ==
    ASSUME NEW next \in [Uris -> SUBSET Uris], NEW uri \in Uris
    PROVE  \E r : Reaches(r, next, uri)
<1> DEFINE N == Size
           V == SUBSET Uris
           step == [p \in (1..(N + 1)) \X V |-> Grown(next, p[2])]
           Turn(f, n) == IF n = 0 THEN {uri} ELSE f[n - 1] \cup UNION {next[u] : u \in f[n - 1]}
           reach == CHOOSE f : f = [n \in 0..N |-> Turn(f, n)]
<1>1. N \in Nat /\ N + 1 \in Nat \ {0}
    BY SizeIsNat
<1>2. \A S \in V : Grown(next, S) \in V
    BY DEF Grown
<1>3. step \in [(1..(N + 1)) \X V -> V] /\ {uri} \in V
    <2>1. \A p \in (1..(N + 1)) \X V : Grown(next, p[2]) \in V
        <3> HIDE DEF N, V
        <3> QED BY <1>2
    <2> HIDE DEF N
    <2> QED BY <2>1
<1>4. PICK g \in [1..(N + 1) -> V] : Follows(g, N + 1, {uri}, step)
    <2> HIDE DEF N, V, step
    <2> QED BY <1>1, <1>3, RecursionAlong
<1> DEFINE f == [n \in 0..N |-> g[n + 1]]
<1>5. \A n \in 0..N : f[n] = g[n + 1] /\ n + 1 \in 1..(N + 1) /\ f[n] \in V
    <2>1. \A n \in 0..N : n + 1 \in 1..(N + 1)
        BY <1>1
    <2> HIDE DEF N, V
    <2> QED BY <1>4, <2>1
<1>6. ASSUME NEW n \in 0..N, n # 0 PROVE f[n] = Grown(next, f[n - 1])
    <2>1. n - 1 \in 0..N /\ (n - 1) + 1 = n /\ n + 1 \in 1..(N + 1) /\ n + 1 # 1 /\ (n + 1) - 1 = n
          /\ n \in 1..(N + 1)
        BY <1>1, <1>6
    <2>2. g[n + 1] = step[<<n + 1, g[n]>>]
        <3> HIDE DEF N, V, step
        <3> QED BY <1>4, <2>1 DEF Follows
    <2>3. g[n] \in V /\ f[n - 1] = g[n]
        <3> HIDE DEF f, N, V
        <3> QED BY <1>4, <1>5, <2>1
    <2>4. step[<<n + 1, g[n]>>] = Grown(next, g[n])
        <3> HIDE DEF N, V
        <3> QED BY <2>1, <2>3
    <2> HIDE DEF f, step, N
    <2> QED BY <1>5, <2>2, <2>3, <2>4
<1>7. f[0] = {uri}
    <2>1. 0 \in 0..N /\ 0 + 1 = 1 /\ 1 \in 1..(N + 1)
        BY <1>1
    <2>2. g[1] = {uri}
        <3> HIDE DEF step, N, V
        <3> QED BY <1>4, <2>1 DEF Follows
    <2> HIDE DEF f, N
    <2> QED BY <1>5, <2>1, <2>2
<1>8. f = [n \in 0..N |-> Turn(f, n)]
    <2>1. \A n \in 0..N : f[n] = Turn(f, n)
        <3> HIDE DEF f, N
        <3> QED BY <1>6, <1>7 DEF Grown
    <2> HIDE DEF Turn, N
    <2> QED BY <2>1
<1>9. reach = [n \in 0..N |-> Turn(reach, n)]
    <2> HIDE DEF f, Turn, N
    <2> QED BY <1>8
<1>10. From(next, uri) = reach[N]
    BY DEF From, Size
<1> HIDE DEF reach, f
<1> DEFINE Typed(k) == k <= N => reach[k] \in V
           typed == {k \in Nat : Typed(k)}
<1>11. ASSUME NEW k \in 0..(N - 1) PROVE reach[k + 1] = Grown(next, reach[k])
    <2>1. k + 1 \in 0..N /\ k + 1 # 0 /\ (k + 1) - 1 = k
        BY <1>1
    <2> HIDE DEF N
    <2> QED BY <1>9, <2>1 DEF Grown
<1>12. reach[0] = {uri}
    <2>1. 0 \in 0..N
        BY <1>1
    <2> HIDE DEF N
    <2> QED BY <1>9, <2>1
<1>13. \A k \in 0..N : reach[k] \in V
    <2>1. Typed(0)
        BY <1>12
    <2>2. ASSUME NEW k \in Nat, Typed(k) PROVE Typed(k + 1)
        <3>1. k + 1 <= N => k \in 0..(N - 1) /\ k <= N
            BY <1>1
        <3> HIDE DEF N, V
        <3> QED BY <1>2, <1>11, <2>2, <3>1
    <2>3. 0 \in typed /\ \A k \in typed \cap Nat : k + 1 \in typed
        <3> HIDE DEF Typed
        <3> QED BY <2>1, <2>2
    <2>4. Nat \subseteq typed
        <3> HIDE DEF typed
        <3> QED BY <2>3, InductionFromZero
    <2>5. \A k \in 0..N : k \in Nat /\ k <= N
        BY <1>1
    <2> HIDE DEF N, V
    <2> QED BY <2>4, <2>5
<1>14. reach \in [0..N -> V]
    <2> HIDE DEF Turn, N, V
    <2> QED BY <1>9, <1>13
<1> QED BY <1>10, <1>11, <1>12, <1>14 DEF Reaches

\* As long as the set is not closed, every step adds a URI, and there are only Size.
LEMMA ReachesClosed ==
    ASSUME NEW next \in [Uris -> SUBSET Uris], NEW uri \in Uris, NEW r, Reaches(r, next, uri)
    PROVE  Grown(next, r[Size]) = r[Size]
<1> DEFINE N == Size
           Closed(k) == Grown(next, r[k]) = r[k]
           Busy(k) == k <= N => Closed(k) \/ Cardinality(r[k]) >= k + 1
           busy == {k \in Nat : Busy(k)}
<1>1. N \in Nat /\ IsFiniteSet(Uris) /\ N = Cardinality(Uris)
    BY SizeIsNat, DumpAssumption DEF Size
<1>2. /\ \A k \in 0..N : r[k] \subseteq Uris
      /\ r[0] = {uri} /\ \A k \in 0..(N - 1) : r[k + 1] = Grown(next, r[k])
    BY DEF Reaches
<1> HIDE DEF N
<1>3. \A T \in SUBSET Uris : IsFiniteSet(T) /\ Cardinality(T) \in Nat /\ Cardinality(T) <= N
    BY <1>1, FS_Subset, FS_CardinalityType
<1>4. Busy(0)
    <2>1. Cardinality(r[0]) = 1
        BY <1>2, FS_Singleton
    <2> QED BY <2>1
<1>5. ASSUME NEW k \in Nat, Busy(k) PROVE Busy(k + 1)
    <2> SUFFICES ASSUME k + 1 <= N PROVE Closed(k + 1) \/ Cardinality(r[k + 1]) >= (k + 1) + 1
        OBVIOUS
    <2>1. k \in 0..N /\ k \in 0..(N - 1) /\ k + 1 \in 0..N /\ k <= N
        BY <1>1
    <2>2. r[k + 1] = Grown(next, r[k]) /\ r[k] \subseteq r[k + 1]
        BY <1>2, <2>1 DEF Grown
    <2>3. CASE Closed(k)
        <3>1. r[k + 1] = r[k]
            BY <2>2, <2>3
        <3> QED BY <2>3, <3>1
    <2>4. CASE ~Closed(k)
        <3>1. r[k] # r[k + 1] /\ Cardinality(r[k]) >= k + 1
            BY <1>5, <2>1, <2>2, <2>4
        <3>2. IsFiniteSet(r[k + 1]) /\ r[k] \in SUBSET r[k + 1]
            BY <1>2, <1>3, <2>1, <2>2
        <3>3. Cardinality(r[k]) <= Cardinality(r[k + 1]) /\ Cardinality(r[k + 1]) # Cardinality(r[k])
            BY <3>1, <3>2, FS_Subset
        <3>4. Cardinality(r[k]) \in Nat /\ Cardinality(r[k + 1]) \in Nat
            BY <1>2, <1>3, <2>1
        <3> QED BY <3>1, <3>3, <3>4
    <2> QED BY <2>3, <2>4
<1>6. Busy(N)
    <2>1. 0 \in busy /\ \A k \in busy \cap Nat : k + 1 \in busy
        <3> HIDE DEF Busy
        <3> QED BY <1>4, <1>5
    <2>2. N \in busy
        <3> HIDE DEF busy
        <3> QED BY <1>1, <2>1, InductionFromZero
    <2> HIDE DEF Busy
    <2> QED BY <2>2
<1>7. N <= N /\ N \in 0..N /\ \A c \in Nat : c <= N => ~(c >= N + 1)
    BY <1>1
<1>8. Closed(N)
    <2>1. Cardinality(r[N]) \in Nat /\ Cardinality(r[N]) <= N
        BY <1>2, <1>3, <1>7
    <2> HIDE DEF Closed
    <2> QED BY <1>6, <1>7, <2>1
<1> QED BY <1>8 DEF N

\* S is closed under next.
Shut(next, S) == \A x \in S : next[x] \subseteq S

LEMMA FromFacts ==
    ASSUME NEW next \in [Uris -> SUBSET Uris], NEW uri \in Uris
    PROVE  /\ From(next, uri) \subseteq Uris /\ uri \in From(next, uri)
           /\ Shut(next, From(next, uri))
           /\ \A S \in SUBSET Uris : uri \in S /\ Shut(next, S) => From(next, uri) \subseteq S
<1>1. PICK r : Reaches(r, next, uri)
    BY FromSteps
<1> DEFINE N == Size
<1>2. N \in Nat
    BY SizeIsNat
<1>3. /\ \A k \in 0..N : r[k] \subseteq Uris
      /\ r[0] = {uri} /\ \A k \in 0..(N - 1) : r[k + 1] = Grown(next, r[k])
      /\ From(next, uri) = r[N]
    BY <1>1 DEF Reaches
<1>4. Grown(next, r[N]) = r[N]
    BY <1>1, ReachesClosed
<1> HIDE DEF N
<1>5. 0 \in 0..N /\ N \in 0..N /\ N <= N
    BY <1>2
<1>6. ASSUME NEW S \in SUBSET Uris, uri \in S, Shut(next, S) PROVE r[N] \subseteq S
    <2> DEFINE Inside(k) == k <= N => r[k] \subseteq S
               inside == {k \in Nat : Inside(k)}
    <2>1. Inside(0)
        BY <1>3, <1>6
    <2>2. ASSUME NEW k \in Nat, Inside(k) PROVE Inside(k + 1)
        <3>1. k + 1 <= N => k <= N /\ k \in 0..(N - 1)
            BY <1>2
        <3> QED BY <1>3, <1>6, <2>2, <3>1 DEF Grown, Shut
    <2>3. 0 \in inside /\ \A k \in inside \cap Nat : k + 1 \in inside
        <3> HIDE DEF Inside
        <3> QED BY <2>1, <2>2
    <2>4. N \in inside
        <3> HIDE DEF inside
        <3> QED BY <1>2, <2>3, InductionFromZero
    <2> QED BY <1>5, <2>4
<1>7. uri \in r[N]
    <2> DEFINE Has(k) == k <= N => uri \in r[k]
               has == {k \in Nat : Has(k)}
    <2>1. Has(0)
        BY <1>3
    <2>2. ASSUME NEW k \in Nat, Has(k) PROVE Has(k + 1)
        <3>1. k + 1 <= N => k <= N /\ k \in 0..(N - 1)
            BY <1>2
        <3> QED BY <1>3, <2>2, <3>1 DEF Grown
    <2>3. 0 \in has /\ \A k \in has \cap Nat : k + 1 \in has
        <3> HIDE DEF Has
        <3> QED BY <2>1, <2>2
    <2>4. N \in has
        <3> HIDE DEF has
        <3> QED BY <1>2, <2>3, InductionFromZero
    <2> QED BY <1>5, <2>4
<1>8. Shut(next, r[N])
    BY <1>4 DEF Grown, Shut
<1> QED BY <1>3, <1>5, <1>6, <1>7, <1>8

----------------------------------------------------------------------------
(* Types, and what a command was started with. *)

Inputs ==
    /\ cmd = "none" => PolicyIdle
    /\ cmd = "aim" => \E f \in Forests : input = <<f>>
    /\ cmd = "ep-info" => \E d \in Dumps : \E ep \in d.objects : \E a \in Addresses :
          input = <<d, ep, a>> /\ heading = UriOf(L3EpOf(d, a))
    /\ cmd = "diff" =>
          \E d1, d2 \in DiffDumps :
             input = <<d1, d2>> /\ report = Differences(d1, d2, d1.objects \cap d2.objects)

PolicyBase == PolicyTypeOK /\ Inputs

LEMMA IdlePolicyBase == PolicyIdle => PolicyBase
<1> SUFFICES ASSUME PolicyIdle PROVE PolicyBase
    OBVIOUS
<1>1. Childless \in [Uris -> Seq(Uris)]
    BY DEF Childless
<1>2. PolicyTypeOK
    BY <1>1 DEF PolicyIdle, PolicyTypeOK
<1> QED BY <1>2 DEF PolicyIdle, PolicyBase, Inputs

LEMMA DumpFacts ==
    ASSUME NEW d \in Dumps \cup DiffDumps
    PROVE  /\ d.objects \subseteq Uris
           /\ d.children \in [Uris -> Seq(Uris)] /\ d.targets \in [Uris -> Seq(Uris)]
           /\ \A u \in Uris : d.children[u] \in Seq(Uris) /\ d.targets[u] \in Seq(Uris)
                              /\ ToSet(d.children[u]) \subseteq Uris /\ ToSet(d.targets[u]) \subseteq Uris
<1>1. d \in Dump
    BY DumpAssumption
<1>2. \A s \in Seq(Uris) : ToSet(s) \subseteq Uris
    BY DEF ToSet
<1>3. d.children \in [Uris -> Seq(Uris)] /\ d.targets \in [Uris -> Seq(Uris)] /\ d.objects \subseteq Uris
    BY <1>1 DEF Dump
<1> QED BY <1>2, <1>3

\* The endpoints are objects of the dump.
LEMMA EpFacts ==
    ASSUME NEW d \in Dumps, NEW a
    PROVE  /\ UriOf(L2EpOf(d, a)) \subseteq d.objects /\ UriOf(L3EpOf(d, a)) \subseteq d.objects
           /\ UriOf(L2EpOf(d, a)) \subseteq Uris /\ UriOf(L3EpOf(d, a)) \subseteq Uris
<1>1. UriOf(L2EpOf(d, a)) \subseteq d.objects
    BY DEF L2EpOf, UriOf, FirstOf
<1>2. UriOf(L3EpOf(d, a)) \subseteq d.objects
    BY DEF L3EpOf, UriOf, FirstOf
<1> QED BY <1>1, <1>2, DumpFacts

LEMMA ForestTypes ==
    ASSUME NEW f \in Forests
    PROVE  f.top \in Seq(Uris) /\ f.children \in [Uris -> Seq(Uris)]
BY ForestAssumption

LEMMA LoadAimBase ==
    ASSUME PolicyIdle, NEW f \in Forests, LoadAim(f)
    PROVE  PolicyBase'
<1> DEFINE V == Seq(Uris)
<1>1. f.top \in V /\ f.children \in [Uris -> V]
    BY ForestTypes
<1>2. PolicyBase
    BY IdlePolicyBase
<1>3. <<f.top>> \in Seq(V)
    <2> HIDE DEF V
    <2> QED BY <1>1
<1>4. PolicyTypeOK'
    <2>1. frames' = <<f.top>> /\ nested' = f.children /\ policy' = f.top /\ cmd' = "aim"
        BY DEF LoadAim
    <2>2. UNCHANGED <<children, visited, heading, printed, report>>
        BY DEF LoadAim
    <2> QED BY <1>1, <1>2, <1>3, <2>1, <2>2 DEF PolicyBase, PolicyTypeOK
<1> QED BY <1>4 DEF PolicyBase, Inputs, LoadAim

LEMMA EpInfoBase ==
    ASSUME PolicyIdle, NEW d \in Dumps, NEW a \in Addresses, EpInfo(d, a)
    PROVE  PolicyBase'
<1>1. PICK ep \in UriOf(L2EpOf(d, a)) :
          /\ cmd' = "ep-info" /\ input' = <<d, ep, a>>
          /\ IF d.children[ep] = <<>> THEN printed' = <<ep>> /\ frames' = <<>>
             ELSE printed' = <<>> /\ frames' = <<<<ep>>>>
    BY DEF EpInfo
<1>2. ep \in d.objects /\ ep \in Uris /\ UriOf(L3EpOf(d, a)) \subseteq Uris
    BY EpFacts
<1>3. /\ PolicyBase /\ UNCHANGED <<nested, children, policy, visited, report>>
      /\ heading' = UriOf(L3EpOf(d, a))
    BY IdlePolicyBase DEF EpInfo
<1>4. <<ep>> \in Seq(Uris) /\ <<>> \in Seq(Uris) /\ <<<<ep>>>> \in Seq(Seq(Uris)) /\ <<>> \in Seq(Seq(Uris))
    BY <1>2
<1>5. printed' \in Seq(Uris) /\ frames' \in Seq(Seq(Uris))
    BY <1>1, <1>4
<1>6. PolicyTypeOK'
    BY <1>1, <1>2, <1>3, <1>5 DEF PolicyBase, PolicyTypeOK
<1> QED BY <1>1, <1>2, <1>3, <1>6 DEF PolicyBase, Inputs

LEMMA EpInfoShortBase ==
    ASSUME PolicyIdle, NEW d \in Dumps, NEW a \in Addresses, EpInfoShort(d, a)
    PROVE  PolicyBase'
<1>1. /\ PolicyBase /\ UNCHANGED <<frames, nested, children, policy, visited, printed, report>>
      /\ cmd' = "short" /\ heading' \subseteq Uris
    BY IdlePolicyBase, EpFacts DEF EpInfoShort
<1>2. PolicyTypeOK'
    BY <1>1 DEF PolicyBase, PolicyTypeOK
<1> QED BY <1>1, <1>2 DEF PolicyBase, Inputs

LEMMA FindUnresolvedBase ==
    ASSUME PolicyIdle, NEW d \in Dumps, FindUnresolved(d)
    PROVE  PolicyBase'
<1>1. PolicyBase /\ UNCHANGED <<frames, nested, children, policy, visited, heading, printed>>
    BY IdlePolicyBase DEF FindUnresolved
<1>2. \A u \in d.objects : d.targets[u] # <<>> => d.targets[u][1] \in Uris
    <2>1. \A s \in Seq(Uris) : s # <<>> => s[1] \in Uris
        OBVIOUS
    <2> QED BY <2>1, DumpFacts
<1>3. Unresolved(d) \subseteq {"missing"} \X Uris
    BY <1>2 DEF Unresolved
<1>4. cmd' = "find-unresolved" /\ report' = Unresolved(d)
    BY DEF FindUnresolved
<1>5. PolicyTypeOK'
    BY <1>1, <1>3, <1>4 DEF PolicyBase, PolicyTypeOK
<1> QED BY <1>4, <1>5 DEF PolicyBase, Inputs

LEMMA DifferencesType ==
    ASSUME NEW d1 \in DiffDumps, NEW d2 \in DiffDumps, NEW keys \in SUBSET d1.objects
    PROVE  Differences(d1, d2, keys) \subseteq {"missing", "added", "deleted", "changed"} \X Uris
<1>1. d1.objects \subseteq Uris /\ d2.objects \subseteq Uris
    BY DumpFacts
<1> QED BY <1>1 DEF Differences

LEMMA DiffBase ==
    ASSUME PolicyIdle, NEW d1 \in DiffDumps, NEW d2 \in DiffDumps, Diff(d1, d2) \/ DiffShort(d1, d2)
    PROVE  PolicyBase'
<1>1. PolicyBase /\ UNCHANGED <<frames, nested, children, policy, visited, heading, printed>>
    BY IdlePolicyBase DEF Diff, DiffShort
<1>2. PICK keys \in SUBSET d1.objects :
          /\ input' = <<d1, d2>> /\ report' = Differences(d1, d2, keys)
          /\ cmd' = "short" \/ (cmd' = "diff" /\ keys = d1.objects \cap d2.objects)
    BY DEF Diff, DiffShort
<1>3. PolicyTypeOK'
    BY <1>1, <1>2, DifferencesType DEF PolicyBase, PolicyTypeOK
<1>4. Inputs'
    BY <1>2 DEF Inputs
<1> QED BY <1>3, <1>4 DEF PolicyBase

LEMMA ReturnBase == PolicyBase /\ Return => PolicyBase'
<1> SUFFICES ASSUME PolicyBase, Return PROVE PolicyBase'
    OBVIOUS
<1>1. frames \in Seq(Seq(Uris)) /\ frames # <<>> /\ cmd # "none"
    BY DEF PolicyBase, PolicyTypeOK, Return
<1>2. frames' \in Seq(Seq(Uris))
    BY <1>1, PopFacts DEF Return
<1>3. PolicyTypeOK'
    BY <1>1, <1>2 DEF PolicyBase, PolicyTypeOK, Return
<1> QED BY <1>1, <1>3 DEF PolicyBase, Inputs, Return

LEMMA FlattenObjectBase == PolicyBase /\ FlattenObject => PolicyBase'
<1> SUFFICES ASSUME PolicyBase, FlattenObject PROVE PolicyBase'
    OBVIOUS
<1> DEFINE kids == nested[Current]
<1>1. /\ frames \in Seq(Seq(Uris)) /\ frames # <<>> /\ Last(frames) # <<>> /\ cmd = "aim"
      /\ nested \in [Uris -> Seq(Uris)] /\ children \in [Uris -> Seq(Uris)] /\ policy \in Seq(Uris)
    BY DEF PolicyBase, PolicyTypeOK, FlattenObject, InLoop
<1>2. Current \in Uris /\ NextTurn \in Seq(Seq(Uris)) /\ Len(NextTurn) # 0
    BY <1>1, TurnFacts
<1>3. kids \in Seq(Uris)
    BY <1>1, <1>2
<1>4. /\ nested' = [nested EXCEPT ![Current] = <<>>]
      /\ children' = [children EXCEPT ![Current] = kids]
      /\ policy' = policy \o kids
      /\ frames' = Append([NextTurn EXCEPT ![1] = @ \o kids], kids)
      /\ UNCHANGED <<cmd, input, visited, heading, printed, report>>
    BY DEF FlattenObject
<1> HIDE DEF kids
<1>5. frames' \in Seq(Seq(Uris))
    <2>1. [NextTurn EXCEPT ![1] = @ \o kids] \in Seq(Seq(Uris))
        BY <1>2, <1>3, GrowFacts
    <2> QED BY <1>3, <1>4, <2>1, PushFacts
<1>6. policy' \in Seq(Uris)
    BY <1>1, <1>3, <1>4, ConcatProperties
<1>7. nested' \in [Uris -> Seq(Uris)] /\ children' \in [Uris -> Seq(Uris)]
    BY <1>1, <1>2, <1>3, <1>4
<1>8. PolicyTypeOK'
    BY <1>1, <1>4, <1>5, <1>6, <1>7 DEF PolicyBase, PolicyTypeOK
<1> QED BY <1>1, <1>4, <1>8 DEF PolicyBase, Inputs

\* What ep-info works on.
LEMMA EpInfoInput ==
    ASSUME PolicyBase, cmd = "ep-info"
    PROVE  /\ dump \in Dumps /\ input[2] \in dump.objects /\ input[2] \in Uris
           /\ heading = UriOf(L3EpOf(dump, input[3]))
<1>1. PICK d \in Dumps : \E ep \in d.objects : \E a \in Addresses :
              input = <<d, ep, a>> /\ heading = UriOf(L3EpOf(d, a))
    BY DEF PolicyBase, Inputs
<1>2. PICK ep \in d.objects, a \in Addresses :
              input = <<d, ep, a>> /\ heading = UriOf(L3EpOf(d, a))
    BY <1>1
<1>3. dump = d /\ input[2] = ep /\ input[3] = a
    BY <1>2 DEF dump
<1>4. d.objects \subseteq Uris
    BY DumpFacts
<1> QED BY <1>2, <1>3, <1>4

LEMMA PrintObjectBase == PolicyBase /\ PrintObject => PolicyBase'
<1> SUFFICES ASSUME PolicyBase, PrintObject PROVE PolicyBase'
    OBVIOUS
<1>1. /\ frames \in Seq(Seq(Uris)) /\ frames # <<>> /\ Last(frames) # <<>> /\ cmd = "ep-info"
      /\ printed \in Seq(Uris) /\ visited \subseteq Uris
      /\ report \subseteq {"missing", "added", "deleted", "changed"} \X Uris
    BY DEF PolicyBase, PolicyTypeOK, PrintObject, InLoop
<1>2. Current \in Uris /\ NextTurn \in Seq(Seq(Uris))
    BY <1>1, TurnFacts
<1>3. dump \in Dumps
    BY <1>1, EpInfoInput
<1> DEFINE kids == dump.children[Current]
           refs == dump.targets[Current]
           more == TargetsOf(Current)
<1>4. kids \in Seq(Uris) /\ refs \in Seq(Uris) /\ ToSet(refs) \subseteq Uris
    BY <1>2, <1>3, DumpFacts
<1>5. more \in Seq(Uris) /\ ToSet(more) \subseteq Uris
    BY <1>4, TargetsFacts
<1>6. /\ printed' = Append(printed, Current)
      /\ frames' = Append(NextTurn, kids \o more)
      /\ visited' = visited \cup ToSet(more)
      /\ report' = report \cup Missing(ToSet(refs))
      /\ UNCHANGED <<cmd, input, nested, children, policy, heading>>
    BY DEF PrintObject
<1> HIDE DEF kids, refs, more
<1>7. kids \o more \in Seq(Uris)
    BY <1>4, <1>5, ConcatProperties
<1>8. frames' \in Seq(Seq(Uris)) /\ printed' \in Seq(Uris)
    BY <1>1, <1>2, <1>6, <1>7, PushFacts, AppendFacts
<1>9. Missing(ToSet(refs)) \subseteq {"missing"} \X Uris
    BY <1>4 DEF Missing
<1>10. PolicyTypeOK'
    BY <1>1, <1>5, <1>6, <1>8, <1>9 DEF PolicyBase, PolicyTypeOK
<1> QED BY <1>1, <1>6, <1>10 DEF PolicyBase, Inputs

LEMMA WarnMissingBase == PolicyBase /\ WarnMissing => PolicyBase'
<1> SUFFICES ASSUME PolicyBase, WarnMissing PROVE PolicyBase'
    OBVIOUS
<1>1. /\ frames \in Seq(Seq(Uris)) /\ frames # <<>> /\ Last(frames) # <<>> /\ cmd = "ep-info"
    BY DEF PolicyBase, PolicyTypeOK, WarnMissing, InLoop
<1>2. Current \in Uris /\ NextTurn \in Seq(Seq(Uris))
    BY <1>1, TurnFacts
<1>3. Missing({Current}) \subseteq {"missing"} \X Uris
    BY <1>2 DEF Missing
<1>4. PolicyTypeOK'
    BY <1>1, <1>2, <1>3 DEF PolicyBase, PolicyTypeOK, WarnMissing
<1> QED BY <1>1, <1>4 DEF PolicyBase, Inputs, WarnMissing

LEMMA PolicyExitIdle == PolicyExit => PolicyIdle'
BY DEF PolicyExit, PolicyIdle, Childless

LEMMA PolicyStartBase == PolicyIdle /\ PolicyStart => PolicyBase'
BY LoadAimBase, EpInfoBase, EpInfoShortBase, FindUnresolvedBase, DiffBase DEF PolicyStart

LEMMA PolicyStepBase == PolicyBase /\ PolicyStep => PolicyBase'
<1> SUFFICES ASSUME PolicyBase, PolicyStep PROVE PolicyBase'
    OBVIOUS
<1>1. CASE PolicyExit
    <2>1. PolicyIdle'
        BY <1>1, PolicyExitIdle
    <2> QED BY <2>1, IdlePolicyBase, PTL
<1> QED BY <1>1, FlattenObjectBase, PrintObjectBase, WarnMissingBase, ReturnBase DEF PolicyStep

\* Where diff says nothing, both dumps have the same objects, and each the same
\* children and the same targets in both.
LEMMA QuietDiff == PolicyBase => QuietDiffSamePolicy
<1> SUFFICES ASSUME PolicyBase, cmd = "diff", report = {}
             PROVE  /\ input[1].objects = input[2].objects
                    /\ \A u \in input[1].objects : Reached(input[1], u) = Reached(input[2], u)
    BY DEF QuietDiffSamePolicy, Ended
<1>1. PICK d1 \in DiffDumps, d2 \in DiffDumps : input = <<d1, d2>> /\ report = Differences(d1, d2, d1.objects \cap d2.objects)
    BY DEF PolicyBase, Inputs
<1>2. d1.objects = d2.objects
    <2>1. \A u \in d2.objects \ d1.objects : <<"added", u>> \in Differences(d1, d2, d1.objects \cap d2.objects)
        BY DEF Differences
    <2>2. \A u \in d1.objects \ d2.objects : <<"deleted", u>> \in Differences(d1, d2, d1.objects \cap d2.objects)
        BY DEF Differences
    <2> QED BY <1>1, <2>1, <2>2
<1>3. \A u \in d1.objects : ~Changed(d1, d2, u)
    <2>1. \A u \in d1.objects \cap d2.objects :
             Changed(d1, d2, u) => <<"changed", u>> \in Differences(d1, d2, d1.objects \cap d2.objects)
        BY DEF Differences
    <2> QED BY <1>1, <1>2, <2>1
<1>4. \A u \in d1.objects :
         d1.targets[u] = d2.targets[u] /\ ToSet(d1.children[u]) = ToSet(d2.children[u])
    BY <1>3 DEF Changed
<1>5. Children(d1) = Children(d2) /\ Targets(d1) = Targets(d2)
    <2>1. \A u \in Uris : Children(d1)[u] = Children(d2)[u] /\ Targets(d1)[u] = Targets(d2)[u]
        BY <1>2, <1>4 DEF Children, Targets
    <2> QED BY <1>2, <1>4 DEF Children, Targets
<1>6. \A u : Reached(d1, u) = Reached(d2, u)
    BY <1>5 DEF Reached
<1>7. input[1] = d1 /\ input[2] = d2
    BY <1>1
<1> QED BY <1>2, <1>6, <1>7

----------------------------------------------------------------------------
(* What ep-info prints *)

\* What the loops have still to walk.
Ahead(fs) == UNION {ToSet(fs[i]) : i \in 1..Len(fs)}

LEMMA AheadTurn ==
    ASSUME frames \in Seq(Seq(Uris)), frames # <<>>, Last(frames) # <<>>
    PROVE  Ahead(frames) = {Current} \cup Ahead(NextTurn)
<1> DEFINE n == Len(frames)
<1>1. /\ n \in 1..n /\ frames[n] \in Seq(Uris) /\ frames[n] # <<>> /\ Current = Head(frames[n])
      /\ Len(NextTurn) = n
      /\ \A i \in 1..n : NextTurn[i] = IF i = n THEN Tail(frames[n]) ELSE frames[i]
    BY TurnFacts
<1> HIDE DEF n
<1>2. ToSet(frames[n]) = {Current} \cup ToSet(NextTurn[n])
    <2>1. NextTurn[n] = Tail(frames[n])
        BY <1>1
    <2>2. ToSet(frames[n]) = {Head(frames[n])} \cup ToSet(Tail(frames[n]))
        BY <1>1, TailFacts
    <2> QED BY <1>1, <2>1, <2>2
<1>3. \A i \in 1..n : i # n => ToSet(frames[i]) = ToSet(NextTurn[i])
    BY <1>1
<1> QED BY <1>1, <1>2, <1>3 DEF Ahead, n

LEMMA AheadPush ==
    ASSUME NEW fs \in Seq(Seq(Uris)), NEW kids \in Seq(Uris)
    PROVE  Ahead(Append(fs, kids)) = Ahead(fs) \cup ToSet(kids)
<1> DEFINE n == Len(fs)
           gs == Append(fs, kids)
<1>1. /\ Len(gs) = n + 1 /\ n \in Nat
      /\ \A i \in 1..n : gs[i] = fs[i]
      /\ gs[n + 1] = kids
    BY PushFacts
<1> HIDE DEF n, gs
<1>2. 1..(n + 1) = 1..n \cup {n + 1}
    BY <1>1
<1> QED BY <1>1, <1>2 DEF Ahead, n, gs

LEMMA AheadPop ==
    ASSUME frames \in Seq(Seq(Uris)), frames # <<>>, Last(frames) = <<>>
    PROVE  Ahead(Front(frames)) = Ahead(frames)
<1> DEFINE n == Len(frames)
<1>1. /\ n \in Nat \ {0} /\ frames[n] = <<>> /\ Len(Front(frames)) = n - 1
      /\ \A i \in 1..(n - 1) : i \in 1..n /\ Front(frames)[i] = frames[i]
    BY PopFacts
<1> HIDE DEF n
<1>2. ToSet(frames[n]) = {} /\ 1..n = 1..(n - 1) \cup {n}
    BY <1>1 DEF ToSet
<1> QED BY <1>1, <1>2 DEF Ahead, n

LeadsTo(d) == [u \in Uris |-> Children(d)[u] \cup Targets(d)[u]]

LEMMA LeadsToType ==
    ASSUME NEW d \in Dumps
    PROVE  /\ LeadsTo(d) \in [Uris -> SUBSET Uris]
           /\ \A u \in Uris : LeadsTo(d)[u] = IF u \in d.objects
                                              THEN ToSet(d.children[u]) \cup ToSet(d.targets[u]) ELSE {}
BY DumpFacts DEF LeadsTo, Children, Targets

LEMMA ReachedFacts ==
    ASSUME NEW d \in Dumps, NEW ep \in Uris
    PROVE  /\ Reached(d, ep) \subseteq Uris /\ ep \in Reached(d, ep)
           /\ Shut(LeadsTo(d), Reached(d, ep))
           /\ \A S \in SUBSET Uris : ep \in S /\ Shut(LeadsTo(d), S) => Reached(d, ep) \subseteq S
BY LeadsToType, FromFacts DEF Reached, LeadsTo

\* Printed, to be printed, or warned of.
Seen == ToSet(printed) \cup Ahead(frames) \cup {u \in Uris : <<"missing", u>> \in report}

\* Nothing that ep-info meets is lost: an object that was visited is printed or
\* will be, and what a printed object leads to was seen.
NothingLost ==
    LET R == Reached(dump, input[2])
    IN  /\ input[2] \in Seen
        /\ Ahead(frames) \subseteq R
        /\ ToSet(printed) \subseteq R \cap dump.objects
        /\ report \subseteq Missing(R)
        /\ visited \subseteq dump.objects \cap (ToSet(printed) \cup Ahead(frames))
        /\ \A x \in ToSet(printed) : LeadsTo(dump)[x] \subseteq Seen

FollowsAll == cmd = "ep-info" /\ dump.children[input[2]] # <<>> => NothingLost

LEMMA EpInfoFollows ==
    ASSUME PolicyIdle, NEW d \in Dumps, NEW a \in Addresses, EpInfo(d, a)
    PROVE  FollowsAll'
<1>1. PICK ep \in UriOf(L2EpOf(d, a)) :
          /\ cmd' = "ep-info" /\ input' = <<d, ep, a>>
          /\ IF d.children[ep] = <<>> THEN printed' = <<ep>> /\ frames' = <<>>
             ELSE printed' = <<>> /\ frames' = <<<<ep>>>>
    BY DEF EpInfo
<1>2. ep \in Uris
    BY EpFacts
<1>3. visited' = {} /\ report' = {}
    BY DEF EpInfo, PolicyIdle
<1> SUFFICES ASSUME d.children[ep] # <<>> PROVE NothingLost'
    BY <1>1 DEF FollowsAll, dump
<1>4. printed' = <<>> /\ frames' = <<<<ep>>>>
    BY <1>1
<1>5. ToSet(printed') = {}
    BY <1>4 DEF ToSet
<1>6. Ahead(frames') = {ep}
    <2>1. ToSet(<<ep>>) = {ep} /\ Len(<<<<ep>>>>) = 1 /\ <<<<ep>>>>[1] = <<ep>> /\ 1..1 = {1}
        BY DEF ToSet
    <2> QED BY <1>4, <2>1 DEF Ahead
<1>7. dump' = d /\ input'[2] = ep
    BY <1>1 DEF dump
<1>8. ep \in Reached(d, ep)
    BY <1>2, ReachedFacts
<1>9. Seen' = ToSet(printed') \cup Ahead(frames') \cup {u \in Uris : <<"missing", u>> \in report'}
    BY DEF Seen
<1>10. Reached(dump, input[2])' = Reached(d, ep)
    BY <1>7 DEF Reached, Children, Targets
<1> QED BY <1>3, <1>5, <1>6, <1>7, <1>8, <1>9, <1>10 DEF NothingLost

LEMMA PrintObjectFollows == PolicyBase /\ FollowsAll /\ PrintObject => FollowsAll'
<1> SUFFICES ASSUME PolicyBase, FollowsAll, PrintObject, (dump.children[input[2]] # <<>>)'
             PROVE  NothingLost'
    BY DEF FollowsAll
<1> DEFINE ep == input[2]
           R == Reached(dump, ep)
           cur == Current
           kids == dump.children[cur]
           refs == dump.targets[cur]
           more == TargetsOf(cur)
<1>1. /\ frames \in Seq(Seq(Uris)) /\ frames # <<>> /\ Last(frames) # <<>> /\ cmd = "ep-info"
      /\ printed \in Seq(Uris) /\ cur \in dump.objects
    BY DEF PolicyBase, PolicyTypeOK, PrintObject, InLoop
<1>2. cur \in Uris /\ NextTurn \in Seq(Seq(Uris))
    BY <1>1, TurnFacts
<1>3. dump \in Dumps /\ ep \in Uris
    BY <1>1, EpInfoInput
<1>4. kids \in Seq(Uris) /\ refs \in Seq(Uris) /\ ToSet(refs) \subseteq Uris
    BY <1>2, <1>3, DumpFacts
<1>5. more \in Seq(Uris) /\ ToSet(more) = (ToSet(refs) \cap dump.objects) \ visited
    BY <1>4, TargetsFacts
<1>6. /\ printed' = Append(printed, cur)
      /\ frames' = Append(NextTurn, kids \o more)
      /\ visited' = visited \cup ToSet(more)
      /\ report' = report \cup Missing(ToSet(refs))
      /\ UNCHANGED <<cmd, input>>
    BY DEF PrintObject
<1>7. dump' = dump /\ ep' = ep
    BY <1>6 DEF dump
<1>8. NothingLost
    BY <1>1, <1>6, <1>7 DEF FollowsAll
<1>9. LeadsTo(dump)[cur] = ToSet(kids) \cup ToSet(refs)
    BY <1>1, <1>2, <1>3, LeadsToType
<1> HIDE DEF cur, kids, refs, more
<1>10. ToSet(printed') = ToSet(printed) \cup {cur}
    BY <1>1, <1>2, <1>6, AppendFacts
<1>11. Ahead(frames) = {cur} \cup Ahead(NextTurn)
    BY <1>1, AheadTurn DEF cur
<1>12. Ahead(frames') = Ahead(NextTurn) \cup ToSet(kids) \cup ToSet(more)
    <2>1. kids \o more \in Seq(Uris) /\ ToSet(kids \o more) = ToSet(kids) \cup ToSet(more)
        BY <1>4, <1>5, ConcatFacts
    <2> DEFINE step == kids \o more
    <2> HIDE DEF step
    <2>2. step \in Seq(Uris) /\ ToSet(step) = ToSet(kids) \cup ToSet(more)
        BY <2>1 DEF step
    <2>3. frames' = Append(NextTurn, step)
        BY <1>6 DEF step
    <2>4. Ahead(Append(NextTurn, step)) = Ahead(NextTurn) \cup ToSet(step)
        BY <1>2, <2>2, AheadPush
    <2> QED BY <2>2, <2>3, <2>4
<1>13. R' = R /\ LeadsTo(dump)' = LeadsTo(dump) /\ \A T : Missing(T)' = {"missing"} \X (T \ dump.objects)
    BY <1>7 DEF Reached, Children, Targets, LeadsTo, Missing
<1>14. /\ input[2] \in Seen /\ Ahead(frames) \subseteq R /\ ToSet(printed) \subseteq R \cap dump.objects
       /\ report \subseteq Missing(R) /\ visited \subseteq dump.objects \cap (ToSet(printed) \cup Ahead(frames))
       /\ \A x \in ToSet(printed) : LeadsTo(dump)[x] \subseteq Seen
    BY <1>8 DEF NothingLost
<1>15. R \subseteq Uris /\ Shut(LeadsTo(dump), R)
    BY <1>3, ReachedFacts
<1> HIDE DEF R, ep
<1>16. cur \in R /\ ToSet(kids) \cup ToSet(refs) \subseteq R
    BY <1>9, <1>11, <1>14, <1>15 DEF Shut
<1> DEFINE gone == {u \in Uris : <<"missing", u>> \in report}
           gone1 == {u \in Uris : <<"missing", u>> \in report'}
<1>17. gone1 = gone \cup (ToSet(refs) \ dump.objects)
    BY <1>4, <1>6 DEF Missing
<1>18. Seen = ToSet(printed) \cup Ahead(frames) \cup gone /\ Seen' = ToSet(printed') \cup Ahead(frames') \cup gone1
    BY DEF Seen
<1> HIDE DEF gone, gone1
<1>19. ToSet(printed) \cup Ahead(frames) \subseteq ToSet(printed') \cup Ahead(frames')
    BY <1>10, <1>11, <1>12
<1>20. Seen \subseteq Seen'
    BY <1>17, <1>18, <1>19
<1>21. visited' \subseteq dump.objects \cap (ToSet(printed') \cup Ahead(frames'))
    BY <1>5, <1>6, <1>12, <1>14, <1>19
<1>22. ToSet(kids) \cup ToSet(refs) \subseteq Seen'
    <2>1. ToSet(refs) \subseteq ToSet(more) \cup visited \cup (ToSet(refs) \ dump.objects)
        BY <1>5
    <2> QED BY <1>6, <1>12, <1>17, <1>18, <1>21, <2>1
<1>23. report' \subseteq Missing(R)
    BY <1>6, <1>14, <1>16 DEF Missing
<1>24. Ahead(frames') \subseteq R
    BY <1>5, <1>11, <1>12, <1>14, <1>16
<1>25. \A x \in ToSet(printed') : LeadsTo(dump)[x] \subseteq Seen'
    BY <1>9, <1>10, <1>14, <1>20, <1>22
<1>26. ToSet(printed') \subseteq R \cap dump.objects
    BY <1>1, <1>10, <1>14, <1>16
<1> QED BY <1>6, <1>7, <1>13, <1>14, <1>20, <1>21, <1>23, <1>24, <1>25, <1>26 DEF NothingLost, R, ep, Missing

LEMMA WarnMissingFollows == PolicyBase /\ FollowsAll /\ WarnMissing => FollowsAll'
<1> SUFFICES ASSUME PolicyBase, FollowsAll, WarnMissing, (dump.children[input[2]] # <<>>)'
             PROVE  NothingLost'
    BY DEF FollowsAll
<1> DEFINE ep == input[2]
           R == Reached(dump, ep)
           cur == Current
<1>1. /\ frames \in Seq(Seq(Uris)) /\ frames # <<>> /\ Last(frames) # <<>> /\ cmd = "ep-info"
      /\ cur \notin dump.objects
    BY DEF PolicyBase, PolicyTypeOK, WarnMissing, InLoop
<1>2. cur \in Uris
    BY <1>1, TurnFacts
<1>3. /\ frames' = NextTurn /\ report' = report \cup Missing({cur})
      /\ UNCHANGED <<cmd, input, printed, visited>>
    BY DEF WarnMissing
<1>4. dump' = dump
    BY <1>3 DEF dump
<1>5. NothingLost
    BY <1>1, <1>3, <1>4 DEF FollowsAll
<1> HIDE DEF cur
<1>6. Ahead(frames) = {cur} \cup Ahead(frames')
    BY <1>1, <1>3, AheadTurn DEF cur
<1>7. R' = R /\ LeadsTo(dump)' = LeadsTo(dump) /\ \A T : Missing(T)' = {"missing"} \X (T \ dump.objects)
    BY <1>3, <1>4 DEF Reached, Children, Targets, LeadsTo, Missing
<1>8. /\ input[2] \in Seen /\ Ahead(frames) \subseteq R /\ ToSet(printed) \subseteq R \cap dump.objects
      /\ report \subseteq Missing(R) /\ visited \subseteq dump.objects \cap (ToSet(printed) \cup Ahead(frames))
      /\ \A x \in ToSet(printed) : LeadsTo(dump)[x] \subseteq Seen
    BY <1>5 DEF NothingLost
<1> HIDE DEF R
<1> DEFINE gone == {u \in Uris : <<"missing", u>> \in report}
           gone1 == {u \in Uris : <<"missing", u>> \in report'}
<1>9. gone1 = gone \cup {cur}
    BY <1>1, <1>2, <1>3 DEF Missing
<1>10. Seen = ToSet(printed) \cup Ahead(frames) \cup gone /\ Seen' = ToSet(printed') \cup Ahead(frames') \cup gone1
    BY DEF Seen
<1> HIDE DEF gone, gone1
<1>11. Seen \subseteq Seen'
    BY <1>3, <1>6, <1>9, <1>10
\* It is not in the dump, so it was not visited.
<1>12. cur \notin visited
    BY <1>1, <1>8
<1> QED BY <1>3, <1>4, <1>6, <1>7, <1>8, <1>11, <1>12 DEF NothingLost, R, Missing

LEMMA ReturnFollows == PolicyBase /\ FollowsAll /\ Return => FollowsAll'
<1> SUFFICES ASSUME PolicyBase, FollowsAll, Return, cmd = "ep-info" /\ dump.children[input[2]] # <<>>
             PROVE  NothingLost'
    BY DEF FollowsAll, Return, dump
<1>1. /\ NothingLost /\ frames' = Front(frames)
      /\ UNCHANGED <<input, printed, visited, report>>
    BY DEF FollowsAll, Return
<1>2. Ahead(frames') = Ahead(frames)
    BY <1>1, AheadPop DEF Return, PolicyBase, PolicyTypeOK
<1>3. dump' = dump /\ Seen' = Seen
    BY <1>1, <1>2 DEF dump, Seen
<1>4. /\ Reached(dump, input[2])' = Reached(dump, input[2]) /\ LeadsTo(dump)' = LeadsTo(dump)
      /\ Missing(Reached(dump, input[2]))' = Missing(Reached(dump, input[2]))
    BY <1>1, <1>3 DEF Reached, Children, Targets, LeadsTo, Missing
<1> QED BY <1>1, <1>2, <1>3, <1>4 DEF NothingLost

LEMMA StartFollows == PolicyIdle /\ PolicyStart => FollowsAll'
<1> SUFFICES ASSUME PolicyIdle, PolicyStart PROVE FollowsAll'
    OBVIOUS
<1>1. CASE \E d \in Dumps, a \in Addresses : EpInfo(d, a)
    BY <1>1, EpInfoFollows
<1>2. CASE cmd' # "ep-info"
    BY <1>2 DEF FollowsAll
<1> QED BY <1>1, <1>2 DEF PolicyStart, LoadAim, EpInfoShort, FindUnresolved, Diff, DiffShort

LEMMA StepFollows == PolicyBase /\ FollowsAll /\ PolicyStep => FollowsAll'
<1> SUFFICES ASSUME PolicyBase, FollowsAll, PolicyStep PROVE FollowsAll'
    OBVIOUS
<1>1. CASE cmd' # "ep-info"
    BY <1>1 DEF FollowsAll
<1>2. FlattenObject \/ PolicyExit => cmd' # "ep-info"
    BY DEF FlattenObject, InLoop, PolicyExit
<1> QED BY <1>1, <1>2, PrintObjectFollows, WarnMissingFollows, ReturnFollows DEF PolicyStep

\* At the end what was seen was printed or warned of, so nothing is missing from it.
LEMMA AllPrinted == PolicyBase /\ FollowsAll => EverythingPrinted
<1> SUFFICES ASSUME PolicyBase, FollowsAll, cmd = "ep-info", frames = <<>>, dump.children[input[2]] # <<>>
             PROVE  /\ ToSet(printed) = Reached(dump, input[2]) \cap dump.objects
                    /\ report = Missing(Reached(dump, input[2]))
    BY DEF EverythingPrinted, Ended
<1> DEFINE ep == input[2]
           R == Reached(dump, ep)
           gone == {u \in Uris : <<"missing", u>> \in report}
<1>1. dump \in Dumps /\ ep \in Uris
    BY EpInfoInput
<1>2. /\ ep \in Seen /\ ToSet(printed) \subseteq R \cap dump.objects
      /\ report \subseteq Missing(R)
      /\ \A x \in ToSet(printed) : LeadsTo(dump)[x] \subseteq Seen
    BY DEF FollowsAll, NothingLost
<1>3. Ahead(frames) = {}
    BY DEF Ahead
<1>4. Seen = ToSet(printed) \cup gone
    BY <1>3 DEF Seen
<1>5. R \subseteq Uris /\ \A S \in SUBSET Uris : ep \in S /\ Shut(LeadsTo(dump), S) => R \subseteq S
    BY <1>1, ReachedFacts
<1>6. \A u \in gone : u \notin dump.objects
    BY <1>2 DEF Missing
<1>7. \A u \in gone : LeadsTo(dump)[u] = {}
    BY <1>1, <1>6, LeadsToType
<1> HIDE DEF R, ep
<1>8. Shut(LeadsTo(dump), Seen) /\ Seen \in SUBSET Uris
    BY <1>2, <1>4, <1>5, <1>7 DEF Shut
<1>9. R \subseteq ToSet(printed) \cup gone
    BY <1>2, <1>4, <1>5, <1>8
<1>10. ToSet(printed) = R \cap dump.objects
    BY <1>2, <1>6, <1>9
<1>11. Missing(R) \subseteq report
    BY <1>2, <1>9, <1>10 DEF Missing
<1> QED BY <1>2, <1>10, <1>11 DEF R, ep

----------------------------------------------------------------------------
(* What flatten_dict makes of a dump of the AIM database *)

\* No object of top is twice in a list.
Solo(s, top) == \A j, k \in 1..Len(s) : s[j] = s[k] /\ s[j] \in top => j = k

LEMMA SoloTail ==
    ASSUME NEW s \in Seq(Uris), s # <<>>, NEW top, Solo(s, top)
    PROVE  Solo(Tail(s), top) /\ (Head(s) \in top => Head(s) \notin ToSet(Tail(s)))
<1> DEFINE t == Tail(s)
<1>1. /\ \A k \in 1..Len(t) : k + 1 \in 1..Len(s) /\ t[k] = s[k + 1]
      /\ 1 \in 1..Len(s) /\ Head(s) = s[1] /\ DOMAIN t = 1..Len(t) /\ Len(t) \in Nat
    BY TailFacts
<1> HIDE DEF t
<1>2. \A j, k \in 1..Len(t) : j + 1 = k + 1 => j = k
    OBVIOUS
<1>3. \A k \in 1..Len(t) : k + 1 # 1
    OBVIOUS
<1>4. \A u : u \in ToSet(t) => \E k \in 1..Len(t) : u = t[k]
    BY <1>1 DEF ToSet
<1>5. Solo(t, top)
    BY <1>1, <1>2 DEF Solo
<1>6. Head(s) \in top => Head(s) \notin ToSet(t)
    BY <1>1, <1>3, <1>4 DEF Solo
<1> QED BY <1>5, <1>6 DEF t

LEMMA SoloConcat ==
    ASSUME NEW s \in Seq(Uris), NEW t \in Seq(Uris), NEW top, Solo(s, top), ToSet(t) \cap top = {}
    PROVE  Solo(s \o t, top)
<1> DEFINE m == Len(s)
           n == Len(t)
           c == s \o t
<1>1. /\ m \in Nat /\ n \in Nat /\ Len(c) = m + n
      /\ \A k \in 1..m : c[k] = s[k]
      /\ \A k \in (m + 1)..(m + n) : c[k] = t[k - m] /\ k - m \in 1..n
      /\ DOMAIN t = 1..n
    OBVIOUS
<1> HIDE DEF m, n, c
<1>2. \A k \in 1..n : t[k] \notin top
    BY <1>1 DEF ToSet
<1>3. \A k \in 1..(m + n) : k \in 1..m \/ k \in (m + 1)..(m + n)
    BY <1>1
<1>4. \A k \in 1..(m + n) : c[k] \in top => k \in 1..m
    BY <1>1, <1>2, <1>3
<1> QED BY <1>1, <1>4 DEF Solo, m, c

\* f.top and f.children, without what is above them in ForestAssumption.
LEMMA ForestFacts ==
    ASSUME NEW f \in Forests
    PROVE  /\ f.top \in Seq(Uris) /\ IsInjective(f.top)
           /\ \A u \in Uris : /\ f.children[u] \in Seq(Uris) /\ IsInjective(f.children[u])
                              /\ ToSet(f.children[u]) \cap ToSet(f.top) = {}
           /\ \A u, v \in Uris : u # v => ToSet(f.children[u]) \cap ToSet(f.children[v]) = {}
<1>1. f.top \in Seq(Uris) /\ f.children \in [Uris -> Seq(Uris)]
    BY ForestTypes
<1> QED BY <1>1, ForestAssumption

\* Where flatten_dict has come: an object that still has its children is waited
\* for by a loop, and all others have theirs in the list.  Those at the top are
\* met once.
Flattening(f) ==
    LET top == ToSet(f.top)
    IN  /\ \A u \in Uris : nested[u] = f.children[u] \/ nested[u] = <<>>
        /\ IsInjective(policy)
        /\ ToSet(policy) = top \cup UNION {ToSet(f.children[u]) : u \in {u \in Uris : nested[u] = <<>>}}
        /\ \A u \in ToSet(policy) : nested[u] = <<>> \/ u \in Ahead(frames)
        /\ \A u \in top : IF u \in Ahead(frames) THEN nested[u] = f.children[u]
                          ELSE children[u] = f.children[u]
        /\ \A i \in 1..Len(frames) : IF i = 1 THEN Solo(frames[i], top)
                                     ELSE ToSet(frames[i]) \cap top = {}

Flattens == cmd = "aim" => Flattening(input[1])

LEMMA SoloInjective ==
    ASSUME NEW s \in Seq(Uris), NEW top, IsInjective(s)
    PROVE  Solo(s, top)
BY DEF Solo, IsInjective

LEMMA LoadAimFlattens ==
    ASSUME PolicyIdle, NEW f \in Forests, LoadAim(f)
    PROVE  Flattens'
<1>1. /\ cmd' = "aim" /\ input' = <<f>> /\ frames' = <<f.top>>
      /\ policy' = f.top /\ nested' = f.children
    BY DEF LoadAim
<1>2. f.top \in Seq(Uris) /\ IsInjective(f.top) /\ \A u \in Uris : f.children[u] \in Seq(Uris)
    BY ForestFacts
<1> DEFINE top == ToSet(f.top)
<1>3. top \subseteq Uris
    BY <1>2 DEF ToSet
<1>4. Ahead(frames') = top
    <2>1. Len(<<f.top>>) = 1 /\ <<f.top>>[1] = f.top /\ 1..1 = {1}
        OBVIOUS
    <2> QED BY <1>1, <2>1 DEF Ahead
<1>5. UNION {ToSet(f.children[u]) : u \in {u \in Uris : f.children[u] = <<>>}} = {}
    BY DEF ToSet
<1>6. Solo(f.top, top)
    BY <1>2, SoloInjective
<1>7. Len(frames') = 1 /\ frames'[1] = f.top /\ \A i \in 1..1 : i = 1
    BY <1>1
<1> HIDE DEF top
<1>8. Flattening(f)'
    BY <1>1, <1>2, <1>3, <1>4, <1>5, <1>6, <1>7 DEF Flattening, top
<1> QED BY <1>1, <1>8 DEF Flattens, Flattening, Solo

LEMMA AimInput ==
    ASSUME PolicyBase, cmd = "aim"
    PROVE  input[1] \in Forests
BY DEF PolicyBase, Inputs

LEMMA FlattenObjectFlattens == PolicyBase /\ Flattens /\ FlattenObject => Flattens'
<1> SUFFICES ASSUME PolicyBase, Flattens, FlattenObject PROVE Flattens'
    OBVIOUS
<1> DEFINE f == input[1]
           top == ToSet(f.top)
           cur == Current
           kids == nested[cur]
           n == Len(frames)
           grown == [NextTurn EXCEPT ![1] = @ \o kids]
           done == {u \in Uris : nested[u] = <<>>}
           done1 == {u \in Uris : nested'[u] = <<>>}
<1>1. /\ frames \in Seq(Seq(Uris)) /\ frames # <<>> /\ Last(frames) # <<>> /\ cmd = "aim"
      /\ nested \in [Uris -> Seq(Uris)] /\ children \in [Uris -> Seq(Uris)] /\ policy \in Seq(Uris)
    BY DEF PolicyBase, PolicyTypeOK, FlattenObject, InLoop
<1>2. /\ n \in Nat \ {0} /\ n \in 1..n /\ 1 \in 1..n /\ frames[n] \in Seq(Uris) /\ frames[n] # <<>>
      /\ cur \in Uris /\ cur = Head(frames[n]) /\ NextTurn \in Seq(Seq(Uris)) /\ Len(NextTurn) = n
      /\ \A i \in 1..n : frames[i] \in Seq(Uris) /\ NextTurn[i] \in Seq(Uris)
      /\ \A i \in 1..n : NextTurn[i] = IF i = n THEN Tail(frames[n]) ELSE frames[i]
    BY <1>1, TurnFacts
<1>3. f \in Forests
    BY <1>1, AimInput
<1>4. kids \in Seq(Uris)
    BY <1>1, <1>2
<1>5. /\ nested' = [nested EXCEPT ![cur] = <<>>]
      /\ children' = [children EXCEPT ![cur] = kids]
      /\ policy' = policy \o kids
      /\ frames' = Append(grown, kids)
      /\ UNCHANGED <<cmd, input>>
    BY DEF FlattenObject
<1>6. Flattening(f)
    BY <1>1 DEF Flattens
<1>7. /\ f.top \in Seq(Uris) /\ top \subseteq Uris
      /\ \A u \in Uris : /\ f.children[u] \in Seq(Uris) /\ IsInjective(f.children[u])
                         /\ ToSet(f.children[u]) \cap top = {}
      /\ \A u, v \in Uris : u # v => ToSet(f.children[u]) \cap ToSet(f.children[v]) = {}
    <2>1. ToSet(f.top) \subseteq Uris
        BY <1>3, ForestFacts DEF ToSet
    <2> QED BY <1>3, <2>1, ForestFacts
<1>8. grown \in Seq(Seq(Uris)) /\ Len(grown) = n
      /\ \A i \in 1..n : grown[i] = IF i = 1 THEN NextTurn[1] \o kids ELSE NextTurn[i]
    <2> HIDE DEF kids, n
    <2> QED BY <1>2, <1>4, GrowFacts
<1>9. Ahead(frames) = {cur} \cup Ahead(NextTurn)
    BY <1>1, AheadTurn
<1> HIDE DEF kids, cur, grown
<1>10. Ahead(frames') = Ahead(NextTurn) \cup ToSet(kids)
    <2>1. Ahead(frames') = Ahead(grown) \cup ToSet(kids)
        BY <1>4, <1>5, <1>8, AheadPush
    <2>2. ToSet(NextTurn[1] \o kids) = ToSet(NextTurn[1]) \cup ToSet(kids)
        BY <1>2, <1>4, ConcatFacts
    <2>3. Ahead(grown) = Ahead(NextTurn) \cup ToSet(kids)
        <3> HIDE DEF n
        <3>1. \A i \in 1..n : ToSet(grown[i]) = ToSet(NextTurn[i]) \cup (IF i = 1 THEN ToSet(kids) ELSE {})
            BY <1>8, <2>2
        <3>2. Ahead(grown) = UNION {ToSet(grown[i]) : i \in 1..n}
              /\ Ahead(NextTurn) = UNION {ToSet(NextTurn[i]) : i \in 1..n}
            BY <1>2, <1>8 DEF Ahead
        <3> QED BY <1>2, <3>1, <3>2
    <2> QED BY <2>1, <2>3
<1>11. /\ Len(frames') = n + 1 /\ frames'[n + 1] = kids
       /\ \A i \in 1..n : frames'[i] = grown[i]
    <2> HIDE DEF n
    <2> QED BY <1>4, <1>5, <1>8, PushFacts
<1> HIDE DEF f, n
<1>12. /\ \A u \in Uris : nested[u] = f.children[u] \/ nested[u] = <<>>
       /\ IsInjective(policy)
       /\ ToSet(policy) = top \cup UNION {ToSet(f.children[u]) : u \in done}
       /\ \A u \in ToSet(policy) : nested[u] = <<>> \/ u \in Ahead(frames)
       /\ \A u \in top : IF u \in Ahead(frames) THEN nested[u] = f.children[u]
                         ELSE children[u] = f.children[u]
       /\ \A i \in 1..n : IF i = 1 THEN Solo(frames[i], top) ELSE ToSet(frames[i]) \cap top = {}
    BY <1>6 DEF Flattening, n
<1> HIDE DEF top
<1>13. kids = f.children[cur] \/ kids = <<>>
    BY <1>2, <1>12 DEF kids
<1>14. ToSet(<<>>) = {} /\ IsInjective(<<>>)
    BY DEF ToSet, IsInjective
<1>15. ToSet(kids) \cap top = {} /\ IsInjective(kids)
    BY <1>2, <1>7, <1>13, <1>14
<1>16. /\ \A u \in Uris : nested'[u] = IF u = cur THEN <<>> ELSE nested[u]
       /\ \A u \in Uris : children'[u] = IF u = cur THEN kids ELSE children[u]
    BY <1>1, <1>2, <1>5
<1>17. done1 = done \cup {cur}
    BY <1>2, <1>16
<1>18. ToSet(kids) \cap ToSet(policy) = {}
    <2>1. CASE kids = <<>>
        BY <1>14, <2>1
    <2>2. CASE kids # <<>>
        <3>1. kids = f.children[cur] /\ cur \notin done
            BY <1>13, <2>2 DEF kids
        <3>2. \A u \in done : ToSet(f.children[u]) \cap ToSet(kids) = {}
            BY <1>2, <1>7, <3>1
        <3> HIDE DEF done
        <3> QED BY <1>12, <1>15, <3>2
    <2> QED BY <2>1, <2>2
<1>19. policy' \in Seq(Uris) /\ ToSet(policy') = ToSet(policy) \cup ToSet(kids) /\ IsInjective(policy')
    BY <1>1, <1>4, <1>5, <1>12, <1>15, <1>18, ConcatFacts
<1>20. ToSet(policy') = top \cup UNION {ToSet(f.children[u]) : u \in done1}
    <2>1. CASE cur \in done
        <3>1. kids = <<>> /\ done1 = done
            BY <1>17, <2>1 DEF kids
        <3> HIDE DEF done, done1
        <3> QED BY <1>12, <1>14, <1>19, <3>1
    <2>2. CASE cur \notin done
        <3>1. kids = f.children[cur]
            BY <1>2, <1>13, <2>2 DEF kids
        <3> HIDE DEF done, done1
        <3> QED BY <1>12, <1>17, <1>19, <3>1
    <2> QED BY <2>1, <2>2
<1>21. \A u \in ToSet(policy') : nested'[u] = <<>> \/ u \in Ahead(frames')
    <2>1. ToSet(policy') \subseteq Uris
        BY <1>19 DEF ToSet
    <2> QED BY <1>9, <1>10, <1>12, <1>16, <1>19, <2>1
\* An object at the top is met by the outermost loop only, and just once.
<1>22. cur \in top => n = 1 /\ cur \notin ToSet(NextTurn[1])
    <2> SUFFICES ASSUME cur \in top PROVE n = 1 /\ cur \notin ToSet(NextTurn[1])
        OBVIOUS
    <2>1. cur \in ToSet(frames[n])
        BY <1>2, TailFacts
    <2>2. n = 1
        BY <1>2, <1>12, <2>1
    <2>3. Solo(frames[n], top) /\ NextTurn[1] = Tail(frames[n])
        BY <1>2, <1>12, <2>2
    <2> QED BY <1>2, <2>2, <2>3, SoloTail
<1>23. cur \in top => cur \notin Ahead(frames')
    <2> SUFFICES ASSUME cur \in top PROVE cur \notin Ahead(frames')
        OBVIOUS
    <2>1. Len(NextTurn) = 1 /\ \A i \in 1..1 : i = 1
        BY <1>2, <1>22
    <2>2. cur \notin Ahead(NextTurn)
        BY <1>22, <2>1 DEF Ahead
    <2> QED BY <1>10, <1>15, <2>2
<1>24. \A u \in top : IF u \in Ahead(frames') THEN nested'[u] = f.children[u]
                      ELSE children'[u] = f.children[u]
    <2> SUFFICES ASSUME NEW u \in top
                 PROVE  IF u \in Ahead(frames') THEN nested'[u] = f.children[u]
                        ELSE children'[u] = f.children[u]
        OBVIOUS
    <2>1. u \in Uris
        BY <1>7
    <2>2. CASE u = cur
        <3>1. kids = f.children[cur]
            BY <1>9, <1>12, <2>2 DEF kids
        <3> QED BY <1>16, <1>23, <2>1, <2>2, <3>1
    <2>3. CASE u # cur
        <3>1. u \in Ahead(frames) <=> u \in Ahead(frames')
            BY <1>9, <1>10, <1>15, <2>3
        <3> QED BY <1>12, <1>16, <2>1, <2>3, <3>1
    <2> QED BY <2>2, <2>3
<1>25. \A i \in 1..(n + 1) : IF i = 1 THEN Solo(frames'[i], top) ELSE ToSet(frames'[i]) \cap top = {}
    <2> SUFFICES ASSUME NEW i \in 1..(n + 1)
                 PROVE  IF i = 1 THEN Solo(frames'[i], top) ELSE ToSet(frames'[i]) \cap top = {}
        OBVIOUS
    <2>1. i = n + 1 \/ i \in 1..n
        BY <1>2
    <2>2. n + 1 # 1
        BY <1>2
    <2>3. CASE i = n + 1
        BY <1>11, <1>15, <2>2, <2>3
    <2>4. CASE i \in 1..n /\ i # 1
        <3>1. frames'[i] = NextTurn[i] /\ ToSet(frames[i]) \cap top = {}
            BY <1>8, <1>11, <1>12, <2>4
        <3>2. ToSet(NextTurn[i]) \subseteq ToSet(frames[i])
            <4>1. ToSet(Tail(frames[n])) \subseteq ToSet(frames[n])
                BY <1>2, TailFacts
            <4> QED BY <1>2, <2>4, <4>1
        <3> QED BY <2>4, <3>1, <3>2
    <2>5. CASE i = 1
        <3>1. frames'[1] = NextTurn[1] \o kids
            BY <1>2, <1>8, <1>11
        <3>2. Solo(frames[1], top)
            BY <1>2, <1>12
        <3>3. Solo(NextTurn[1], top) /\ NextTurn[1] \in Seq(Uris)
            <4>1. CASE n = 1
                BY <1>2, <3>2, <4>1, SoloTail
            <4>2. CASE n # 1
                BY <1>2, <3>2, <4>2
            <4> QED BY <4>1, <4>2
        <3>4. Solo(frames'[1], top)
            BY <1>4, <1>15, <3>1, <3>3, SoloConcat
        <3> QED BY <2>5, <3>4
    <2> QED BY <2>1, <2>3, <2>4, <2>5
<1>26. \A u \in Uris : nested'[u] = f.children[u] \/ nested'[u] = <<>>
    BY <1>12, <1>16
<1>27. Flattening(f)'
    BY <1>5, <1>11, <1>19, <1>20, <1>21, <1>24, <1>25, <1>26 DEF Flattening, f, top
<1> QED BY <1>5, <1>27 DEF Flattens, f

LEMMA ReturnFlattens == PolicyBase /\ Flattens /\ Return => Flattens'
<1> SUFFICES ASSUME PolicyBase, Flattens, Return, cmd = "aim" PROVE Flattening(input[1])'
    BY DEF Flattens, Return
<1> DEFINE n == Len(frames)
<1>1. /\ Flattening(input[1]) /\ frames' = Front(frames) /\ Last(frames) = <<>> /\ frames # <<>>
      /\ frames \in Seq(Seq(Uris)) /\ UNCHANGED <<input, nested, children, policy>>
    BY DEF Flattens, Return, PolicyBase, PolicyTypeOK
<1>2. Ahead(frames') = Ahead(frames)
    BY <1>1, AheadPop
<1>3. Len(frames') = n - 1 /\ \A i \in 1..(n - 1) : i \in 1..n /\ frames'[i] = frames[i]
    BY <1>1, PopFacts
<1> HIDE DEF n
<1> QED BY <1>1, <1>2, <1>3 DEF Flattening, n

LEMMA StartFlattens == PolicyIdle /\ PolicyStart => Flattens'
<1> SUFFICES ASSUME PolicyIdle, PolicyStart PROVE Flattens'
    OBVIOUS
<1>1. CASE \E f \in Forests : LoadAim(f)
    BY <1>1, LoadAimFlattens
<1>2. CASE cmd' # "aim"
    BY <1>2 DEF Flattens
<1> QED BY <1>1, <1>2 DEF PolicyStart, EpInfo, EpInfoShort, FindUnresolved, Diff, DiffShort

LEMMA StepFlattens == PolicyBase /\ Flattens /\ PolicyStep => Flattens'
<1> SUFFICES ASSUME PolicyBase, Flattens, PolicyStep PROVE Flattens'
    OBVIOUS
<1>1. CASE cmd' # "aim"
    BY <1>1 DEF Flattens
<1>2. PrintObject \/ WarnMissing \/ PolicyExit => cmd' # "aim"
    BY DEF PrintObject, WarnMissing, InLoop, PolicyExit
<1> QED BY <1>1, <1>2, FlattenObjectFlattens, ReturnFlattens DEF PolicyStep

\* At the end no object in the list has its children left, and so all are in it.
LEMMA AllFlattened == PolicyBase /\ Flattens => FlattenedOnce
<1> SUFFICES ASSUME PolicyBase, Flattens, cmd = "aim", frames = <<>>
             PROVE  /\ IsInjective(policy)
                    /\ ToSet(policy) = ToSet(input[1].top) \cup UNION {ToSet(input[1].children[u]) : u \in Uris}
                    /\ \A u \in ToSet(input[1].top) : children[u] = input[1].children[u]
    BY DEF FlattenedOnce, Ended
<1> DEFINE f == input[1]
           top == ToSet(f.top)
           S == ToSet(policy)
<1>1. Flattening(f) /\ f \in Forests /\ policy \in Seq(Uris)
    BY AimInput DEF Flattens, PolicyBase, PolicyTypeOK
<1>2. Ahead(frames) = {}
    BY DEF Ahead
<1>3. /\ \A u \in Uris : nested[u] = f.children[u] \/ nested[u] = <<>>
      /\ IsInjective(policy)
      /\ S = top \cup UNION {ToSet(f.children[u]) : u \in {u \in Uris : nested[u] = <<>>}}
      /\ \A u \in S : nested[u] = <<>>
      /\ \A u \in top : children[u] = f.children[u]
    BY <1>1, <1>2 DEF Flattening
<1>4. S \in SUBSET Uris
    BY <1>1 DEF ToSet
<1> HIDE DEF f, top, S
<1>5. top \cup UNION {ToSet(f.children[u]) : u \in S} \subseteq S
    BY <1>3, <1>4
<1>6. {u \in Uris : f.children[u] # <<>>} \subseteq S
    BY <1>1, <1>4, <1>5, ForestAssumption DEF top
<1>7. \A u \in Uris : nested[u] = <<>>
    BY <1>3, <1>6
<1>8. S = top \cup UNION {ToSet(f.children[u]) : u \in Uris}
    BY <1>3, <1>7
<1> QED BY <1>3, <1>8 DEF f, top, S

----------------------------------------------------------------------------
(* How often ep-info prints an object *)

Below(d, x) == From(Children(d), x)
Above(u) == {x \in Uris : u \in Below(dump, x)}

LEMMA ChildrenFacts ==
    ASSUME NEW d \in Dumps
    PROVE  /\ Children(d) \in [Uris -> SUBSET Uris]
           /\ \A u \in Uris : Children(d)[u] = IF u \in d.objects THEN ToSet(d.children[u]) ELSE {}
BY DumpFacts DEF Children

LEMMA BelowFacts ==
    ASSUME NEW d \in Dumps, NEW x \in Uris
    PROVE  /\ Below(d, x) \subseteq Uris /\ x \in Below(d, x)
           /\ \A p \in Below(d, x) : Children(d)[p] \subseteq Below(d, x)
           /\ \A S \in SUBSET Uris : x \in S /\ Shut(Children(d), S) => Below(d, x) \subseteq S
BY ChildrenFacts, FromFacts DEF Below, Shut

\* What is below an object, is below its parent or is the object itself.
LEMMA BelowSplit ==
    ASSUME NEW d \in Dumps, NEW x \in Uris, NEW u
    PROVE  u \in Below(d, x) <=> u = x \/ \E c \in Children(d)[x] : u \in Below(d, c)
<1>1. Children(d)[x] \subseteq Uris /\ Children(d)[x] \subseteq Below(d, x)
    BY ChildrenFacts, BelowFacts
<1> DEFINE S == {x} \cup UNION {Below(d, c) : c \in Children(d)[x]}
<1>2. Below(d, x) \subseteq S
    <2>1. S \in SUBSET Uris
        BY <1>1, BelowFacts
    <2>2. Shut(Children(d), S)
        <3>1. ASSUME NEW p \in S PROVE Children(d)[p] \subseteq S
            <4>1. CASE p = x
                BY <1>1, <4>1, BelowFacts
            <4>2. CASE \E c \in Children(d)[x] : p \in Below(d, c)
                BY <1>1, <4>2, BelowFacts
            <4> QED BY <3>1, <4>1, <4>2
        <3> HIDE DEF S
        <3> QED BY <3>1 DEF Shut
    <2>3. x \in S
        OBVIOUS
    <2> HIDE DEF S
    <2> QED BY <2>1, <2>2, <2>3, BelowFacts
<1>3. ASSUME NEW c \in Children(d)[x] PROVE Below(d, c) \subseteq Below(d, x)
    <2>1. Below(d, x) \in SUBSET Uris /\ Shut(Children(d), Below(d, x)) /\ c \in Below(d, x)
        BY <1>1, BelowFacts DEF Shut
    <2> QED BY <1>1, <2>1, BelowFacts
<1>4. x \in Below(d, x)
    BY BelowFacts
<1> QED BY <1>2, <1>3, <1>4

LEMMA LastStep ==
    ASSUME NEW d \in Dumps, NEW x \in Uris, NEW y \in Below(d, x), y # x
    PROVE  \E p \in Below(d, x) : y \in Children(d)[p]
<1> DEFINE S == {x} \cup {z \in Below(d, x) : \E p \in Below(d, x) : z \in Children(d)[p]}
<1>1. S \in SUBSET Uris /\ x \in S /\ S \subseteq Below(d, x)
    BY BelowFacts
<1>2. Shut(Children(d), S)
    BY <1>1, BelowFacts DEF Shut
<1>3. Below(d, x) \subseteq S
    <2> HIDE DEF S
    <2> QED BY <1>1, <1>2, BelowFacts
<1> QED BY <1>3

\* An object has one parent.
LEMMA OneParent ==
    ASSUME NEW d \in Dumps, NEW p \in Uris, NEW q \in Uris, NEW c,
           c \in Children(d)[p], c \in Children(d)[q]
    PROVE  p = q
BY ChildrenFacts, TreeAssumption

\* So nothing is below two children of an object.
LEMMA SiblingsApart ==
    ASSUME NEW d \in Dumps, NEW x \in Uris, NEW c1 \in Children(d)[x], NEW c2 \in Children(d)[x], c1 # c2
    PROVE  Below(d, c1) \cap Below(d, c2) = {}
<1>1. c1 \in Uris /\ c2 \in Uris
    BY ChildrenFacts
<1>2. x \notin Below(d, c1) /\ x \notin Below(d, c2)
    BY TreeAssumption DEF Below
<1> DEFINE S == Below(d, c1) \ Below(d, c2)
<1>3. S \in SUBSET Uris
    BY <1>1, BelowFacts
<1>4. c1 \in S
    <2>1. c1 \in Below(d, c1)
        BY <1>1, BelowFacts
    <2>2. ASSUME c1 \in Below(d, c2) PROVE FALSE
        <3>1. PICK p \in Below(d, c2) : c1 \in Children(d)[p]
            BY <1>1, <2>2, LastStep
        <3>2. p \in Uris
            BY <1>1, <3>1, BelowFacts
        <3>3. p = x
            BY <3>1, <3>2, OneParent
        <3> QED BY <1>2, <3>1, <3>3
    <2> QED BY <2>1, <2>2
<1>5. ASSUME NEW p \in S, NEW y \in Children(d)[p] PROVE y \in S
    <2>1. p \in Uris /\ y \in Below(d, c1)
        BY <1>1, BelowFacts
    <2>2. ASSUME y \in Below(d, c2) PROVE FALSE
        <3>1. CASE y = c2
            <4>1. p = x
                BY <2>1, <3>1, OneParent
            <4> QED BY <1>2, <4>1
        <3>2. CASE y # c2
            <4>1. PICK q \in Below(d, c2) : y \in Children(d)[q]
                BY <1>1, <2>2, <3>2, LastStep
            <4>2. q \in Uris
                BY <1>1, <4>1, BelowFacts
            <4>3. p = q
                BY <2>1, <4>1, <4>2, OneParent
            <4> QED BY <4>1, <4>3
        <3> QED BY <3>1, <3>2
    <2> QED BY <2>1, <2>2
<1>6. Below(d, c1) \subseteq S
    <2>1. Shut(Children(d), S)
        <3> HIDE DEF S
        <3> QED BY <1>5 DEF Shut
    <2> HIDE DEF S
    <2> QED BY <1>1, <1>3, <1>4, <2>1, BelowFacts
<1> QED BY <1>6

----------------------------------------------------------------------------
\* Where a list still leads to u.  Positions are counted from the end, which a
\* turn leaves where it is.
Left(s, u) == {r \in Nat : r < Len(s) /\ s[Len(s) - r] \in Above(u)}

Spots(fs, u) == UNION {{i} \X Left(fs[i], u) : i \in 1..Len(fs)}

LEMMA LeftFinite ==
    ASSUME NEW s \in Seq(Uris), NEW u
    PROVE  IsFiniteSet(Left(s, u)) /\ Left(s, u) \subseteq Nat
<1>1. Left(s, u) \in SUBSET (0..(Len(s) - 1)) /\ Len(s) \in Nat
    BY DEF Left
<1>2. IsFiniteSet(0..(Len(s) - 1))
    BY <1>1, FS_Interval
<1> QED BY <1>1, <1>2, FS_Subset DEF Left

LEMMA LeftTail ==
    ASSUME NEW s \in Seq(Uris), s # <<>>, NEW u
    PROVE  /\ Len(s) - 1 \notin Left(Tail(s), u)
           /\ Left(s, u) = IF Head(s) \in Above(u) THEN Left(Tail(s), u) \cup {Len(s) - 1}
                           ELSE Left(Tail(s), u)
<1> DEFINE n == Len(s)
           t == Tail(s)
<1>1. n \in Nat \ {0} /\ Len(t) = n - 1 /\ Head(s) = s[1] /\ \A k \in 1..(n - 1) : t[k] = s[k + 1]
    OBVIOUS
<1> HIDE DEF n, t
<1>2. \A r \in Nat : (r < n <=> r < n - 1 \/ r = n - 1) /\ ~(n - 1 < n - 1)
    BY <1>1
<1>3. \A r \in Nat : r < n - 1 => (n - 1) - r \in 1..(n - 1) /\ ((n - 1) - r) + 1 = n - r
    BY <1>1
<1>4. n - (n - 1) = 1 /\ n - 1 \in Nat
    BY <1>1
<1>5. \A r \in Nat : r < n - 1 => t[(n - 1) - r] = s[n - r]
    BY <1>1, <1>3
<1>6. Left(s, u) = {r \in Nat : r < n /\ s[n - r] \in Above(u)}
    BY DEF Left, n
<1>7. Left(t, u) = {r \in Nat : r < n - 1 /\ t[(n - 1) - r] \in Above(u)}
    BY <1>1 DEF Left
<1>8. \A r \in Left(t, u) : r \in Left(s, u) /\ r # n - 1
    BY <1>2, <1>5, <1>6, <1>7
<1>9. \A r \in Left(s, u) : r \in Left(t, u) \/ r = n - 1
    BY <1>2, <1>5, <1>6, <1>7
<1>10. n - 1 \in Left(s, u) <=> Head(s) \in Above(u)
    BY <1>1, <1>2, <1>4, <1>6
<1>11. n - 1 \notin Left(t, u)
    BY <1>8
<1>12. Left(s, u) = IF Head(s) \in Above(u) THEN Left(t, u) \cup {n - 1} ELSE Left(t, u)
    <2>1. CASE Head(s) \in Above(u)
        BY <1>8, <1>9, <1>10, <2>1
    <2>2. CASE Head(s) \notin Above(u)
        BY <1>8, <1>9, <1>10, <2>2
    <2> QED BY <2>1, <2>2
<1> QED BY <1>11, <1>12 DEF n, t

LEMMA LeftConcat ==
    ASSUME NEW s \in Seq(Uris), NEW t \in Seq(Uris), NEW u
    PROVE  /\ Left(s \o t, u) = Left(t, u) \cup {Len(t) + r : r \in Left(s, u)}
           /\ Left(t, u) \cap {Len(t) + r : r \in Left(s, u)} = {}
<1> DEFINE m == Len(s)
           n == Len(t)
           c == s \o t
<1>1. /\ m \in Nat /\ n \in Nat /\ Len(c) = m + n
      /\ \A k \in 1..m : c[k] = s[k]
      /\ \A k \in (m + 1)..(m + n) : c[k] = t[k - m]
    OBVIOUS
<1> HIDE DEF m, n, c
<1>2. \A r \in Nat : r < n => /\ (m + n) - r \in (m + 1)..(m + n) /\ ((m + n) - r) - m = n - r
                              /\ r < m + n
    BY <1>1
<1>3. \A r \in Nat : r < m => /\ m - r \in 1..m /\ (m + n) - (n + r) = m - r
                              /\ n + r < m + n /\ n + r \in Nat /\ ~(n + r < n)
    BY <1>1
<1>4. \A r \in Nat : r < m + n /\ ~(r < n) => r - n \in Nat /\ r - n < m /\ r = n + (r - n)
    BY <1>1
<1>5. Left(c, u) = {r \in Nat : r < m + n /\ c[(m + n) - r] \in Above(u)}
    BY <1>1 DEF Left
<1>6. Left(t, u) = {r \in Nat : r < n /\ t[n - r] \in Above(u)}
    BY DEF Left, n
<1>7. Left(s, u) = {r \in Nat : r < m /\ s[m - r] \in Above(u)}
    BY DEF Left, m
<1>8. \A r \in Nat : r < n => (r \in Left(c, u) <=> r \in Left(t, u))
    BY <1>1, <1>2, <1>5, <1>6
<1>9. \A r \in Nat : r < m => (n + r \in Left(c, u) <=> r \in Left(s, u))
    BY <1>1, <1>3, <1>5, <1>7
<1> DEFINE moved == {n + r : r \in Left(s, u)}
<1>10. \A x \in moved : x \in Left(c, u) /\ x \notin Left(t, u)
    BY <1>3, <1>6, <1>7, <1>9
<1>11. \A x \in Left(t, u) : x \in Left(c, u)
    BY <1>6, <1>8
<1>12. \A x \in Left(c, u) : x \in Left(t, u) \/ x \in moved
    <2> SUFFICES ASSUME NEW x \in Left(c, u), x \notin Left(t, u) PROVE x \in moved
        OBVIOUS
    <2>1. x \in Nat /\ x < m + n /\ ~(x < n)
        BY <1>5, <1>8
    <2>2. x - n \in Left(s, u) /\ x = n + (x - n)
        BY <1>4, <1>9, <2>1
    <2> QED BY <2>2
<1> HIDE DEF moved
<1>13. Left(c, u) = Left(t, u) \cup moved /\ Left(t, u) \cap moved = {}
    BY <1>10, <1>11, <1>12
<1> QED BY <1>13 DEF moved, c, n

SpotsBefore(fs, n, u) == UNION {{i} \X Left(fs[i], u) : i \in 1..(n - 1)}

LEMMA SpotsLast ==
    ASSUME NEW fs \in Seq(Seq(Uris)), NEW u, NEW n \in Nat \ {0}, n = Len(fs)
    PROVE  /\ Spots(fs, u) = SpotsBefore(fs, n, u) \cup ({n} \X Left(fs[n], u))
           /\ \A r : <<n, r>> \notin SpotsBefore(fs, n, u)
<1>1. 1..n = 1..(n - 1) \cup {n} /\ n \notin 1..(n - 1)
    OBVIOUS
<1>2. Spots(fs, u) = SpotsBefore(fs, n, u) \cup ({n} \X Left(fs[n], u))
    BY <1>1 DEF Spots, SpotsBefore
<1>3. \A r : <<n, r>> \notin SpotsBefore(fs, n, u)
    BY <1>1 DEF SpotsBefore
<1> QED BY <1>2, <1>3

\* A turn takes what the current URI leads to from the loops.
LEMMA SpotsTurn ==
    ASSUME frames \in Seq(Seq(Uris)), frames # <<>>, Last(frames) # <<>>, NEW u,
           IsFiniteSet(Spots(frames, u))
    PROVE  /\ IsFiniteSet(Spots(NextTurn, u))
           /\ Cardinality(Spots(frames, u)) \in Nat /\ Cardinality(Spots(NextTurn, u)) \in Nat
           /\ Cardinality(Spots(frames, u)) =
                 Cardinality(Spots(NextTurn, u)) + (IF Current \in Above(u) THEN 1 ELSE 0)
<1> DEFINE n == Len(frames)
           last == frames[n]
           l == Len(last) - 1
           first == SpotsBefore(frames, n, u)
           first1 == SpotsBefore(NextTurn, n, u)
<1>1. /\ n \in Nat \ {0} /\ n \in 1..n /\ last \in Seq(Uris) /\ last # <<>> /\ Current = Head(last)
      /\ NextTurn \in Seq(Seq(Uris)) /\ Len(NextTurn) = n
      /\ \A i \in 1..n : NextTurn[i] = IF i = n THEN Tail(last) ELSE frames[i]
    BY TurnFacts
<1>2. Spots(frames, u) = first \cup ({n} \X Left(last, u)) /\ \A r : <<n, r>> \notin first
    <2> HIDE DEF n
    <2> QED BY <1>1, SpotsLast DEF n
<1>3. Spots(NextTurn, u) = first1 \cup ({n} \X Left(Tail(last), u))
    <2>1. Spots(NextTurn, u) = first1 \cup ({n} \X Left(NextTurn[n], u))
        <3> HIDE DEF n
        <3> QED BY <1>1, SpotsLast
    <2> QED BY <1>1, <2>1
<1>4. first1 = first
    <2>1. \A i \in 1..(n - 1) : i \in 1..n /\ i # n
        BY <1>1
    <2> HIDE DEF n
    <2> QED BY <1>1, <2>1 DEF SpotsBefore
<1>5. /\ l \notin Left(Tail(last), u)
      /\ Left(last, u) = IF Current \in Above(u) THEN Left(Tail(last), u) \cup {l} ELSE Left(Tail(last), u)
    <2> HIDE DEF last
    <2> QED BY <1>1, LeftTail
<1> HIDE DEF first, first1, n, last, l
<1>6. <<n, l>> \notin Spots(NextTurn, u)
    BY <1>2, <1>3, <1>4, <1>5
<1>7. Spots(frames, u) = IF Current \in Above(u) THEN Spots(NextTurn, u) \cup {<<n, l>>}
                         ELSE Spots(NextTurn, u)
    BY <1>2, <1>3, <1>4, <1>5
<1> DEFINE A == Spots(frames, u)
           B == Spots(NextTurn, u)
           p == <<n, l>>
<1>8. /\ IsFiniteSet(A) /\ p \notin B
      /\ A = IF Current \in Above(u) THEN B \cup {p} ELSE B
    BY <1>6, <1>7
<1> HIDE DEF A, B, p
<1>9. B = A \ {p}
    BY <1>8
<1>10. IsFiniteSet(B)
    BY <1>8, <1>9, FS_RemoveElement
<1>11. Cardinality(A) = Cardinality(B) + (IF Current \in Above(u) THEN 1 ELSE 0)
    <2>1. Cardinality(B \cup {p}) = Cardinality(B) + 1 /\ Cardinality(B) \in Nat
        BY <1>8, <1>10, FS_AddElement, FS_CardinalityType
    <2> QED BY <1>8, <2>1
<1> QED BY <1>8, <1>10, <1>11, FS_CardinalityType DEF A, B

\* A loop more adds what its list leads to.
LEMMA SpotsPush ==
    ASSUME NEW fs \in Seq(Seq(Uris)), NEW s \in Seq(Uris), NEW u, IsFiniteSet(Spots(fs, u))
    PROVE  /\ IsFiniteSet(Spots(Append(fs, s), u))
           /\ Cardinality(Spots(fs, u)) \in Nat /\ Cardinality(Left(s, u)) \in Nat
           /\ Cardinality(Spots(Append(fs, s), u)) =
                 Cardinality(Spots(fs, u)) + Cardinality(Left(s, u))
<1> DEFINE n == Len(fs)
           gs == Append(fs, s)
           first == SpotsBefore(gs, n + 1, u)
           added == {n + 1} \X Left(s, u)
<1>1. /\ gs \in Seq(Seq(Uris)) /\ Len(gs) = n + 1 /\ n \in Nat
      /\ \A i \in 1..n : gs[i] = fs[i]
      /\ gs[n + 1] = s
    BY PushFacts
<1>2. Spots(gs, u) = first \cup added /\ \A r : <<n + 1, r>> \notin first
    <2>1. n + 1 \in Nat \ {0} /\ (n + 1) - 1 = n
        BY <1>1
    <2> HIDE DEF gs, n
    <2> QED BY <1>1, <2>1, SpotsLast
<1>3. first = Spots(fs, u)
    <2>1. (n + 1) - 1 = n
        BY <1>1
    <2> HIDE DEF gs
    <2> QED BY <1>1, <2>1 DEF Spots, SpotsBefore
<1>4. IsFiniteSet(Left(s, u))
    BY LeftFinite
<1>5. IsFiniteSet(added) /\ Cardinality(added) = Cardinality(Left(s, u)) /\ Cardinality(added) \in Nat
    <2>1. IsFiniteSet({n + 1}) /\ Cardinality({n + 1}) = 1
        BY FS_Singleton
    <2>2. IsFiniteSet(added) /\ Cardinality(added) = 1 * Cardinality(Left(s, u))
        <3> HIDE DEF n
        <3> QED BY <1>4, <2>1, FS_Product
    <2>3. Cardinality(Left(s, u)) \in Nat
        BY <1>4, FS_CardinalityType
    <2> HIDE DEF added
    <2> QED BY <2>2, <2>3
<1>6. first \cap added = {}
    <2> HIDE DEF first
    <2> QED BY <1>2
<1>7. IsFiniteSet(first)
    BY <1>3
<1> HIDE DEF first, added, gs
<1>8. /\ IsFiniteSet(first \cup added)
      /\ Cardinality(first \cup added) = Cardinality(first) + Cardinality(added)
      /\ Cardinality(first) \in Nat
    <2>1. Cardinality(first \cap added) = 0
        BY <1>6, FS_EmptySet
    <2>2. /\ IsFiniteSet(first \cup added) /\ Cardinality(first) \in Nat
          /\ Cardinality(first \cup added) = Cardinality(first) + Cardinality(added) - Cardinality(first \cap added)
        BY <1>5, <1>7, FS_Union, FS_CardinalityType
    <2> QED BY <1>5, <2>1, <2>2
<1> QED BY <1>2, <1>3, <1>5, <1>8 DEF gs

\* A loop that is over led nowhere.
LEMMA SpotsPop ==
    ASSUME frames \in Seq(Seq(Uris)), frames # <<>>, Last(frames) = <<>>, NEW u
    PROVE  Spots(Front(frames), u) = Spots(frames, u)
<1> DEFINE n == Len(frames)
           first == SpotsBefore(frames, n, u)
<1>1. /\ n \in Nat \ {0} /\ frames[n] = <<>> /\ Len(Front(frames)) = n - 1
      /\ \A i \in 1..(n - 1) : i \in 1..n /\ Front(frames)[i] = frames[i]
    BY PopFacts
<1> HIDE DEF n
<1>2. Left(frames[n], u) = {}
    BY <1>1 DEF Left
<1>3. Spots(frames, u) = first \cup ({n} \X Left(frames[n], u))
    BY <1>1, SpotsLast DEF n
<1>4. Spots(Front(frames), u) = first
    BY <1>1 DEF Spots, SpotsBefore
<1> QED BY <1>2, <1>3, <1>4

----------------------------------------------------------------------------
\* The children of x lead to u at one place, if u is below x.
LEMMA KidsLeft ==
    ASSUME dump \in Dumps, NEW x \in dump.objects, NEW u \in Uris
    PROVE  IF u # x /\ x \in Above(u) THEN \E r \in Nat : Left(dump.children[x], u) = {r}
           ELSE Left(dump.children[x], u) = {}
<1> DEFINE kids == dump.children[x]
           m == Len(kids)
           K == Children(dump)[x]
<1>1. x \in Uris /\ kids \in Seq(Uris) /\ m \in Nat /\ K = ToSet(kids) /\ IsInjective(kids)
    BY DumpFacts, ChildrenFacts, TreeAssumption
<1>2. K = {kids[k] : k \in 1..m} /\ K \subseteq Uris
    <2> HIDE DEF K
    <2> QED BY <1>1 DEF ToSet
<1>3. x \in Above(u) <=> u = x \/ \E c \in K : u \in Below(dump, c)
    BY <1>1, BelowSplit DEF Above
<1>4. \A c \in K : x \notin Below(dump, c)
    BY <1>1, TreeAssumption DEF Below
<1>5. \A c1, c2 \in K : u \in Below(dump, c1) /\ u \in Below(dump, c2) => c1 = c2
    BY <1>1, SiblingsApart
<1>6. \A k \in 1..m : kids[k] \in Above(u) <=> u \in Below(dump, kids[k])
    BY <1>2 DEF Above
<1>7. \A j, k \in 1..m : kids[j] = kids[k] => j = k
    BY <1>1 DEF IsInjective
<1>8. Left(kids, u) = {r \in Nat : r < m /\ kids[m - r] \in Above(u)}
    BY DEF Left
<1> HIDE DEF kids, m, K
<1>9. \A r \in Nat : r < m => m - r \in 1..m
    BY <1>1
<1>10. \A q, r \in Nat : q < m /\ r < m /\ m - q = m - r => q = r
    BY <1>1
<1>11. \A k \in 1..m : m - k \in Nat /\ m - k < m /\ m - (m - k) = k
    BY <1>1
<1>12. \A r \in Left(kids, u) : kids[m - r] \in K /\ u \in Below(dump, kids[m - r])
    BY <1>2, <1>6, <1>8, <1>9
<1>13. \A q, r \in Left(kids, u) : q = r
    <2> SUFFICES ASSUME NEW q \in Left(kids, u), NEW r \in Left(kids, u) PROVE q = r
        OBVIOUS
    <2>1. q \in Nat /\ r \in Nat /\ q < m /\ r < m
        BY <1>8
    <2>2. kids[m - q] = kids[m - r]
        BY <1>5, <1>12
    <2> QED BY <1>7, <1>9, <1>10, <2>1, <2>2
<1>14. CASE u # x /\ x \in Above(u)
    <2>1. PICK c \in K : u \in Below(dump, c)
        BY <1>3, <1>14
    <2>2. PICK k \in 1..m : c = kids[k]
        BY <1>2
    <2>3. m - k \in Left(kids, u) /\ m - k \in Nat
        BY <1>6, <1>8, <1>11, <2>1, <2>2
    <2>4. Left(kids, u) = {m - k}
        BY <1>13, <2>3
    <2> QED BY <1>14, <2>3, <2>4 DEF kids
<1>15. CASE ~(u # x /\ x \in Above(u))
    <2>1. Left(kids, u) = {}
        BY <1>3, <1>4, <1>12, <1>15
    <2> QED BY <1>15, <2>1 DEF kids
<1> QED BY <1>14, <1>15

\* A list without repetition leads to u from as many places as it has elements above u.
LEMMA LeftInjective ==
    ASSUME NEW s \in Seq(Uris), IsInjective(s), NEW u
    PROVE  /\ IsFiniteSet(ToSet(s) \cap Above(u))
           /\ Cardinality(Left(s, u)) = Cardinality(ToSet(s) \cap Above(u))
<1> DEFINE n == Len(s)
           A == Left(s, u)
           B == ToSet(s) \cap Above(u)
           f == [r \in A |-> s[n - r]]
<1>1. n \in Nat /\ ToSet(s) = {s[k] : k \in 1..n} /\ \A j, k \in 1..n : s[j] = s[k] => j = k
    BY DEF ToSet, IsInjective
<1>2. A = {r \in Nat : r < n /\ s[n - r] \in Above(u)}
    BY DEF Left
<1> HIDE DEF n
<1>3. \A r \in Nat : r < n => n - r \in 1..n
    BY <1>1
<1>4. \A q, r \in Nat : q < n /\ r < n /\ n - q = n - r => q = r
    BY <1>1
<1>5. \A k \in 1..n : n - k \in Nat /\ n - k < n /\ n - (n - k) = k
    BY <1>1
<1> HIDE DEF A
<1>6. f \in [A -> B]
    BY <1>1, <1>2, <1>3
<1>7. \A q, r \in A : f[q] = f[r] => q = r
    BY <1>1, <1>2, <1>3, <1>4
<1>8. \A b \in B : \E r \in A : f[r] = b
    <2> SUFFICES ASSUME NEW b \in B PROVE \E r \in A : f[r] = b
        OBVIOUS
    <2>1. PICK k \in 1..n : b = s[k]
        BY <1>1
    <2>2. n - k \in A /\ s[n - (n - k)] = b
        BY <1>2, <1>5, <2>1
    <2> QED BY <2>2
<1> HIDE DEF f, B
<1>9. ExistsBijection(A, B)
    <2>1. f \in Injection(A, B)
        BY <1>6, <1>7 DEF Injection, IsInjective
    <2>2. f \in Surjection(A, B)
        BY <1>6, <1>8 DEF Surjection
    <2> QED BY <2>1, <2>2 DEF ExistsBijection, Bijection
<1>10. IsFiniteSet(A)
    BY LeftFinite DEF A
<1> QED BY <1>9, <1>10, FS_Bijection DEF A, B

\* The list of an object's children and new targets leads to what is below it,
\* and to what is below the targets.
LEMMA StepLeft ==
    ASSUME dump \in Dumps, NEW x \in dump.objects, NEW u \in Uris,
           NEW more \in Seq(Uris), IsInjective(more)
    PROVE  Cardinality(Left(dump.children[x] \o more, u)) =
              Cardinality(ToSet(more) \cap Above(u)) + (IF u # x /\ x \in Above(u) THEN 1 ELSE 0)
<1> DEFINE kids == dump.children[x]
           A == Left(more, u)
           moved == {Len(more) + r : r \in Left(kids, u)}
<1>1. kids \in Seq(Uris)
    BY DumpFacts
<1>2. Left(kids \o more, u) = A \cup moved /\ A \cap moved = {}
    <2> HIDE DEF kids
    <2> QED BY <1>1, LeftConcat
<1>3. IsFiniteSet(A) /\ Cardinality(A) \in Nat /\ Cardinality(A) = Cardinality(ToSet(more) \cap Above(u))
    BY LeftFinite, LeftInjective, FS_CardinalityType
<1>4. CASE u # x /\ x \in Above(u)
    <2>1. PICK r \in Nat : Left(kids, u) = {r}
        BY <1>4, KidsLeft
    <2>2. moved = {Len(more) + r}
        BY <2>1
    <2> HIDE DEF A, moved, kids
    <2>3. Cardinality(A \cup {Len(more) + r}) = Cardinality(A) + 1
        BY <1>2, <1>3, <2>2, FS_AddElement
    <2> QED BY <1>2, <1>3, <1>4, <2>2, <2>3 DEF kids
<1>5. CASE ~(u # x /\ x \in Above(u))
    <2>1. Left(kids, u) = {}
        BY <1>5, KidsLeft
    <2>2. moved = {}
        BY <2>1
    <2> HIDE DEF A, moved, kids
    <2> QED BY <1>2, <1>3, <1>5, <2>2 DEF kids
<1> QED BY <1>4, <1>5

\* Where s has u.
At(s, u) == {k \in 1..Len(s) : s[k] = u}

LEMMA AtAppend ==
    ASSUME NEW s \in Seq(Uris), NEW x \in Uris, NEW u
    PROVE  /\ Cardinality(At(s, u)) \in Nat
           /\ Cardinality(At(Append(s, x), u)) = Cardinality(At(s, u)) + (IF u = x THEN 1 ELSE 0)
<1> DEFINE n == Len(s)
           t == Append(s, x)
           A == At(s, u)
<1>1. /\ n \in Nat /\ Len(t) = n + 1 /\ t[n + 1] = x /\ \A k \in 1..n : t[k] = s[k]
      /\ 1..(n + 1) = 1..n \cup {n + 1} /\ n + 1 \notin 1..n
    BY AppendProperties
<1>2. A \in SUBSET (1..n)
    BY DEF At
<1>3. IsFiniteSet(A)
    <2>1. IsFiniteSet(1..n)
        BY <1>1, FS_Interval
    <2> HIDE DEF A, n
    <2> QED BY <1>2, <2>1, FS_Subset
<1> HIDE DEF n, t
<1>4. At(t, u) = IF u = x THEN A \cup {n + 1} ELSE A
    BY <1>1 DEF At, n
<1> HIDE DEF A
<1>5. Cardinality(A \cup {n + 1}) = Cardinality(A) + 1 /\ Cardinality(A) \in Nat
    BY <1>1, <1>2, <1>3, FS_AddElement, FS_CardinalityType
<1> QED BY <1>4, <1>5 DEF A, t

\* What was printed, and what the loops still lead to, is what is due.
Due(u) == Cardinality(visited \cap Above(u)) + (IF input[2] \in Above(u) THEN 1 ELSE 0)

Tallied(u) ==
    /\ IsFiniteSet(Spots(frames, u))
    /\ Cardinality(At(printed, u)) + Cardinality(Spots(frames, u)) = Due(u)

Tally == cmd = "ep-info" => \A u \in dump.objects : Tallied(u)

LEMMA TalliedThen ==
    ASSUME dump' = dump, input' = input, NEW u
    PROVE  /\ Above(u)' = Above(u) /\ Spots(frames, u)' = Spots(frames', u)
           /\ Due(u)' = Cardinality(visited' \cap Above(u)) + (IF input[2] \in Above(u) THEN 1 ELSE 0)
           /\ At(printed, u)' = At(printed', u)
<1>1. Above(u)' = Above(u)
    BY DEF Above, Below, Children
<1>2. Spots(frames, u)' = Spots(frames', u)
    BY <1>1 DEF Spots, Left
<1>3. Due(u)' = Cardinality(visited' \cap Above(u)) + (IF input[2] \in Above(u) THEN 1 ELSE 0)
    BY <1>1 DEF Due
<1>4. At(printed, u)' = At(printed', u)
    BY DEF At
<1> QED BY <1>1, <1>2, <1>3, <1>4

LEMMA PrintObjectTally == PolicyBase /\ Tally /\ PrintObject => Tally'
<1> SUFFICES ASSUME PolicyBase, Tally, PrintObject, NEW u, u \in dump'.objects
             PROVE  Tallied(u)'
    BY DEF Tally
<1> DEFINE cur == Current
           refs == dump.targets[cur]
           more == TargetsOf(cur)
           step == dump.children[cur] \o more
           above == IF cur \in Above(u) THEN 1 ELSE 0
           below == IF u # cur /\ cur \in Above(u) THEN 1 ELSE 0
           same == IF u = cur THEN 1 ELSE 0
           first == IF input[2] \in Above(u) THEN 1 ELSE 0
<1>1. /\ frames \in Seq(Seq(Uris)) /\ frames # <<>> /\ Last(frames) # <<>> /\ cmd = "ep-info"
      /\ printed \in Seq(Uris) /\ cur \in dump.objects /\ visited \subseteq Uris
    BY DEF PolicyBase, PolicyTypeOK, PrintObject, InLoop
<1>2. cur \in Uris /\ NextTurn \in Seq(Seq(Uris))
    BY <1>1, TurnFacts
<1>3. dump \in Dumps
    BY <1>1, EpInfoInput
<1>4. refs \in Seq(Uris) /\ dump.children[cur] \in Seq(Uris)
    BY <1>2, <1>3, DumpFacts
<1>5. more \in Seq(Uris) /\ IsInjective(more) /\ ToSet(more) \cap visited = {}
    BY <1>4, TargetsFacts
<1>6. /\ printed' = Append(printed, cur)
      /\ frames' = Append(NextTurn, step)
      /\ visited' = visited \cup ToSet(more)
      /\ dump' = dump /\ input' = input
    BY DEF PrintObject, dump
<1>7. u \in dump.objects /\ u \in Uris
    BY <1>3, <1>6, DumpFacts
<1>8. IsFiniteSet(Spots(frames, u)) /\ Cardinality(At(printed, u)) + Cardinality(Spots(frames, u)) = Due(u)
    BY <1>1, <1>7 DEF Tally, Tallied
<1>9. step \in Seq(Uris)
    BY <1>4, <1>5, ConcatProperties
<1> HIDE DEF cur, refs, more, step, above, below, same, first
<1>10. /\ IsFiniteSet(Spots(NextTurn, u))
       /\ Cardinality(Spots(frames, u)) \in Nat /\ Cardinality(Spots(NextTurn, u)) \in Nat
       /\ Cardinality(Spots(frames, u)) = Cardinality(Spots(NextTurn, u)) + above
    BY <1>1, <1>8, SpotsTurn DEF above, cur
<1>11. /\ IsFiniteSet(Spots(frames', u)) /\ Cardinality(Left(step, u)) \in Nat
       /\ Cardinality(Spots(frames', u)) = Cardinality(Spots(NextTurn, u)) + Cardinality(Left(step, u))
    BY <1>2, <1>6, <1>9, <1>10, SpotsPush
<1>12. Cardinality(Left(step, u)) = Cardinality(ToSet(more) \cap Above(u)) + below
    BY <1>1, <1>3, <1>5, <1>7, StepLeft DEF step, below
<1>13. /\ Cardinality(At(printed, u)) \in Nat
       /\ Cardinality(At(printed', u)) = Cardinality(At(printed, u)) + same
    BY <1>1, <1>2, <1>6, AtAppend DEF same
<1>14. /\ Cardinality(visited' \cap Above(u)) =
             Cardinality(visited \cap Above(u)) + Cardinality(ToSet(more) \cap Above(u))
       /\ Cardinality(visited \cap Above(u)) \in Nat /\ Cardinality(ToSet(more) \cap Above(u)) \in Nat
    <2> DEFINE A == visited \cap Above(u)
               B == ToSet(more) \cap Above(u)
    <2>1. IsFiniteSet(A) /\ IsFiniteSet(B) /\ A \cap B = {} /\ visited' \cap Above(u) = A \cup B
        <3>1. A \in SUBSET Uris
            BY <1>1
        <3>2. IsFiniteSet(A)
            BY <3>1, DumpAssumption, FS_Subset
        <3>3. IsFiniteSet(B)
            BY <1>5, LeftInjective
        <3> QED BY <1>5, <1>6, <3>2, <3>3
    <2> HIDE DEF A, B
    <2>2. /\ Cardinality(A \cup B) = Cardinality(A) + Cardinality(B) - Cardinality(A \cap B)
          /\ Cardinality(A \cap B) = 0 /\ Cardinality(A) \in Nat /\ Cardinality(B) \in Nat
        BY <2>1, FS_Union, FS_EmptySet, FS_CardinalityType
    <2>3. Cardinality(A \cup B) = Cardinality(A) + Cardinality(B)
        BY <2>2
    <2> QED BY <2>1, <2>2, <2>3 DEF A, B
<1>15. u = cur => cur \in Above(u)
    BY <1>2, <1>3, BelowFacts DEF Above
<1>16. above = below + same /\ above \in Nat /\ below \in Nat /\ same \in Nat
    BY <1>15 DEF above, below, same
<1>17. Due(u) = Cardinality(visited \cap Above(u)) + first /\ first \in Nat
    BY DEF Due, first
<1>18. Due(u)' = Cardinality(visited' \cap Above(u)) + first
    BY <1>6, TalliedThen DEF first
<1>19. Cardinality(At(printed', u)) + Cardinality(Spots(frames', u)) = Due(u)'
    <2>1. \A p, s, s1, v, m, a, b, e, f, q, w \in Nat :
              /\ p + s = v + f /\ s = s1 + a /\ w = s1 + q /\ q = m + b /\ a = b + e
              => (p + e) + w = (v + m) + f
        OBVIOUS
    <2>2. Cardinality(Spots(frames', u)) \in Nat
        BY <1>11, FS_CardinalityType
    <2>3. /\ Cardinality(At(printed, u)) + Cardinality(Spots(frames, u)) = Cardinality(visited \cap Above(u)) + first
          /\ Cardinality(Left(step, u)) \in Nat
        BY <1>8, <1>11, <1>17
    <2>4. (Cardinality(At(printed, u)) + same) + Cardinality(Spots(frames', u))
              = (Cardinality(visited \cap Above(u)) + Cardinality(ToSet(more) \cap Above(u))) + first
        BY <1>10, <1>11, <1>12, <1>13, <1>14, <1>16, <1>17, <2>1, <2>2, <2>3
    <2> QED BY <1>13, <1>14, <1>18, <2>4
<1> QED BY <1>6, <1>11, <1>19, TalliedThen DEF Tallied

LEMMA WarnMissingTally == PolicyBase /\ Tally /\ WarnMissing => Tally'
<1> SUFFICES ASSUME PolicyBase, Tally, WarnMissing, NEW u, u \in dump'.objects
             PROVE  Tallied(u)'
    BY DEF Tally
<1> DEFINE cur == Current
<1>1. /\ frames \in Seq(Seq(Uris)) /\ frames # <<>> /\ Last(frames) # <<>> /\ cmd = "ep-info"
      /\ cur \notin dump.objects
    BY DEF PolicyBase, PolicyTypeOK, WarnMissing, InLoop
<1>2. cur \in Uris
    BY <1>1, TurnFacts
<1>3. dump \in Dumps
    BY <1>1, EpInfoInput
<1>4. frames' = NextTurn /\ dump' = dump /\ input' = input /\ printed' = printed /\ visited' = visited
    BY DEF WarnMissing, dump
<1>5. u \in dump.objects /\ Tallied(u)
    BY <1>1, <1>4 DEF Tally
<1> HIDE DEF cur
\* Nothing is below an object that is not in the dump.
<1>6. cur \notin Above(u)
    <2>1. Children(dump)[cur] = {} /\ u # cur
        BY <1>1, <1>2, <1>3, <1>5, ChildrenFacts
    <2> QED BY <1>2, <1>3, <2>1, BelowSplit DEF Above
<1>7. /\ IsFiniteSet(Spots(NextTurn, u))
      /\ Cardinality(Spots(NextTurn, u)) \in Nat
      /\ Cardinality(Spots(frames, u)) = Cardinality(Spots(NextTurn, u)) + 0
    BY <1>1, <1>5, <1>6, SpotsTurn DEF cur, Tallied
<1>8. Cardinality(Spots(frames', u)) = Cardinality(Spots(frames, u)) /\ IsFiniteSet(Spots(frames', u))
    BY <1>4, <1>7
<1>9. Due(u)' = Due(u)
    BY <1>4, TalliedThen DEF Due
<1> QED BY <1>4, <1>5, <1>8, <1>9, TalliedThen DEF Tallied

LEMMA ReturnTally == PolicyBase /\ Tally /\ Return => Tally'
<1> SUFFICES ASSUME PolicyBase, Tally, Return, cmd = "ep-info", NEW u, u \in dump'.objects
             PROVE  Tallied(u)'
    BY DEF Tally, Return
<1>1. /\ frames \in Seq(Seq(Uris)) /\ frames # <<>> /\ Last(frames) = <<>> /\ frames' = Front(frames)
      /\ dump' = dump /\ input' = input /\ printed' = printed /\ visited' = visited
    BY DEF PolicyBase, PolicyTypeOK, Return, dump
<1>2. Tallied(u)
    BY <1>1 DEF Tally
<1>3. Spots(frames', u) = Spots(frames, u)
    BY <1>1, SpotsPop
<1>4. Due(u)' = Due(u)
    BY <1>1, TalliedThen DEF Due
<1> QED BY <1>1, <1>2, <1>3, <1>4, TalliedThen DEF Tallied

LEMMA EpInfoTally ==
    ASSUME PolicyIdle, NEW d \in Dumps, NEW a \in Addresses, EpInfo(d, a)
    PROVE  Tally'
<1>1. PICK ep \in UriOf(L2EpOf(d, a)) :
          /\ cmd' = "ep-info" /\ input' = <<d, ep, a>>
          /\ IF d.children[ep] = <<>> THEN printed' = <<ep>> /\ frames' = <<>>
             ELSE printed' = <<>> /\ frames' = <<<<ep>>>>
    BY DEF EpInfo
<1>2. ep \in Uris /\ ep \in d.objects
    BY EpFacts
<1>3. dump' = d /\ input'[2] = ep /\ visited' = {}
    BY <1>1 DEF dump, EpInfo, PolicyIdle
<1> SUFFICES ASSUME NEW u, u \in d.objects PROVE Tallied(u)'
    BY <1>3 DEF Tally
<1> DEFINE over == {x \in Uris : u \in Below(d, x)}
           first == IF ep \in over THEN 1 ELSE 0
           here(s) == {r \in Nat : r < Len(s) /\ s[Len(s) - r] \in over}
           spots == UNION {{i} \X here(frames'[i]) : i \in 1..Len(frames')}
<1>4. Above(u)' = over
    BY <1>3 DEF Above, Below, Children
<1>5. Due(u)' = first
    <2>1. {} \cap over = {} /\ Cardinality({}) = 0
        BY FS_EmptySet
    <2> HIDE DEF over
    <2>2. Due(u)' = Cardinality(visited' \cap over) + (IF input'[2] \in over THEN 1 ELSE 0)
        BY <1>4 DEF Due
    <2> QED BY <1>3, <2>1, <2>2
<1>6. Spots(frames, u)' = spots
    <2> HIDE DEF over
    <2> QED BY <1>4 DEF Spots, Left
<1>7. At(printed, u)' = {k \in 1..Len(printed') : printed'[k] = u}
    BY DEF At
<1>8. CASE d.children[ep] = <<>>
    <2>1. printed' = <<ep>> /\ frames' = <<>>
        BY <1>1, <1>8
    <2>2. spots = {}
        BY <2>1
    <2>3. ep \in over <=> u = ep
        <3>1. Children(d)[ep] = {}
            <4>1. ToSet(<<>>) = {}
                BY DEF ToSet
            <4> QED BY <1>2, <1>8, <4>1, ChildrenFacts
        <3> QED BY <1>2, <3>1, BelowSplit
    <2>4. At(printed, u)' = IF u = ep THEN {1} ELSE {}
        <3>1. Len(<<ep>>) = 1 /\ <<ep>>[1] = ep /\ 1..1 = {1}
            OBVIOUS
        <3> QED BY <1>7, <2>1, <3>1
    <2> HIDE DEF over, spots
    <2>5. Cardinality(At(printed, u)') = first
        BY <2>3, <2>4, FS_Singleton, FS_EmptySet
    <2>6. IsFiniteSet(spots) /\ Cardinality(spots) = 0 /\ first \in Nat
        BY <2>2, FS_EmptySet
    <2>7. IsFiniteSet(Spots(frames, u)') /\ Cardinality(Spots(frames, u)') = 0
        BY <1>6, <2>6
    <2> HIDE DEF first
    <2> QED BY <1>5, <2>5, <2>6, <2>7 DEF Tallied
<1>9. CASE d.children[ep] # <<>>
    <2>1. printed' = <<>> /\ frames' = <<<<ep>>>>
        BY <1>1, <1>9
    <2>2. At(printed, u)' = {}
        BY <1>7, <2>1
    <2>3. here(<<ep>>) = IF ep \in over THEN {0} ELSE {}
        <3>1. Len(<<ep>>) = 1 /\ <<ep>>[1] = ep /\ \A r \in Nat : r < 1 <=> r = 0
            OBVIOUS
        <3> HIDE DEF over
        <3> QED BY <3>1
    <2>4. spots = {1} \X here(<<ep>>)
        <3>1. Len(<<<<ep>>>>) = 1 /\ <<<<ep>>>>[1] = <<ep>> /\ 1..1 = {1}
            OBVIOUS
        <3> HIDE DEF here
        <3> QED BY <2>1, <3>1
    <2>5. spots = IF ep \in over THEN {<<1, 0>>} ELSE {}
        <3> HIDE DEF spots, here, over
        <3> QED BY <2>3, <2>4
    <2> HIDE DEF spots, here, over
    <2>6. IsFiniteSet(spots) /\ Cardinality(spots) = first /\ first \in Nat
        BY <2>5, FS_Singleton, FS_EmptySet
    <2>7. IsFiniteSet(Spots(frames, u)') /\ Cardinality(Spots(frames, u)') = first
        BY <1>6, <2>6
    <2>8. Cardinality(At(printed, u)') = 0
        BY <2>2, FS_EmptySet
    <2> HIDE DEF first
    <2> QED BY <1>5, <2>6, <2>7, <2>8 DEF Tallied
<1> QED BY <1>8, <1>9

LEMMA StartTally == PolicyIdle /\ PolicyStart => Tally'
<1> SUFFICES ASSUME PolicyIdle, PolicyStart PROVE Tally'
    OBVIOUS
<1>1. CASE \E d \in Dumps, a \in Addresses : EpInfo(d, a)
    BY <1>1, EpInfoTally
<1>2. CASE cmd' # "ep-info"
    BY <1>2 DEF Tally
<1> QED BY <1>1, <1>2 DEF PolicyStart, LoadAim, EpInfoShort, FindUnresolved, Diff, DiffShort

LEMMA StepTally == PolicyBase /\ Tally /\ PolicyStep => Tally'
<1> SUFFICES ASSUME PolicyBase, Tally, PolicyStep PROVE Tally'
    OBVIOUS
<1>1. CASE cmd' # "ep-info"
    BY <1>1 DEF Tally
<1>2. FlattenObject \/ PolicyExit => cmd' # "ep-info"
    BY DEF FlattenObject, InLoop, PolicyExit
<1> QED BY <1>1, <1>2, PrintObjectTally, WarnMissingTally, ReturnTally DEF PolicyStep

LEMMA AllTallied == PolicyBase /\ Tally => PrintedPerReference
<1> SUFFICES ASSUME PolicyBase, Tally, cmd = "ep-info", frames = <<>>, NEW u \in dump.objects
             PROVE  TimesPrinted(u) = Cardinality(visited \cap {x \in Uris : u \in From(Children(dump), x)})
                          + (IF input[2] \in {x \in Uris : u \in From(Children(dump), x)} THEN 1 ELSE 0)
                          + (IF u \in UriOf(L3EpOf(dump, input[3])) THEN 1 ELSE 0)
    BY DEF PrintedPerReference, Ended
<1>1. Cardinality(At(printed, u)) + Cardinality(Spots(frames, u)) = Due(u)
    BY DEF Tally, Tallied
<1>2. Spots(frames, u) = {}
    BY DEF Spots
<1>3. printed \in Seq(Uris)
    BY DEF PolicyBase, PolicyTypeOK
<1>4. {k \in DOMAIN printed : printed[k] = u} = At(printed, u) /\ Cardinality(At(printed, u)) \in Nat
    <2>1. DOMAIN printed = 1..Len(printed)
        BY <1>3
    <2>2. input[2] \in Uris
        BY EpInfoInput
    <2>3. Cardinality(At(printed, u)) \in Nat
        BY <1>3, <2>2, AtAppend
    <2> QED BY <2>1, <2>3 DEF At
<1>5. {x \in Uris : u \in From(Children(dump), x)} = Above(u)
    BY DEF Above, Below
<1>6. Cardinality(Spots(frames, u)) = 0
    BY <1>2, FS_EmptySet
<1>7. Cardinality(At(printed, u)) = Due(u)
    BY <1>1, <1>4, <1>6
<1>8. Due(u) = Cardinality(visited \cap Above(u)) + (IF input[2] \in Above(u) THEN 1 ELSE 0)
    BY DEF Due
<1>9. TimesPrinted(u) = Cardinality(At(printed, u)) + (IF u \in UriOf(L3EpOf(dump, input[3])) THEN 1 ELSE 0)
    BY <1>4, EpInfoInput DEF TimesPrinted
<1> QED BY <1>5, <1>7, <1>8, <1>9

----------------------------------------------------------------------------
(* Both tools *)

PolicyInv == PolicyBase /\ FollowsAll /\ Tally /\ Flattens

InspectionInv == PolicyInv /\ ReportInv

LEMMA PolicyIdleInv == PolicyIdle => PolicyInv
BY IdlePolicyBase DEF PolicyInv, PolicyIdle, FollowsAll, Tally, Flattens

LEMMA PolicyStay == PolicyInv /\ UNCHANGED policyVars => PolicyInv'
<1> SUFFICES ASSUME PolicyInv, UNCHANGED policyVars PROVE PolicyInv'
    OBVIOUS
<1>1. /\ UNCHANGED <<cmd, input, frames, nested, children, policy, visited, heading, printed, report>>
      /\ dump' = dump /\ Seen' = Seen
    BY DEF policyVars, dump, Seen
<1>2. PolicyBase'
    BY <1>1 DEF PolicyInv, PolicyBase, PolicyTypeOK, Inputs, PolicyIdle
<1>3. FollowsAll'
    <2>1. /\ Reached(dump, input[2])' = Reached(dump, input[2]) /\ LeadsTo(dump)' = LeadsTo(dump)
          /\ Missing(Reached(dump, input[2]))' = Missing(Reached(dump, input[2]))
        BY <1>1 DEF Reached, Children, Targets, LeadsTo, Missing
    <2>2. NothingLost => NothingLost'
        BY <1>1, <2>1 DEF NothingLost
    <2> QED BY <1>1, <2>2 DEF PolicyInv, FollowsAll
<1>4. Flattens'
    BY <1>1 DEF PolicyInv, Flattens, Flattening
<1>5. Tally'
    <2> SUFFICES ASSUME cmd = "ep-info", NEW u \in dump.objects PROVE Tallied(u)'
        BY <1>1 DEF Tally
    <2>1. Tallied(u)
        BY DEF PolicyInv, Tally
    <2>2. /\ Spots(frames, u)' = Spots(frames', u) /\ At(printed, u)' = At(printed', u)
          /\ Due(u)' = Cardinality(visited' \cap Above(u)) + (IF input[2] \in Above(u) THEN 1 ELSE 0)
        BY <1>1, TalliedThen
    <2>3. Due(u)' = Due(u)
        BY <1>1, <2>2 DEF Due
    <2> QED BY <1>1, <2>1, <2>2, <2>3 DEF Tallied
<1> QED BY <1>2, <1>3, <1>4, <1>5 DEF PolicyInv

LEMMA ReportStay == ReportInv /\ UNCHANGED reportVars => ReportInv'
<1> SUFFICES ASSUME ReportInv, UNCHANGED reportVars PROVE ReportInv'
    OBVIOUS
<1>1. UNCHANGED <<log, window, at, intervals>>
    BY DEF reportVars
<1>2. Shown' = Shown
    BY <1>1 DEF Shown, InWindow, Breaks
<1>3. ReportTypeOK' /\ Chained'
    BY <1>1 DEF ReportInv, ReportTypeOK, Chained
<1>4. InOrder'
    BY <1>1 DEF ReportInv, InOrder, Proper, Sorted
<1>5. FiledSoFar'
    BY <1>1, <1>2 DEF ReportInv, FiledSoFar, Breaks
<1> QED BY <1>3, <1>4, <1>5 DEF ReportInv

LEMMA PolicyMoves ==
    ASSUME PolicyInv, (PolicyIdle /\ PolicyStart) \/ PolicyStep
    PROVE  PolicyInv'
<1>1. CASE PolicyIdle /\ PolicyStart
    BY <1>1, PolicyStartBase, StartFollows, StartTally, StartFlattens DEF PolicyInv
<1>2. CASE PolicyStep
    BY <1>2, PolicyStepBase, StepFollows, StepTally, StepFlattens DEF PolicyInv
<1> QED BY <1>1, <1>2

LEMMA ReportMoves ==
    ASSUME ReportInv, ReportStart \/ ReportStep
    PROVE  ReportInv'
BY SummarizeInv, ReportStepInv DEF ReportStart

LEMMA InspectionInit == Init => InspectionInv
BY PolicyIdleInv, IdleReport DEF Init, InspectionInv

LEMMA InspectionNext == InspectionInv /\ [Next]_vars => InspectionInv'
<1> SUFFICES ASSUME InspectionInv, [Next]_vars PROVE InspectionInv'
    OBVIOUS
<1> USE DEF InspectionInv
<1>1. CASE PolicyIdle /\ ReportIdle /\ PolicyStart /\ UNCHANGED reportVars
    BY <1>1, PolicyMoves, ReportStay
<1>2. CASE PolicyIdle /\ ReportIdle /\ ReportStart /\ UNCHANGED policyVars
    BY <1>2, PolicyStay, ReportMoves
<1>3. CASE PolicyStep /\ UNCHANGED reportVars
    BY <1>3, PolicyMoves, ReportStay
<1>4. CASE ReportStep /\ UNCHANGED policyVars
    BY <1>4, PolicyStay, ReportMoves
<1>5. CASE UNCHANGED vars
    BY <1>5, PolicyStay, ReportStay DEF vars
<1> QED BY <1>1, <1>2, <1>3, <1>4, <1>5 DEF Next, ToolStep

LEMMA InspectionAlways == Spec => []InspectionInv
BY InspectionInit, InspectionNext, PTL DEF Spec

\* The variables keep their types.
THEOREM TypeCorrect == Spec => []TypeOK
<1>1. InspectionInv => TypeOK
    BY DEF InspectionInv, PolicyInv, PolicyBase, ReportInv, TypeOK
<1> QED BY <1>1, InspectionAlways, PTL

LEMMA AllFiled == ReportInv => SummaryCountsShown
<1> SUFFICES ASSUME ReportInv, intervals # <<>>, at > Len(log)
             PROVE  IsInjective(Filed) /\ ToSet(Filed) = Shown
    BY DEF SummaryCountsShown, Summed
<1> DEFINE lists == [i \in DOMAIN intervals |-> intervals[i].filed]
           L == DOMAIN log
           n == Len(intervals)
<1>1. intervals \in Seq(IntervalOver(L)) /\ n \in Nat /\ n > 0 /\ DOMAIN intervals = 1..n
    <2>1. intervals \in Seq(IntervalOver(L))
        BY DEF ReportInv, ReportTypeOK, IntervalOver
    <2> HIDE DEF L
    <2> QED BY <2>1
<1>2. \A i \in 1..n : intervals[i].filed \in Seq(L)
    <2>1. \A i \in 1..n : intervals[i] \in IntervalOver(L)
        <3> HIDE DEF L
        <3> QED BY <1>1, ElementOfSeq
    <2> HIDE DEF L
    <2> QED BY <2>1 DEF IntervalOver
<1>3. lists \in Seq(Seq(L)) /\ Len(lists) = n /\ \A i \in 1..n : lists[i] = intervals[i].filed
    <2> DEFINE V == Seq(L)
    <2>1. lists \in [1..n -> V] /\ \A i \in 1..n : lists[i] = intervals[i].filed
        <3> HIDE DEF n
        <3> QED BY <1>1, <1>2
    <2> HIDE DEF V, n, lists
    <2> QED BY <1>1, <2>1 DEF V
<1>4. /\ \A i \in 1..n : IsInjective(intervals[i].filed)
      /\ \A i, j \in 1..n : i # j => ToSet(intervals[i].filed) \cap ToSet(intervals[j].filed) = {}
      /\ UNION {ToSet(intervals[i].filed) : i \in 1..n} = {k \in Shown : k < at}
    BY DEF ReportInv, FiledSoFar
<1>5. {k \in Shown : k < at} = Shown
    <2>1. Len(log) \in Nat /\ at \in Nat /\ DOMAIN log = 1..Len(log)
        BY DEF ReportInv, ReportTypeOK
    <2>2. \A k \in 1..Len(log) : k < at
        BY <2>1
    <2> QED BY <2>1, <2>2 DEF Shown
<1>6. Filed = FlattenSeq(lists)
    BY DEF Filed
<1> HIDE DEF lists, n, L
<1>7. /\ IsInjective(FlattenSeq(lists))
      /\ ToSet(FlattenSeq(lists)) = UNION {ToSet(lists[i]) : i \in 1..n}
    <2>1. /\ \A i \in 1..n : IsInjective(lists[i])
          /\ \A i, j \in 1..n : i # j => ToSet(lists[i]) \cap ToSet(lists[j]) = {}
        BY <1>3, <1>4
    <2> QED BY <1>1, <1>3, <2>1, FlattenFacts
<1> QED BY <1>3, <1>4, <1>5, <1>6, <1>7

LEMMA AllOfOneInterval == ReportInv => CountsOfOneInterval
<1> SUFFICES ASSUME ReportInv PROVE CountsOfOneInterval
    OBVIOUS
<1>1. DOMAIN intervals = 1..Len(intervals)
    BY DEF ReportInv, ReportTypeOK
<1>2. \A i \in 2..Len(intervals) : intervals[i].start = intervals[i - 1].stop
    <2>1. CASE intervals = <<>>
        BY <2>1
    <2>2. CASE intervals # <<>>
        BY <2>2 DEF ReportInv, Chained
    <2> QED BY <2>1, <2>2
<1>3. ASSUME Sorted, NEW i \in DOMAIN intervals, NEW j \in ToSet(intervals[i].filed),
             NEW k \in ToSet(intervals[i].filed)
      PROVE  log[k] >= intervals[i].start /\ (j # k => log[k] <= intervals[i].stop)
    <2>1. Proper(intervals[i])
        BY <1>1, <1>3 DEF ReportInv, InOrder
    <2>2. Len(intervals[i].filed) = 1 => j = k
        <3>1. intervals[i].filed \in Seq(DOMAIN log)
            <4> DEFINE L == DOMAIN log
            <4>1. intervals \in Seq(IntervalOver(L))
                BY DEF ReportInv, ReportTypeOK, IntervalOver
            <4> HIDE DEF L
            <4>2. intervals[i] \in IntervalOver(L)
                BY <1>1, <1>3, <4>1, ElementOfSeq
            <4> QED BY <4>2 DEF IntervalOver, L
        <3>2. \A S : \A s \in Seq(S) : Len(s) = 1 => \A x, y \in ToSet(s) : x = y
            BY DEF ToSet
        <3> QED BY <1>3, <3>1, <3>2
    <2> QED BY <2>1, <2>2 DEF Proper
<1> QED BY <1>2, <1>3 DEF CountsOfOneInterval

\* A summary counts every line that show prints for the same times, and each in
\* one interval: DropLogSummary's loop over any log, in order or not.
THEOREM AllLinesCounted == Spec => []SummaryCountsShown
BY AllFiled, InspectionAlways, PTL DEF InspectionInv

\* The intervals have no gaps, and in a log that is in order no line is counted too
\* late and no count mixes the lines of two intervals.  That a line is counted in
\* its own interval is not so.
THEOREM CountsKeptApart == Spec => []CountsOfOneInterval
BY AllOfOneInterval, InspectionAlways, PTL DEF InspectionInv

\* Dumps that diff finds nothing between lead from each object to the same policy.
THEOREM QuietDiffIsRight == Spec => []QuietDiffSamePolicy
BY QuietDiff, InspectionAlways, PTL DEF InspectionInv, PolicyInv

\* flatten_dict, which extends the list it walks, ends with every object once.
THEOREM FlattenIsRight == Spec => []FlattenedOnce
BY AllFlattened, InspectionAlways, PTL DEF InspectionInv, PolicyInv

\* ep-info prints all that an endpoint leads to and warns of all that is missing
\* on the way, whatever cycles the targets make.
THEOREM EpInfoIsComplete == Spec => []EverythingPrinted
BY AllPrinted, InspectionAlways, PTL DEF InspectionInv, PolicyInv

\* ep-info prints an object once for the L2 endpoint and once for every visited
\* target that it is below, since visited is set for targets, and for nothing that
\* children lead to; and once more if it is the L3 endpoint that was asked for.
THEOREM PrintedAsOftenAsDue == Spec => []PrintedPerReference
BY AllTallied, InspectionAlways, PTL DEF InspectionInv, PolicyInv
==============================================================================
