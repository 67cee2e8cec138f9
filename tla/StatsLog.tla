------------------------------ MODULE StatsLog ------------------------------
(***************************************************************************)
(* The readers of the monitor's day logs (tools/monitor/monitor.js).  A    *)
(* log is a sequence of lines; a line is one answer of one node, with the  *)
(* day and the minute of the day it was asked in.  `info', an object of    *)
(* counters in the code, is one counter: accumulateObj and subtractObj     *)
(* treat every counter alike.                                              *)
(***************************************************************************)
EXTENDS Integers, Sequences, SequencesExt

All == -1                  \* the node id that stands for all nodes together

NoStat == [node |-> All, day |-> -1, m_index |-> -1, info |-> 0]

\* accumulateObj(dst.info, src.info)
Accumulate(dst, src) == [dst EXCEPT !.info = @ + src.info]

\* subtractObj(minuend, subtractor).info
Subtract(minuend, subtractor) == minuend.info - subtractor.info

\* The `length' of an array with gaps, and its assignments.
Length(list) == IF list = << >> THEN 0
                ELSE 1 + (CHOOSE i \in DOMAIN list : \A j \in DOMAIN list : j <= i)

PutAt(list, i, item) ==
  [j \in DOMAIN list \cup {i} |-> IF j = i THEN item ELSE list[j]]

\* The minute being merged is closed without being stored.
MergeLineDropped(acc, item) ==
  IF acc.merged = NoStat THEN [acc EXCEPT !.merged = item]
  ELSE IF acc.merged.m_index = item.m_index
       THEN [acc EXCEPT !.merged = Accumulate(@, item)]
       ELSE [acc EXCEPT !.closed = Append(@, acc.merged)]

\* The merging both readers share: lines of one minute that follow each other
\* are added up, and a line of another minute closes the minute before.
MergeLine(acc, item) ==
  IF acc.merged = NoStat THEN [acc EXCEPT !.merged = item]
  ELSE IF acc.merged.m_index = item.m_index
       THEN [acc EXCEPT !.merged = Accumulate(@, item)]
       ELSE [merged |-> item, closed |-> Append(acc.closed, acc.merged)]

Merged(lines) ==
  FoldLeft(MergeLine, [merged |-> NoStat, closed |-> << >>], lines)

\* The rows of one node: the last of its lines for a minute stands.
NodeRows(lines, id) ==
  FoldLeft(LAMBDA list, item : IF item.node = id
                               THEN PutAt(list, item.m_index, item) ELSE list,
           << >>, lines)

\* The rows of all nodes together.  A minute that is closed twice keeps its
\* second part; the minute still open at the end of the log is pushed behind
\* the rows, unless there are none or the last one is its own.
MergedRows(lines) ==
  LET m == Merged(lines)
      list == FoldLeft(LAMBDA l, item : PutAt(l, item.m_index, item), << >>, m.closed)
      length == Length(list)
  IN  IF /\ m.merged # NoStat
         /\ length > 0
         /\ m.merged.m_index # list[length - 1].m_index
      THEN PutAt(list, length, m.merged)
      ELSE list

\* cloneObjTemplate(src): the same counters, all of them 0.
Template(info) == info - info

\* The row for a minute without one; its counters are those of the log's first line.
GapRow(lines, id, i) ==
  [node |-> id, day |-> -1, m_index |-> i, info |-> Template(Head(lines).info)]

\* getStatsOfDay, once the file has been read.
StatsOfDay(lines, id) ==
  LET list == IF id # All THEN NodeRows(lines, id) ELSE MergedRows(lines)
  IN  [i \in 0..(Length(list) - 1) |->
         IF i \in DOMAIN list THEN list[i] ELSE GapRow(lines, id, i)]

NoDiff == [none |-> TRUE]

\* The minute still open at the end of the log is taken for its last.
DailyStatOpen(lines, id) ==
  LET logs == IF id # All THEN SelectSeq(lines, LAMBDA l : l.node = id)
                          ELSE Append(Merged(lines).closed, Merged(lines).merged)
  IN  IF lines = << >> \/ logs = << >> THEN NoDiff
      ELSE [start_minute |-> Head(logs).m_index, end_minute |-> Last(logs).m_index,
            date |-> Head(logs).day, info |-> Subtract(Last(logs), Head(logs))]

\* parseDailyStat: the last log of the day minus the first, null when there
\* is none.  Merged minutes count only once they are closed.
DailyStat(lines, id) ==
  LET logs == IF id # All THEN SelectSeq(lines, LAMBDA l : l.node = id)
                          ELSE Merged(lines).closed
  IN  IF logs = << >> THEN NoDiff
      ELSE [start_minute |-> Head(logs).m_index, end_minute |-> Last(logs).m_index,
            date |-> Head(logs).day, info |-> Subtract(Last(logs), Head(logs))]
=============================================================================
