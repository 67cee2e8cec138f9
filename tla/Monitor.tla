------------------------------- MODULE Monitor -------------------------------
(***************************************************************************)
(* The monitor (tools/monitor): a timer that asks every server node for    *)
(* its statistics once a minute, the answers, which come in any order and  *)
(* late, the day log they are appended to, the browsers that watch the     *)
(* state of the nodes over sockets, and the pages that read the log.       *)
(*                                                                         *)
(* Time is counted in halves of a minute: seconds 0 to 58, and second 59,  *)
(* the one in which the nodes are asked.                                   *)
(***************************************************************************)
EXTENDS StatsLog, FiniteSets

CONSTANTS
  N,               \* number of nodes in config.nodes; ids are 0..N-1
  Sockets,         \* sockets of browsers; each connects at most once
  None,            \* null
  StatAt(_, _),    \* the counter a node reports when asked in a given minute
  MinutesPerDay,   \* 1440
  MaxClock,        \* bound: the clock stops there
  MaxPending,      \* bound: unanswered requests and unfinished appends
  MaxRestarts      \* bound: restarts of the monitor

ASSUME MonitorAssumption ==
  /\ N \in Nat \ {0}
  /\ MinutesPerDay \in Nat \ {0}
  /\ None \notin Sockets
  /\ MaxClock \in Nat /\ MaxRestarts \in Nat

Nodes == 0..(N - 1)

VARIABLES
  now,            \* the clock
  g_is_queried,   \* has this second 59 been used?
  g_file,         \* the day whose file is appended to
  g_file_number,  \* the number of log files, as the pages see it
  requests,       \* statistics requests not yet answered
  appends,        \* appendFile calls not yet done
  files,          \* files[d] is the log of day d, << >> when there is none
  alive,          \* Node.alive
  g_client,       \* the socket events are emitted on
  g_client_num,
  opened,         \* the sockets that have connected
  connected,      \* those of them that still are
  table,          \* the state of the nodes in a browser, None before an event
  asked,          \* history: the days and minutes asked in, with `restarts' then
  restarts

vars == <<now, g_is_queried, g_file, g_file_number, requests, appends, files,
          alive, g_client, g_client_num, opened, connected, table, asked, restarts>>

Second59(t) == t % 2 = 1

IndexOf(t) == (t \div 2) % MinutesPerDay
DayOf(t) == (t \div 2) \div MinutesPerDay
Days == 0..DayOf(MaxClock)

Lines == [node : Nodes, day : Days, m_index : 0..(MinutesPerDay - 1), info : Int]

\* Shape of the variables.
TypeOK ==
  /\ now \in 0..MaxClock
  /\ g_is_queried \in BOOLEAN
  /\ g_file \in Days
  /\ g_file_number \in Nat
  /\ requests \subseteq [node : Nodes, day : Days, m_index : 0..(MinutesPerDay - 1)]
  /\ appends \subseteq [file : Days, line : Lines]
  /\ files \in [Days -> Seq(Lines)]
  /\ alive \in [Nodes -> BOOLEAN]
  /\ g_client \in Sockets \cup {None}
  /\ g_client_num \in Nat
  /\ opened \subseteq Sockets
  /\ connected \subseteq opened
  /\ table \in [Sockets -> [Nodes -> BOOLEAN \cup {None}]]
  /\ asked \subseteq Days \X (0..(MinutesPerDay - 1)) \X (0..MaxRestarts)
  /\ restarts \in 0..MaxRestarts

-----------------------------------------------------------------------------
Blank == [n \in Nodes |-> None]

\* addNode for every configured node, then start(): the first log is today's.
Init ==
  /\ now = 0
  /\ g_is_queried = FALSE
  /\ g_file = 0
  /\ g_file_number = 0
  /\ requests = {}
  /\ appends = {}
  /\ files = [d \in Days |-> << >>]
  /\ alive = [n \in Nodes |-> TRUE]
  /\ g_client = None
  /\ g_client_num = 0
  /\ opened = {}
  /\ connected = {}
  /\ table = [c \in Sockets |-> Blank]
  /\ asked = {}
  /\ restarts = 0

\* Time passes whether the timer has run or not: a busy loop misses a minute.
Tick ==
  /\ now < MaxClock
  /\ now' = now + 1
  /\ UNCHANGED <<g_is_queried, g_file, g_file_number, requests, appends, files,
                 alive, g_client, g_client_num, opened, connected, table, asked, restarts>>

\* The timer outside of second 59.
QueryNodesIdle ==
  /\ ~Second59(now)
  /\ g_is_queried' = FALSE
  /\ UNCHANGED <<now, g_file, g_file_number, requests, appends, files, alive,
                 g_client, g_client_num, opened, connected, table, asked, restarts>>

\* The flag that this second was used is not looked at.
MayQueryAlways == Second59(now)

\* The conditions of queryNodes under which it asks.
MayQuery == Second59(now) /\ ~g_is_queried

\* The log changes in the last minute of a day instead of the first.
NewDayEarly == IndexOf(now) = MinutesPerDay - 1

\* "the new day"
NewDay == IndexOf(now) = 0

NextFileNumber == IF NewDay THEN g_file_number + 1 ELSE g_file_number

\* The timer in second 59: change to the new day's log in the first minute,
\* then ask every node.
QueryNodes ==
  /\ MayQuery
  /\ Cardinality(requests) + Cardinality(appends) + N <= MaxPending
  /\ g_file' = IF NewDay THEN DayOf(now) ELSE g_file
  /\ g_file_number' = NextFileNumber
  /\ requests' = requests \cup
       [node : Nodes, day : {DayOf(now)}, m_index : {IndexOf(now)}]
  /\ g_is_queried' = TRUE
  /\ asked' = asked \cup {<<DayOf(now), IndexOf(now), restarts>>}
  /\ UNCHANGED <<now, appends, files, alive, g_client, g_client_num, opened, connected,
                 table, restarts>>

-----------------------------------------------------------------------------
(* fireEvent: the socket emits to its own browser and broadcasts to all    *)
(* the others; a socket that is gone can still broadcast.                  *)

Reached == IF g_client = None THEN {} ELSE connected

\* The event `server status', as the browsers' tables take it.
FireStatus(n, status) ==
  table' = [c \in Sockets |->
              IF c \in Reached THEN [table[c] EXCEPT ![n] = status] ELSE table[c]]

\* The request fails, or the status is not 200.
QueryNodeFailed(r) ==
  /\ r \in requests
  /\ requests' = requests \ {r}
  /\ alive' = [alive EXCEPT ![r.node] = FALSE]
  /\ FireStatus(r.node, FALSE)
  /\ UNCHANGED <<now, g_is_queried, g_file, g_file_number, appends, files,
                 g_client, g_client_num, opened, connected, asked, restarts>>

\* The body cannot be parsed: the exception is logged and nothing changes.  One
\* that can has every field read here (GetReport of stats_manager.cc).
QueryNodeGarbled(r) ==
  /\ r \in requests
  /\ requests' = requests \ {r}
  /\ UNCHANGED <<now, g_is_queried, g_file, g_file_number, appends, files, alive,
                 g_client, g_client_num, opened, connected, table, asked, restarts>>

\* The log line of an answer.  The minute is that of the question, the file
\* the one in use when the answer comes.
LineOf(r) ==
  [node |-> r.node, day |-> r.day, m_index |-> r.m_index,
   info |-> StatAt(r.node, r.day * MinutesPerDay + r.m_index)]

QueryNodeDone(r) ==
  /\ r \in requests
  /\ requests' = requests \ {r}
  /\ alive' = [alive EXCEPT ![r.node] = TRUE]
  /\ FireStatus(r.node, TRUE)
  /\ appends' = appends \cup {[file |-> g_file, line |-> LineOf(r)]}
  /\ UNCHANGED <<now, g_is_queried, g_file, g_file_number, files, g_client,
                 g_client_num, opened, connected, asked, restarts>>

\* An appendFile is carried out; concurrent ones finish in any order.
AppendDone(a) ==
  /\ a \in appends
  /\ appends' = appends \ {a}
  /\ files' = [files EXCEPT ![a.file] = Append(@, a.line)]
  /\ UNCHANGED <<now, g_is_queried, g_file, g_file_number, requests, alive,
                 g_client, g_client_num, opened, connected, table, asked, restarts>>

\* An appendFile fails: the line is lost, the error logged.
AppendFailed(a) ==
  /\ a \in appends
  /\ appends' = appends \ {a}
  /\ UNCHANGED <<now, g_is_queried, g_file, g_file_number, requests, files, alive,
                 g_client, g_client_num, opened, connected, table, asked, restarts>>

-----------------------------------------------------------------------------
\* A browser opens its socket: onClientConnect.
Connection(c) ==
  /\ c \notin opened
  /\ opened' = opened \cup {c}
  /\ connected' = connected \cup {c}
  /\ g_client' = c
  /\ g_client_num' = g_client_num + 1
  /\ UNCHANGED <<now, g_is_queried, g_file, g_file_number, requests, appends,
                 files, alive, table, asked, restarts>>

\* The disconnect handler forgets the socket it was told about.
DisconnectForgets(c) ==
  /\ c \in connected
  /\ connected' = connected \ {c}
  /\ g_client' = IF g_client = c THEN None ELSE g_client
  /\ g_client_num' = g_client_num - 1
  /\ UNCHANGED <<now, g_is_queried, g_file, g_file_number, requests, appends,
                 files, alive, opened, table, asked, restarts>>

\* A socket goes away.  The handler calls onClientConnect, as for a new one:
\* the socket that is gone becomes the one events are sent on.
Disconnection(c) ==
  /\ c \in connected
  /\ connected' = connected \ {c}
  /\ g_client' = c
  /\ g_client_num' = g_client_num + 1
  /\ UNCHANGED <<now, g_is_queried, g_file, g_file_number, requests, appends,
                 files, alive, opened, table, asked, restarts>>

\* The monitor is stopped and started: what it was waiting for is lost, the
\* logs stay, and the sockets are cut.
Restart ==
  /\ restarts < MaxRestarts
  /\ restarts' = restarts + 1
  /\ g_is_queried' = FALSE
  /\ g_file' = DayOf(now)
  /\ g_file_number' = Cardinality({d \in Days : files[d] # << >>})
  /\ requests' = {}
  /\ appends' = {}
  /\ alive' = [n \in Nodes |-> TRUE]
  /\ g_client' = None
  /\ g_client_num' = 0
  /\ connected' = {}
  /\ UNCHANGED <<now, files, opened, table, asked>>

Next ==
  \/ Tick
  \/ QueryNodesIdle
  \/ QueryNodes
  \/ \E r \in requests : QueryNodeFailed(r) \/ QueryNodeGarbled(r) \/ QueryNodeDone(r)
  \/ \E a \in appends : AppendDone(a) \/ AppendFailed(a)
  \/ \E c \in Sockets : Connection(c) \/ Disconnection(c)
  \/ Restart

Spec == Init /\ [][Next]_vars

-----------------------------------------------------------------------------
(* The pages (tools/monitor/app.js).  They change nothing; a page is what  *)
(* is computed from the log it reads.                                      *)

\* The files a page may ask for, by offset from today.
Offsets == {d - DayOf(now) : d \in Days}
LogAt(offset) == files[DayOf(now) + offset]

BadRequest == [error |-> TRUE]

ValidId(id) == ~(id < -1 \/ id >= N)

\* /
Index == StatsOfDay(LogAt(0), All)

\* /get_stats_log
GetStatsLog(offset, id) ==
  IF ValidId(id) THEN StatsOfDay(LogAt(offset), id) ELSE BadRequest

\* /node
NodePage(id) ==
  IF ValidId(id) /\ id # All THEN StatsOfDay(LogAt(0), id) ELSE BadRequest

\* /history: the node id only chooses the heading, the rows are all nodes'.
History(offset, id) ==
  IF ValidId(id) THEN StatsOfDay(LogAt(offset), All) ELSE BadRequest

\* /chart: the page asks for its series with /get_stats_log.
Chart(offset, id) ==
  IF ValidId(id)
  THEN [stats_file_number |-> g_file_number, series |-> GetStatsLog(offset, id)]
  ELSE BadRequest

\* getDailyStats: one entry for each of the last days whose file can be read and
\* has one.  Their order is up to the engine, since the comparison function given
\* to sort never says "less".
DailyStats(id) ==
  {DailyStat(LogAt(o), id) : o \in {p \in Offsets : p <= 0}} \ {NoDiff}

\* /daily_report
DailyReport(id) == IF ValidId(id) THEN DailyStats(id) ELSE BadRequest

\* The pages that show the rows of all nodes for a day.
PagesOfAll(offset) ==
  {GetStatsLog(offset, All), Chart(offset, All).series} \cup
  {History(offset, id) : id \in Nodes \cup {All}} \cup
  (IF offset = 0 THEN {Index} ELSE {})
-----------------------------------------------------------------------------
(* Properties of the sampling.                                             *)

\* One process asks the nodes at most once in a minute, though its timer runs
\* several times in second 59 (g_is_queried in queryNodes).
SampledOnce ==
  [][requests' \subseteq requests
     \/ <<DayOf(now), IndexOf(now), restarts>> \notin asked]_vars

\* Line l may be in the log of day d.
FiledAs(d, l) ==
  /\ l.day < d => \E p \in 0..MaxRestarts : <<d, 0, p>> \in asked
  /\ \A e \in (d + 1)..l.day : \A p \in 0..MaxRestarts : <<e, 0, p>> \notin asked

\* A line is filed under its own day, except in two cases: the answer came
\* after the next day's log had been opened, or the first minute of its day
\* went by without a query, so that the log was never changed (queryNode
\* appends to the g_file of the moment, queryNodes changes it in minute 0).
SampleFiled ==
  /\ \A d \in Days : \A i \in DOMAIN files[d] : FiledAs(d, files[d][i])
  /\ \A a \in appends : FiledAs(a.file, a.line)

\* A browser that is connected shows a node as the monitor sees it, or has not
\* heard of it: no event is lost when other sockets come and go (fireEvent
\* broadcasts from the last socket the connection handlers were called with,
\* which may be gone).
ClientsUpToDate ==
  \A c \in connected : \A n \in Nodes : table[c][n] \in {None, alive[n]}

-----------------------------------------------------------------------------
(* Properties of the pages, for the logs the monitor can write.            *)

Minutes(lines) == {lines[i].m_index : i \in DOMAIN lines}

\* No answer comes between two answers of another minute.
Grouped(lines) ==
  \A i, j, k \in DOMAIN lines :
    i < j /\ j < k /\ lines[i].m_index = lines[k].m_index
      => lines[j].m_index = lines[i].m_index

Total(lines, m) ==
  FoldLeft(LAMBDA sum, l : IF l.m_index = m THEN sum + l.info ELSE sum, 0, lines)

\* In a log in which no answers overtake those of another minute, a page of
\* all nodes has a row for every minute, which is the sum of the minute's
\* lines; only a log of a single minute has no row at all (getStatsOfDay).
MinutesAddUp ==
  \A offset \in Offsets : \A rows \in PagesOfAll(offset) :
    LET lines == LogAt(offset)
    IN  Grouped(lines) =>
          /\ \A i \in DOMAIN rows :
               rows[i] = GapRow(lines, All, i) \/ rows[i].info = Total(lines, rows[i].m_index)
          /\ \A m \in Minutes(lines) :
               Minutes(lines) # {m} => \E i \in DOMAIN rows : rows[i].m_index = m /\ rows[i].info > 0

\* The log up to its last minute.
Closed(lines) ==
  SelectSeq(lines, LAMBDA l : l.m_index # lines[Len(lines)].m_index)

\* Every node answered once in every minute of the log.
Complete(lines) ==
  \A m \in Minutes(lines) : \A n \in Nodes :
    Cardinality({i \in DOMAIN lines : lines[i].m_index = m /\ lines[i].node = n}) = 1

\* Where every node answered in every minute, the daily report of all nodes is
\* the sum of the reports of the nodes, up to the minute that is not yet closed
\* (parseDailyStat computes the two in different ways).
AllIsSumOfNodes ==
  \A offset \in Offsets :
    LET lines == LogAt(offset)
        all == DailyStat(lines, All)
    IN  Grouped(lines) /\ Complete(lines) /\ Cardinality(Minutes(lines)) > 1 =>
          all.info = FoldLeft(LAMBDA sum, n : sum + DailyStat(Closed(lines), n).info,
                              0, [n \in 1..N |-> n - 1])

=============================================================================
