--------------------------- MODULE MonitorProofs ----------------------------
(***************************************************************************)
(* The monitor's sampling and its browsers, for any nodes, sockets, length *)
(* of the day and bounds: a minute is sampled once, a sample is filed      *)
(* under its day but for the two cases SampleFiled names, and a connected  *)
(* browser has heard every event since it connected.                       *)
(***************************************************************************)
EXTENDS Monitor, TLAPS

-----------------------------------------------------------------------------
(* The clock.                                                              *)

\* What quotient and remainder are.
LEMMA DivMod ==
  ASSUME NEW M \in Nat \ {0}, NEW x \in Nat
  PROVE  /\ x \div M \in Nat /\ x % M \in 0..M - 1
         /\ x = M * (x \div M) + (x % M)
<1>1. x \div M \in Nat
  OBVIOUS
<1>2. x % M \in 0..M - 1
  OBVIOUS
<1>3. x = M * (x \div M) + (x % M)
  BY SMTT(30)
<1> QED
  BY <1>1, <1>2, <1>3

\* Products keep the order.
LEMMA Times ==
  ASSUME NEW M \in Nat \ {0}, NEW a \in Nat, NEW b \in Nat, b < a
  PROVE  M * b + M <= M * a
<1>1. a - b - 1 \in Nat
  OBVIOUS
<1>2. M * (a - b - 1) >= 0
  BY <1>1
<1> QED
  BY <1>2

\* Quotients keep the order.
LEMMA DivMonotone ==
  ASSUME NEW M \in Nat \ {0}, NEW x \in Nat, NEW y \in Nat, x <= y
  PROVE  x \div M <= y \div M
<1> DEFINE a == x \div M
           b == y \div M
<1>1. /\ a \in Nat /\ x % M \in 0..M - 1 /\ x = M * a + (x % M)
      /\ b \in Nat /\ y % M \in 0..M - 1 /\ y = M * b + (y % M)
  BY DivMod
<1> HIDE DEF a, b
<1>2. ASSUME b < a PROVE FALSE
  BY <1>1, <1>2, Times
<1> QED
  BY <1>1, <1>2 DEF a, b

\* Days follow each other; a minute is told by its day and its index, and minute
\* 0 is the first of its day.
LEMMA Clock ==
  ASSUME NEW t \in Nat, NEW u \in Nat, t <= u
  PROVE  /\ DayOf(t) \in Nat /\ DayOf(t) <= DayOf(u)
         /\ IndexOf(t) \in 0..(MinutesPerDay - 1)
         /\ DayOf(t) = DayOf(u) /\ IndexOf(t) = IndexOf(u) => t \div 2 = u \div 2
         /\ DayOf(t) = DayOf(u) /\ IndexOf(u) = 0 => IndexOf(t) = 0
<1> DEFINE x == t \div 2
           y == u \div 2
           M == MinutesPerDay
<1>1. x \in Nat /\ y \in Nat /\ x <= y /\ M \in Nat \ {0}
  BY MonitorAssumption
<1>2. /\ DayOf(t) = x \div M /\ DayOf(u) = y \div M
      /\ IndexOf(t) = x % M /\ IndexOf(u) = y % M
  BY DEF DayOf, IndexOf
<1> HIDE DEF x, y, M
<1>3. x \div M <= y \div M
  BY <1>1, DivMonotone
<1>4. /\ x \div M \in Nat /\ x % M \in 0..M - 1 /\ x = M * (x \div M) + (x % M)
      /\ y \div M \in Nat /\ y % M \in 0..M - 1 /\ y = M * (y \div M) + (y % M)
  BY <1>1, DivMod, Zenon
<1>5. x \div M = y \div M /\ x % M = y % M => x = y
  BY <1>4
<1>6. x \div M = y \div M /\ y % M = 0 => x % M = 0
  BY <1>1, <1>4
<1> QED
  BY <1>2, <1>3, <1>4, <1>5, <1>6 DEF x, y, M

-----------------------------------------------------------------------------
(* The browsers.                                                           *)

\* While a socket is connected there is one to send events on, and a browser
\* that has not connected has heard nothing.
SInv ==
  /\ \A r \in requests : r.node \in Nodes
  /\ alive \in [Nodes -> BOOLEAN]
  /\ table \in [Sockets -> [Nodes -> BOOLEAN \cup {None}]]
  /\ connected \subseteq opened /\ opened \subseteq Sockets
  /\ connected # {} => g_client # None
  /\ \A c \in Sockets \ opened : table[c] = Blank
  /\ ClientsUpToDate

\* An event about a node leaves the browsers up to date with its new state.
LEMMA FireKeeps ==
  ASSUME SInv, NEW n \in Nodes, NEW status \in BOOLEAN,
         alive' = [alive EXCEPT ![n] = status], FireStatus(n, status),
         UNCHANGED <<g_client, opened, connected>>, requests' \subseteq requests
  PROVE  SInv'
<1>1. alive' \in [Nodes -> BOOLEAN] /\ alive'[n] = status
      /\ \A m \in Nodes \ {n} : alive'[m] = alive[m]
  BY DEF SInv
<1>2. connected = {} \/ Reached = connected
  BY DEF SInv, Reached
<1>3. ASSUME NEW c \in Sockets
      PROVE  /\ table'[c] \in [Nodes -> BOOLEAN \cup {None}]
             /\ c \in Reached => /\ table'[c][n] = status
                                 /\ \A m \in Nodes \ {n} : table'[c][m] = table[c][m]
             /\ c \notin Reached => table'[c] = table[c]
  <2>1. table'[c] = IF c \in Reached THEN [table[c] EXCEPT ![n] = status] ELSE table[c]
    BY DEF FireStatus
  <2>2. table[c] \in [Nodes -> BOOLEAN \cup {None}]
    BY DEF SInv
  <2> QED
    BY <2>1, <2>2
<1>4. table' \in [Sockets -> [Nodes -> BOOLEAN \cup {None}]]
  BY <1>3, Zenon DEF FireStatus
<1>5. \A c \in Sockets \ opened' : table'[c] = Blank
  BY <1>3 DEF SInv, Reached
<1>6. ClientsUpToDate'
  BY <1>1, <1>2, <1>3 DEF SInv, ClientsUpToDate
<1> QED
  BY <1>1, <1>4, <1>5, <1>6 DEF SInv

\* At the start, and after every step.
LEMMA InitSInv == Init => SInv
BY DEF Init, SInv, ClientsUpToDate, Blank

LEMMA NextSInv == SInv /\ [Next]_vars => SInv'
<1> SUFFICES ASSUME SInv, [Next]_vars PROVE SInv'
  OBVIOUS
<1>1. CASE /\ UNCHANGED <<alive, table, connected, opened, g_client>>
           /\ \A r \in requests' : r.node \in Nodes
  BY <1>1 DEF SInv, ClientsUpToDate, Blank
<1>2. CASE \E r \in requests : QueryNodeFailed(r) \/ QueryNodeDone(r)
  <2>1. PICK r \in requests : QueryNodeFailed(r) \/ QueryNodeDone(r)
    BY <1>2
  <2>2. r.node \in Nodes
    BY <2>1 DEF SInv
  <2>3. CASE QueryNodeFailed(r)
    BY <2>2, <2>3, FireKeeps, Zenon DEF QueryNodeFailed
  <2>4. CASE QueryNodeDone(r)
    BY <2>2, <2>4, FireKeeps, Zenon DEF QueryNodeDone
  <2> QED
    BY <2>1, <2>3, <2>4
<1>3. CASE \E c \in Sockets : Connection(c)
  <2>1. PICK c \in Sockets : Connection(c)
    BY <1>3
  <2>2. table[c] = Blank /\ c # None
    BY <2>1, MonitorAssumption DEF Connection, SInv
  <2> QED
    BY <2>1, <2>2 DEF Connection, SInv, ClientsUpToDate, Blank
<1>4. CASE \E c \in Sockets : Disconnection(c)
  BY <1>4, MonitorAssumption DEF Disconnection, SInv, ClientsUpToDate, Blank
<1>5. CASE Restart
  BY <1>5 DEF Restart, SInv, ClientsUpToDate, Blank
<1>6. CASE QueryNodes
  <2>1. \A r \in requests' : r.node \in Nodes
    BY <1>6 DEF QueryNodes, SInv
  <2> QED
    BY <1>1, <1>6, <2>1 DEF QueryNodes
<1>7. CASE Tick \/ QueryNodesIdle \/ UNCHANGED vars
  BY <1>1, <1>7 DEF Tick, QueryNodesIdle, vars, SInv
<1>8. CASE \E r \in requests : QueryNodeGarbled(r)
  BY <1>1, <1>8 DEF QueryNodeGarbled, SInv
<1>9. CASE \E a \in appends : AppendDone(a) \/ AppendFailed(a)
  BY <1>1, <1>9 DEF AppendDone, AppendFailed, SInv
<1> QED
  BY <1>2, <1>3, <1>4, <1>5, <1>6, <1>7, <1>8, <1>9 DEF Next

\* A browser that is connected shows a node as the monitor sees it, or has not
\* heard of it, though the socket events are broadcast on may be one that is
\* gone.
THEOREM SpecClientsUpToDate == Spec => []ClientsUpToDate
<1>1. SInv => ClientsUpToDate
  BY DEF SInv
<1> QED
  BY <1>1, InitSInv, NextSInv, PTL DEF Spec

-----------------------------------------------------------------------------
(* The samples.                                                            *)

Asks == [node : Nodes, day : Nat, m_index : Nat]
LinesOf == {LineOf(r) : r \in Asks}

\* When the nodes were asked: in second 59, and in this second only if the flag
\* of this process says so; minute 0 was asked in only if the log was changed.
AskedThen ==
  /\ \A e \in asked : \E t \in 0..now, p \in 0..restarts :
       /\ e = <<DayOf(t), IndexOf(t), p>> /\ Second59(t)
       /\ t = now /\ p = restarts => g_is_queried
  /\ \A e \in asked : e[2] = 0 => e[1] <= g_file

\* Where the answer to r would be filed now.
Placed(r) ==
  /\ r.day <= DayOf(now)
  /\ r.day < g_file => \E p \in 0..MaxRestarts : <<g_file, 0, p>> \in asked
  /\ r.day = DayOf(now) /\ IndexOf(now) = 0 => r.day <= g_file

\* A line filed under day d stays filed as SampleFiled says: if its own day's
\* log was not open, the minute that opens it is over.
Filed(d, l) ==
  /\ FiledAs(d, l)
  /\ l.day <= DayOf(now)
  /\ d < l.day /\ l.day = DayOf(now) => IndexOf(now) # 0

FInv ==
  /\ now \in 0..MaxClock /\ restarts \in 0..MaxRestarts
  /\ g_file \in Nat /\ g_file <= DayOf(now)
  /\ requests \subseteq Asks
  /\ \A a \in appends : a.file \in Days /\ a.line \in LinesOf
  /\ files \in [Days -> Seq(LinesOf)]
  /\ AskedThen
  /\ \A r \in requests : Placed(r)
  /\ \A a \in appends : Filed(a.file, a.line)
  /\ \A d \in Days : \A i \in DOMAIN files[d] : Filed(d, files[d][i])

\* What the line of an answer says.
LEMMA LineIs ==
  ASSUME NEW r \in Asks
  PROVE  LineOf(r) \in LinesOf /\ LineOf(r).day = r.day /\ r.day \in Nat
BY DEF LineOf, LinesOf, Asks

\* The lines of a log have days.
LEMMA DayIs ==
  ASSUME NEW l \in LinesOf
  PROVE  l.day \in Nat
BY LineIs DEF LinesOf

\* The clock is within its bounds.
LEMMA Now ==
  ASSUME FInv
  PROVE  /\ now \in Nat /\ DayOf(now) \in Nat /\ DayOf(now) \in Days
         /\ g_file \in Days
<1>1. now \in Nat /\ MaxClock \in Nat /\ now <= MaxClock
  BY MonitorAssumption DEF FInv
<1>2. DayOf(now) \in Nat /\ DayOf(now) <= DayOf(MaxClock) /\ DayOf(MaxClock) \in Nat
  BY <1>1, Clock
<1> QED
  BY <1>1, <1>2 DEF FInv, Days

\* A step that asks nothing and opens no log keeps the invariant: it may answer,
\* file or lose what was asked.
LEMMA Answering ==
  ASSUME FInv, UNCHANGED <<now, restarts, g_file, g_is_queried, asked>>,
         requests' \subseteq requests,
         \A a \in appends' : \/ a \in appends
                             \/ \E r \in requests : a = [file |-> g_file, line |-> LineOf(r)],
         \/ files' = files
         \/ \E a \in appends : files' = [files EXCEPT ![a.file] = Append(@, a.line)]
  PROVE  FInv'
<1>1. DayOf(now)' = DayOf(now) /\ IndexOf(now)' = IndexOf(now)
  BY DEF DayOf, IndexOf
<1>2. \A d, l : Filed(d, l)' <=> Filed(d, l)
  BY <1>1 DEF Filed, FiledAs
<1>3. \A r \in requests' : Placed(r)'
  BY <1>1 DEF FInv, Placed
<1>4. AskedThen'
  BY DEF FInv, AskedThen, DayOf, IndexOf, Second59
<1>5. ASSUME NEW r \in requests
      PROVE  Filed(g_file, LineOf(r))
  <2>1. r \in Asks /\ Placed(r) /\ g_file \in Nat
    BY DEF FInv
  <2>2. LineOf(r).day = r.day /\ r.day \in Nat
    BY <2>1, LineIs
  <2>3. \A e \in (g_file + 1)..r.day : \A p \in 0..MaxRestarts : <<e, 0, p>> \notin asked
    <3>1. SUFFICES ASSUME NEW e \in (g_file + 1)..r.day, NEW p, <<e, 0, p>> \in asked
                   PROVE  FALSE
      BY Zenon
    <3>2. <<e, 0, p>>[2] = 0 => <<e, 0, p>>[1] <= g_file
      BY <3>1 DEF FInv, AskedThen
    <3>3. e <= g_file
      BY <3>2
    <3> QED
      BY <2>1, <2>2, <3>3
  <2> QED
    BY <2>1, <2>2, <2>3 DEF Filed, FiledAs, Placed
<1>6. ASSUME NEW a \in appends'
      PROVE  a.file \in Days /\ a.line \in LinesOf /\ Filed(a.file, a.line)
  <2>1. CASE a \in appends
    BY <2>1 DEF FInv
  <2>2. CASE \E r \in requests : a = [file |-> g_file, line |-> LineOf(r)]
    <3>1. PICK r \in requests : a = [file |-> g_file, line |-> LineOf(r)]
      BY <2>2
    <3>2. a.file = g_file /\ a.line = LineOf(r) /\ r \in Asks
      BY <3>1 DEF FInv
    <3> QED
      BY <1>5, <3>2, LineIs, Now
  <2> QED
    BY <2>1, <2>2
<1>7. /\ files' \in [Days -> Seq(LinesOf)]
      /\ \A d \in Days : \A i \in DOMAIN files'[d] : Filed(d, files'[d][i])
  <2>1. CASE files' = files
    BY <2>1 DEF FInv
  <2>2. CASE \E a \in appends : files' = [files EXCEPT ![a.file] = Append(@, a.line)]
    <3>1. PICK a \in appends : files' = [files EXCEPT ![a.file] = Append(@, a.line)]
      BY <2>2, Zenon
    <3>2. a.file \in Days /\ a.line \in LinesOf /\ Filed(a.file, a.line)
      BY DEF FInv
    <3>3. files \in [Days -> Seq(LinesOf)] /\ files[a.file] \in Seq(LinesOf)
      BY <3>2 DEF FInv
    <3> DEFINE new == Append(files[a.file], a.line)
    <3>4. /\ new \in Seq(LinesOf)
          /\ \A i \in DOMAIN new : \/ i \in DOMAIN files[a.file] /\ new[i] = files[a.file][i]
                                   \/ new[i] = a.line
      BY <3>2, <3>3
    <3> HIDE DEF new
    <3>5. files' = [files EXCEPT ![a.file] = new]
      BY <3>1 DEF new
    <3>6. \A i \in DOMAIN new : Filed(a.file, new[i])
      BY <3>2, <3>4 DEF FInv
    <3>7. files' \in [Days -> Seq(LinesOf)] /\ files'[a.file] = new
          /\ \A d \in Days \ {a.file} : files'[d] = files[d]
      BY <3>2, <3>3, <3>4, <3>5
    <3> QED
      BY <3>6, <3>7 DEF FInv
  <2> QED
    BY <2>1, <2>2
<1>8. /\ now' \in 0..MaxClock /\ restarts' \in 0..MaxRestarts
      /\ g_file' \in Nat /\ g_file' <= DayOf(now') /\ requests' \subseteq Asks
  BY DEF FInv
<1> QED
  BY <1>2, <1>3, <1>4, <1>6, <1>7, <1>8 DEF FInv

\* Time passes.
LEMMA TickFInv ==
  ASSUME FInv, Tick
  PROVE  FInv'
<1>1. /\ now' = now + 1 /\ now < MaxClock
      /\ UNCHANGED <<restarts, g_file, g_is_queried, asked, requests, appends, files>>
  BY DEF Tick
<1>2. now \in Nat /\ now' \in Nat /\ now <= now' /\ now' \in 0..MaxClock
  BY <1>1, MonitorAssumption, Now DEF FInv
<1>3. /\ DayOf(now) \in Nat /\ DayOf(now) <= DayOf(now') /\ DayOf(now') \in Nat
      /\ DayOf(now) = DayOf(now') /\ IndexOf(now') = 0 => IndexOf(now) = 0
  BY <1>2, Clock
<1>4. \A r \in requests' : Placed(r)'
  <2>1. ASSUME NEW r \in requests
        PROVE  Placed(r)'
    <3>1. Placed(r) /\ r.day \in Nat
      BY DEF FInv, Asks
    <3> QED
      BY <1>1, <1>3, <3>1 DEF Placed
  <2> QED
    BY <1>1, <2>1
<1>5. \A d : \A l \in LinesOf : Filed(d, l) => Filed(d, l)'
  <2>1. SUFFICES ASSUME NEW d, NEW l \in LinesOf, Filed(d, l)
                 PROVE  Filed(d, l)'
    OBVIOUS
  <2>2. l.day \in Nat
    BY DayIs
  <2>3. FiledAs(d, l)'
    BY <1>1, <2>1 DEF Filed, FiledAs
  <2> QED
    BY <1>3, <2>1, <2>2, <2>3 DEF Filed
<1>6. \A a \in appends : a.line \in LinesOf /\ Filed(a.file, a.line)
  BY DEF FInv
<1>7. \A d \in Days : \A i \in DOMAIN files[d] : files[d][i] \in LinesOf /\ Filed(d, files[d][i])
  <2>1. \A d \in Days : files[d] \in Seq(LinesOf)
    BY DEF FInv
  <2> QED
    BY <2>1 DEF FInv
<1>8. AskedThen'
  <2>1. ASSUME NEW e \in asked
        PROVE  \E t \in 0..now', p \in 0..restarts :
                 /\ e = <<DayOf(t), IndexOf(t), p>> /\ Second59(t)
                 /\ t = now' /\ p = restarts => g_is_queried
    <3>1. PICK t \in 0..now, p \in 0..restarts : e = <<DayOf(t), IndexOf(t), p>> /\ Second59(t)
      BY DEF FInv, AskedThen
    <3>2. t \in 0..now' /\ t # now'
      BY <1>1, <1>2
    <3> QED
      BY <3>1, <3>2
  <2> QED
    BY <1>1, <2>1 DEF FInv, AskedThen
<1> QED
  BY <1>1, <1>2, <1>3, <1>4, <1>5, <1>6, <1>7, <1>8 DEF FInv

\* The nodes are asked.
LEMMA QueryNodesFInv ==
  ASSUME FInv, QueryNodes
  PROVE  FInv'
<1> DEFINE day == DayOf(now)
           new == <<DayOf(now), IndexOf(now), restarts>>
<1>1. /\ Second59(now) /\ g_is_queried' = TRUE /\ asked' = asked \cup {new}
      /\ g_file' = IF IndexOf(now) = 0 THEN day ELSE g_file
      /\ requests' = requests \cup [node : Nodes, day : {day}, m_index : {IndexOf(now)}]
      /\ UNCHANGED <<now, restarts, appends, files>>
  BY DEF QueryNodes, MayQuery, NewDay
<1>2. /\ now \in Nat /\ day \in Nat /\ IndexOf(now) \in 0..(MinutesPerDay - 1)
      /\ restarts \in 0..MaxRestarts /\ g_file \in Nat /\ g_file <= day
  BY Now, Clock DEF FInv
<1>3. IndexOf(now) \in Nat
  BY <1>2, MonitorAssumption
<1>4. new[1] = day /\ new[2] = IndexOf(now) /\ new[3] = restarts
  OBVIOUS
<1>5. g_file' \in Nat /\ g_file <= g_file' /\ g_file' <= day
  BY <1>1, <1>2
<1>6. g_file' # g_file => g_file' = day /\ IndexOf(now) = 0
  BY <1>1
<1>7. IndexOf(now) = 0 => <<day, 0, restarts>> \in asked' /\ g_file' = day
  BY <1>1
<1>8. requests' \subseteq Asks /\ \A r \in requests' : r \in requests \/ r.day = day
  BY <1>1, <1>2, <1>3 DEF FInv, Asks
<1>9. AskedThen'
  <2>1. ASSUME NEW e \in asked'
        PROVE  \E t \in 0..now, p \in 0..restarts :
                 e = <<DayOf(t), IndexOf(t), p>> /\ Second59(t)
    <3>1. CASE e \in asked
      BY <3>1 DEF FInv, AskedThen
    <3>2. CASE e = new
      <4>1. now \in 0..now /\ restarts \in 0..restarts
        BY <1>2
      <4> QED
        BY <1>1, <3>2, <4>1
    <3> QED
      BY <1>1, <3>1, <3>2
  <2>2. ASSUME NEW e \in asked', e[2] = 0
        PROVE  e[1] <= g_file'
    <3>1. CASE e \in asked
      <4>1. e[1] <= g_file
        BY <2>2, <3>1 DEF FInv, AskedThen
      <4>2. PICK t \in 0..now, p \in 0..restarts : e = <<DayOf(t), IndexOf(t), p>>
        BY <3>1 DEF FInv, AskedThen
      <4>3. DayOf(t) \in Nat /\ e[1] = DayOf(t)
        BY <1>2, <4>2, Clock
      <4> QED
        BY <1>2, <1>5, <4>1, <4>3
    <3>2. CASE e = new
      BY <1>4, <1>5, <1>7, <2>2, <3>2
    <3> QED
      BY <1>1, <3>1, <3>2
  <2> QED
    BY <1>1, <2>1, <2>2 DEF AskedThen
<1>10. \A r \in requests' : Placed(r)'
  <2>1. ASSUME NEW r \in requests'
        PROVE  /\ r.day <= day
               /\ r.day < g_file' => \E p \in 0..MaxRestarts : <<g_file', 0, p>> \in asked'
               /\ r.day = day /\ IndexOf(now) = 0 => r.day <= g_file'
    <3>1. r.day \in Nat
      BY <1>8 DEF Asks
    <3>2. r.day <= day
      BY <1>2, <1>8 DEF FInv, Placed
    <3>3. ASSUME r.day < g_file'
          PROVE  \E p \in 0..MaxRestarts : <<g_file', 0, p>> \in asked'
      <4>1. CASE g_file' # g_file
        BY <1>2, <1>6, <1>7, <4>1
      <4>2. CASE g_file' = g_file
        <5>1. r \in requests
          BY <1>2, <1>5, <1>8, <3>3
        <5> QED
          BY <1>1, <3>3, <4>2, <5>1 DEF FInv, Placed
      <4> QED
        BY <4>1, <4>2
    <3> QED
      BY <1>5, <1>7, <3>2, <3>3
  <2> QED
    BY <1>1, <2>1 DEF Placed
<1>11. \A d \in Days : \A l \in LinesOf : Filed(d, l) => Filed(d, l)'
  <2>1. SUFFICES ASSUME NEW d \in Days, NEW l \in LinesOf, Filed(d, l)
                 PROVE  Filed(d, l)'
    OBVIOUS
  <2>2. l.day \in Nat /\ d \in Int
    BY DayIs DEF Days
  <2>3. ASSUME NEW e \in (d + 1)..l.day, NEW p \in 0..MaxRestarts, <<e, 0, p>> = new
        PROVE  FALSE
    <3>1. e = day /\ IndexOf(now) = 0
      BY <2>3
    <3>2. l.day = day /\ d < l.day
      BY <1>2, <2>1, <2>2, <3>1 DEF Filed
    <3> QED
      BY <2>1, <3>1, <3>2 DEF Filed
  <2>4. FiledAs(d, l)'
    BY <1>1, <2>1, <2>3 DEF Filed, FiledAs
  <2> QED
    BY <1>1, <2>1, <2>4 DEF Filed
<1>12. /\ \A a \in appends : a.file \in Days /\ a.line \in LinesOf /\ Filed(a.file, a.line)
       /\ \A d \in Days : \A i \in DOMAIN files[d] :
            files[d][i] \in LinesOf /\ Filed(d, files[d][i])
  <2>1. \A d \in Days : files[d] \in Seq(LinesOf)
    BY DEF FInv
  <2> QED
    BY <2>1 DEF FInv
<1> QED
  BY <1>1, <1>5, <1>8, <1>9, <1>10, <1>11, <1>12, SMTT(20) DEF FInv

\* The timer resets its flag.
LEMMA IdleFInv ==
  ASSUME FInv, QueryNodesIdle
  PROVE  FInv'
<1>1. /\ ~Second59(now) /\ g_is_queried' = FALSE
      /\ UNCHANGED <<now, restarts, g_file, asked, requests, appends, files>>
  BY DEF QueryNodesIdle
<1>2. AskedThen'
  <2>1. \A e \in asked : \E t \in 0..now, p \in 0..restarts :
          /\ e = <<DayOf(t), IndexOf(t), p>> /\ Second59(t)
          /\ t = now /\ p = restarts => g_is_queried'
    BY <1>1 DEF FInv, AskedThen
  <2> QED
    BY <1>1, <2>1 DEF FInv, AskedThen
<1>3. \A r \in requests : Placed(r)' <=> Placed(r)
  BY <1>1 DEF Placed
<1>4. \A d, l : Filed(d, l)' <=> Filed(d, l)
  BY <1>1 DEF Filed, FiledAs
<1> QED
  BY <1>1, <1>2, <1>3, <1>4 DEF FInv

\* The monitor is started again.
LEMMA RestartFInv ==
  ASSUME FInv, Restart
  PROVE  FInv'
<1>1. /\ restarts' = restarts + 1 /\ restarts < MaxRestarts /\ g_file' = DayOf(now)
      /\ requests' = {} /\ appends' = {}
      /\ UNCHANGED <<now, asked, files>>
  BY DEF Restart
<1>2. now \in Nat /\ DayOf(now) \in Nat /\ g_file \in Nat /\ g_file <= DayOf(now)
      /\ restarts \in 0..MaxRestarts
  BY Now DEF FInv
<1>3. AskedThen'
  <2>1. ASSUME NEW e \in asked
        PROVE  /\ \E t \in 0..now, p \in 0..restarts' :
                    /\ e = <<DayOf(t), IndexOf(t), p>> /\ Second59(t)
                    /\ t = now /\ p = restarts' => g_is_queried'
               /\ e[2] = 0 => e[1] <= DayOf(now)
    <3>1. PICK t \in 0..now, p \in 0..restarts : e = <<DayOf(t), IndexOf(t), p>> /\ Second59(t)
      BY DEF FInv, AskedThen
    <3>2. p \in 0..restarts' /\ p # restarts'
      BY <1>1, <1>2
    <3>3. t \in Nat /\ t <= now /\ e[1] = DayOf(t)
      BY <1>2, <3>1
    <3>4. DayOf(t) <= DayOf(now)
      BY <1>2, <3>3, Clock
    <3> QED
      BY <3>1, <3>2, <3>3, <3>4
  <2> QED
    BY <1>1, <2>1 DEF AskedThen
<1>4. \A d, l : Filed(d, l)' <=> Filed(d, l)
  BY <1>1 DEF Filed, FiledAs
<1>5. MaxRestarts \in Nat
  BY MonitorAssumption
<1> QED
  BY <1>1, <1>2, <1>3, <1>4, <1>5 DEF FInv

LEMMA InitFInv == Init => FInv
<1> SUFFICES ASSUME Init PROVE FInv
  OBVIOUS
<1>1. /\ now = 0 /\ restarts = 0 /\ g_file = 0 /\ requests = {} /\ appends = {}
      /\ asked = {} /\ files = [d \in Days |-> << >>]
  BY DEF Init
<1>2. DayOf(0) \in Nat /\ MaxClock \in Nat /\ MaxRestarts \in Nat
  BY Clock, MonitorAssumption
<1>3. files \in [Days -> Seq(LinesOf)] /\ \A d \in Days : DOMAIN files[d] = {}
  BY <1>1
<1> QED
  BY <1>1, <1>2, <1>3 DEF FInv, AskedThen

LEMMA NextFInv == FInv /\ [Next]_vars => FInv'
<1> SUFFICES ASSUME FInv, [Next]_vars PROVE FInv'
  OBVIOUS
<1>1. CASE \E r \in requests : QueryNodeFailed(r) \/ QueryNodeGarbled(r) \/ QueryNodeDone(r)
  BY <1>1, Answering, Zenon DEF QueryNodeFailed, QueryNodeGarbled, QueryNodeDone
<1>2. CASE \E a \in appends : AppendDone(a) \/ AppendFailed(a)
  BY <1>2, Answering DEF AppendDone, AppendFailed
<1>3. CASE \E c \in Sockets : Connection(c) \/ Disconnection(c)
  BY <1>3, Answering DEF Connection, Disconnection
<1>4. CASE UNCHANGED vars
  BY <1>4, Answering DEF vars
<1> QED
  BY <1>1, <1>2, <1>3, <1>4, TickFInv, IdleFInv, QueryNodesFInv, RestartFInv, SMTT(20) DEF Next

\* A line is in the log of its own day, unless the next day's log was open when
\* its answer came, or its own day's was never opened.
THEOREM SpecSampleFiled == Spec => []SampleFiled
<1>1. FInv => SampleFiled
  BY DEF FInv, Filed, SampleFiled
<1> QED
  BY <1>1, InitFInv, NextFInv, PTL DEF Spec

\* One process asks the nodes at most once in a minute.
THEOREM SpecSampledOnce == Spec => SampledOnce
<1> DEFINE Step == requests' \subseteq requests
                   \/ <<DayOf(now), IndexOf(now), restarts>> \notin asked
<1>1. ASSUME FInv, QueryNodes, <<DayOf(now), IndexOf(now), restarts>> \in asked
      PROVE  FALSE
  <2>1. PICK t \in 0..now, p \in 0..restarts :
          /\ <<DayOf(now), IndexOf(now), restarts>> = <<DayOf(t), IndexOf(t), p>> /\ Second59(t)
          /\ t = now /\ p = restarts => g_is_queried
    BY <1>1 DEF FInv, AskedThen
  <2>2. now \in Nat /\ t \in Nat /\ t <= now
    BY <1>1, Now
  <2>3. t \div 2 = now \div 2
    BY <2>1, <2>2, Clock
  <2>4. t % 2 = 1 /\ now % 2 = 1 /\ ~g_is_queried
    BY <1>1, <2>1 DEF QueryNodes, MayQuery, Second59
  <2>5. t = now
    BY <2>2, <2>3, <2>4, SMTT(20)
  <2> QED
    BY <2>1, <2>4, <2>5
<1>2. [Next]_vars => requests' \subseteq requests \/ QueryNodes
  BY Zenon DEF Next, vars, Tick, QueryNodesIdle, QueryNodeFailed, QueryNodeGarbled, QueryNodeDone,
         AppendDone, AppendFailed, Connection, Disconnection, Restart
<1>3. FInv /\ [Next]_vars => [Step]_vars
  BY <1>1, <1>2
<1> QED
  BY <1>3, InitFInv, NextFInv, PTL DEF Spec, SampledOnce
=============================================================================
