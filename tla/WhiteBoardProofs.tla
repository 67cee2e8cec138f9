-------------------------- MODULE WhiteBoardProofs ---------------------------
(***************************************************************************)
(* jSocket and the white board, for any pages, teachers and number of      *)
(* images.  The flag of a jSocket is behind the movie's socket by just the *)
(* news that waits in its timers; and however the streams are cut and      *)
(* whatever becomes of uploads and connections, no page shows an image     *)
(* that the web server has not stored.                                     *)
(***************************************************************************)
EXTENDS WhiteBoard, TLAPS
-----------------------------------------------------------------------------
(* jSocket: the flag and the socket of the movie.                          *)

News == {"connect", "close"}
Setups == {"init", "probe"}

\* No callback with a name of N waits; just one does, and is n; two wait, first
\* of a connection and then of its end.
NoneOf(t, N) == \A i \in 1..Len(t) : t[i].name \notin N
OneOf(t, n, N) ==
  \E i \in 1..Len(t) : t[i].name = n /\ \A j \in 1..Len(t) : t[j].name \in N => j = i
TwoNews(t) ==
  \E i, j \in 1..Len(t) :
    /\ i < j /\ t[i].name = "connect" /\ t[j].name = "close"
    /\ \A k \in 1..Len(t) : t[k].name \in News => k = i \/ k = j

LEMMA Appended ==
  ASSUME NEW R, NEW t \in Seq(R), NEW x \in R
  PROVE  /\ \A N : NoneOf(t, N) /\ x.name \notin N => NoneOf(Append(t, x), N)
         /\ \A N : NoneOf(t, N) /\ x.name \in N => OneOf(Append(t, x), x.name, N)
         /\ \A n, N : OneOf(t, n, N) /\ x.name \notin N => OneOf(Append(t, x), n, N)
         /\ OneOf(t, "connect", News) /\ x.name = "close" => TwoNews(Append(t, x))
         /\ TwoNews(t) /\ x.name \notin News => TwoNews(Append(t, x))
<1> DEFINE u == Append(t, x)
           l == Len(t)
<1>1. l \in Nat /\ Len(u) = l + 1 /\ u[l + 1] = x /\ \A i \in 1..l : u[i] = t[i]
  OBVIOUS
<1>2. \A i \in 1..(l + 1) : i \in 1..l \/ i = l + 1
  BY <1>1
<1>3. l + 1 \in 1..(l + 1) /\ \A i \in 1..l : i \in 1..(l + 1) /\ i < l + 1
  BY <1>1
<1> HIDE DEF u, l
<1>4. /\ \A N : NoneOf(t, N) /\ x.name \notin N => NoneOf(u, N)
      /\ \A N : NoneOf(t, N) /\ x.name \in N => OneOf(u, x.name, N)
      /\ \A n, N : OneOf(t, n, N) /\ x.name \notin N => OneOf(u, n, N)
  <2>1. l = Len(t)
    BY DEF l
  <2> QED
    BY <1>1, <1>2, <1>3, <2>1 DEF NoneOf, OneOf
<1>5. ASSUME OneOf(t, "connect", News), x.name = "close" PROVE TwoNews(u)
  <2>1. PICK i \in 1..l : t[i].name = "connect" /\ \A j \in 1..l : t[j].name \in News => j = i
    BY <1>5 DEF OneOf, l
  <2>2. i \in 1..(l + 1) /\ i < l + 1 /\ u[i].name = "connect" /\ u[l + 1].name = "close"
    BY <1>1, <1>3, <1>5, <2>1
  <2>3. \A k \in 1..(l + 1) : u[k].name \in News => k = i \/ k = l + 1
    BY <1>1, <1>2, <2>1
  <2> QED
    BY <1>1, <1>3, <2>2, <2>3 DEF TwoNews
<1>6. ASSUME TwoNews(t), x.name \notin News PROVE TwoNews(u)
  <2>1. PICK i \in 1..l, j \in 1..l :
          /\ i < j /\ t[i].name = "connect" /\ t[j].name = "close"
          /\ \A k \in 1..l : t[k].name \in News => k = i \/ k = j
    BY <1>6 DEF TwoNews, l
  <2>2. /\ i \in 1..(l + 1) /\ j \in 1..(l + 1)
        /\ u[i].name = "connect" /\ u[j].name = "close"
    BY <1>1, <1>3, <2>1
  <2>3. \A k \in 1..(l + 1) : u[k].name \in News => k = i \/ k = j
    BY <1>1, <1>2, <1>6, <2>1
  <2> QED
    BY <1>1, <2>1, <2>2, <2>3 DEF TwoNews
<1> QED
  BY <1>4, <1>5, <1>6 DEF u

LEMMA Dropped ==
  ASSUME NEW R, NEW t \in Seq(R), t # << >>
  PROVE  /\ \A N : NoneOf(t, N) => NoneOf(Tail(t), N) /\ Head(t).name \notin N
         /\ \A n, N : OneOf(t, n, N) /\ Head(t).name \notin N /\ n \in N => OneOf(Tail(t), n, N)
         /\ \A n, N : OneOf(t, n, N) /\ Head(t).name \in N => NoneOf(Tail(t), N) /\ Head(t).name = n
         /\ TwoNews(t) /\ Head(t).name \notin News => TwoNews(Tail(t))
         /\ TwoNews(t) /\ Head(t).name \in News =>
              Head(t).name = "connect" /\ OneOf(Tail(t), "close", News)
<1> DEFINE u == Tail(t)
           l == Len(t)
<1>1. /\ l \in Nat \ {0} /\ Len(u) = l - 1 /\ Head(t) = t[1]
      /\ \A i \in 1..(l - 1) : u[i] = t[i + 1]
  OBVIOUS
<1>2. \A i \in 1..l : i = 1 \/ (i - 1 \in 1..(l - 1) /\ (i - 1) + 1 = i)
  BY <1>1
<1>3. 1 \in 1..l /\ \A i \in 1..(l - 1) : i + 1 \in 1..l /\ i + 1 # 1 /\ (i + 1) - 1 = i
  BY <1>1
<1> HIDE DEF u, l
<1>4. l = Len(t)
  BY DEF l
<1>5. \A N : NoneOf(t, N) => NoneOf(u, N) /\ Head(t).name \notin N
  BY <1>1, <1>3, <1>4 DEF NoneOf
<1>6. ASSUME NEW n, NEW N, OneOf(t, n, N)
      PROVE  /\ Head(t).name \notin N /\ n \in N => OneOf(u, n, N)
             /\ Head(t).name \in N => NoneOf(u, N) /\ Head(t).name = n
  <2>1. PICK i \in 1..l : t[i].name = n /\ \A j \in 1..l : t[j].name \in N => j = i
    BY <1>4, <1>6 DEF OneOf
  <2>2. ASSUME Head(t).name \in N PROVE NoneOf(u, N) /\ Head(t).name = n
    <3>1. i = 1
      BY <1>1, <1>3, <2>1, <2>2
    <3> QED
      BY <1>1, <1>3, <2>1, <3>1 DEF NoneOf
  <2>3. ASSUME Head(t).name \notin N, n \in N PROVE OneOf(u, n, N)
    <3>1. i # 1
      BY <1>1, <2>1, <2>3
    <3>2. i - 1 \in 1..(l - 1) /\ u[i - 1].name = n
      BY <1>1, <1>2, <2>1, <3>1
    <3>3. \A j \in 1..(l - 1) : u[j].name \in N => j = i - 1
      BY <1>1, <1>3, <2>1
    <3> QED
      BY <1>1, <3>2, <3>3 DEF OneOf
  <2> QED
    BY <2>2, <2>3
<1>7. ASSUME TwoNews(t)
      PROVE  /\ Head(t).name \notin News => TwoNews(u)
             /\ Head(t).name \in News => Head(t).name = "connect" /\ OneOf(u, "close", News)
  <2>1. PICK i \in 1..l, j \in 1..l :
          /\ i < j /\ t[i].name = "connect" /\ t[j].name = "close"
          /\ \A k \in 1..l : t[k].name \in News => k = i \/ k = j
    BY <1>4, <1>7 DEF TwoNews
  <2>2. j # 1 /\ j - 1 \in 1..(l - 1) /\ u[j - 1].name = "close"
    BY <1>1, <1>2, <2>1
  <2>3. \A k \in 1..(l - 1) : u[k].name \in News => k = i - 1 \/ k = j - 1
    BY <1>1, <1>3, <2>1, Zenon
  <2>4. ASSUME Head(t).name \in News PROVE Head(t).name = "connect" /\ OneOf(u, "close", News)
    <3>1. i = 1
      BY <1>1, <1>3, <2>1, <2>2, <2>4
    <3>2. \A k \in 1..(l - 1) : u[k].name \in News => k = j - 1
      BY <2>3, <3>1
    <3> QED
      BY <1>1, <2>1, <2>2, <3>1, <3>2, Zenon DEF OneOf
  <2>5. ASSUME Head(t).name \notin News PROVE TwoNews(u)
    <3>1. i # 1
      BY <1>1, <2>1, <2>5 DEF News
    <3>2. i - 1 \in 1..(l - 1) /\ u[i - 1].name = "connect" /\ i - 1 < j - 1
      BY <1>1, <1>2, <2>1, <3>1
    <3> QED
      BY <1>1, <2>2, <2>3, <3>2 DEF TwoNews
  <2> QED
    BY <2>4, <2>5
<1> QED
  BY <1>5, <1>6, <1>7 DEF u

\* A socket with callbacks of a set R.
SocketOf(R) ==
  [target : BOOLEAN, movie : BOOLEAN, connected : BOOLEAN,
   swf : {"none", "loading", "loaded", "usable"}, flash : {"closed", "connecting", "open"},
   unread : Int, timers : Seq(R)]

\* Before the movie is stored there is at most one callback of its setup, and no
\* connection.  Afterwards there is at most one connection, and what waits is
\* what the flag has still to be told: nothing, that the connection is there,
\* that it has ended, or both, in this order.
FlagInv(s) ==
  \/ /\ ~s.movie /\ ~s.connected /\ s.flash = "closed" /\ NoneOf(s.timers, News)
     /\ ~s.target => s.swf = "none"
     /\ s.swf \in {"none", "loading"} => NoneOf(s.timers, Setups)
     /\ s.swf \in {"loaded", "usable"} => \E n \in Setups : OneOf(s.timers, n, Setups)
  \/ /\ s.movie /\ s.target /\ s.swf = "usable" /\ NoneOf(s.timers, Setups)
     /\ \/ ~s.connected /\ s.flash \in {"connecting", "closed"} /\ NoneOf(s.timers, News)
        \/ s.connected /\ s.flash = "open" /\ NoneOf(s.timers, News)
        \/ ~s.connected /\ s.flash = "open" /\ OneOf(s.timers, "connect", News)
        \/ s.connected /\ s.flash = "closed" /\ OneOf(s.timers, "close", News)
        \/ ~s.connected /\ s.flash = "closed" /\ TwoNews(s.timers)

\* The flag is right when no news waits.
LEMMA FlagInvAgrees ==
  ASSUME NEW R, NEW s \in SocketOf(R), FlagInv(s)
  PROVE  FlagAgrees(s)
<1>1. s.timers \in Seq(R) /\ s.connected \in BOOLEAN
  BY DEF SocketOf
<1>2. DOMAIN s.timers = 1..Len(s.timers)
  BY <1>1
<1>3. SUFFICES ASSUME NoneOf(s.timers, News) PROVE s.connected = (s.flash = "open")
  BY <1>2 DEF FlagAgrees, Waiting, NoneOf, News
<1>4. /\ \A n \in News : ~OneOf(s.timers, n, News)
      /\ ~TwoNews(s.timers)
  BY <1>3 DEF NoneOf, OneOf, TwoNews, News
<1>5. s.connected <=> s.flash = "open"
  BY <1>4 DEF FlagInv, News
<1> QED
  BY <1>1, <1>5

LEMMA FlagNew ==
  ASSUME NEW R
  PROVE  /\ NewSocket \in SocketOf(R) /\ FlagInv(NewSocket)
         /\ Setup(NewSocket) \in SocketOf(R) /\ FlagInv(Setup(NewSocket))
<1>1. \A N : NoneOf(<< >>, N)
  BY DEF NoneOf
<1>2. << >> \in Seq(R)
  OBVIOUS
<1>3. NewSocket \in SocketOf(R)
  BY <1>2 DEF NewSocket, SocketOf
<1>4. FlagInv(NewSocket) /\ NewSocket.timers = << >> /\ ~NewSocket.movie /\ ~NewSocket.connected
      /\ NewSocket.flash = "closed"
  BY <1>1 DEF NewSocket, FlagInv
<1> DEFINE r == Setup(NewSocket)
<1>5. /\ r \in SocketOf(R) /\ r.timers = << >> /\ ~r.movie /\ ~r.connected
      /\ r.flash = "closed" /\ r.swf = "loading" /\ r.target
  BY <1>3, <1>4, Zenon DEF Setup, SocketOf
<1>6. FlagInv(r)
  BY <1>1, <1>5 DEF FlagInv
<1> QED
  BY <1>3, <1>4, <1>5, <1>6

\* The fields of a socket that gets or loses a callback.
LEMMA CallbackFields ==
  ASSUME NEW R, NEW s \in SocketOf(R), NEW name, NEW data, Callback(name, data) \in R
  PROVE  LET r == FlashCallback(s, name, data)
         IN  /\ r \in SocketOf(R) /\ r.timers = Append(s.timers, Callback(name, data))
             /\ r.target = s.target /\ r.movie = s.movie /\ r.connected = s.connected
             /\ r.swf = s.swf /\ r.flash = s.flash /\ r.unread = s.unread
<1>1. s.timers \in Seq(R)
  BY DEF SocketOf
<1>2. Append(s.timers, Callback(name, data)) \in Seq(R)
  BY <1>1
<1> QED
  BY <1>2 DEF FlashCallback, SocketOf

LEMMA CallbackAll ==
  ASSUME NEW R, NEW name, Callback(name, NoData) \in R
  PROVE  \A s \in SocketOf(R) :
           LET r == FlashCallback(s, name, NoData)
           IN  /\ r \in SocketOf(R) /\ r.timers = Append(s.timers, Callback(name, NoData))
               /\ r.target = s.target /\ r.movie = s.movie /\ r.connected = s.connected
               /\ r.swf = s.swf /\ r.flash = s.flash
BY CallbackFields

LEMMA PoppedFields ==
  ASSUME NEW R, NEW s \in SocketOf(R), s.timers # << >>
  PROVE  LET r == Popped(s)
         IN  /\ r \in SocketOf(R) /\ r.timers = Tail(s.timers)
             /\ r.target = s.target /\ r.movie = s.movie /\ r.connected = s.connected
             /\ r.swf = s.swf /\ r.flash = s.flash /\ r.unread = s.unread
<1>1. s.timers \in Seq(R)
  BY DEF SocketOf
<1>2. Tail(s.timers) \in Seq(R)
  BY <1>1
<1> QED
  BY <1>2, Zenon DEF Popped, SocketOf

\* The page sets the movie up, and the movie loads.
LEMMA FlagLoads ==
  ASSUME NEW R, NEW s \in SocketOf(R), FlagInv(s), Callback("init", NoData) \in R
  PROVE  /\ MaySetup(s) => Setup(s) \in SocketOf(R) /\ FlagInv(Setup(s))
         /\ s.swf = "loading" => MovieLoaded(s) \in SocketOf(R) /\ FlagInv(MovieLoaded(s))
         /\ s.swf = "loaded" => MovieUsable(s) \in SocketOf(R) /\ FlagInv(MovieUsable(s))
<1> DEFINE x == Callback("init", NoData)
           m == [s EXCEPT !.swf = "loaded"]
<1>1. MaySetup(s) => Setup(s) \in SocketOf(R) /\ FlagInv(Setup(s))
  BY Zenon DEF MaySetup, Setup, SocketOf, FlagInv
<1>2. s.swf = "loaded" => MovieUsable(s) \in SocketOf(R) /\ FlagInv(MovieUsable(s))
  BY DEF MovieUsable, SocketOf, FlagInv
<1>3. ASSUME s.swf = "loading" PROVE MovieLoaded(s) \in SocketOf(R) /\ FlagInv(MovieLoaded(s))
  <2>1. m \in SocketOf(R) /\ m.timers = s.timers /\ m.target = s.target /\ m.movie = s.movie
        /\ m.connected = s.connected /\ m.swf = "loaded" /\ m.flash = s.flash
    BY DEF SocketOf
  <2>2. MovieLoaded(s) = FlashCallback(m, "init", NoData)
    BY DEF MovieLoaded
  <2> HIDE DEF m
  <2> DEFINE r == MovieLoaded(s)
  <2>3. /\ r \in SocketOf(R) /\ r.timers = Append(s.timers, x)
        /\ r.target = s.target /\ r.movie = s.movie /\ r.connected = s.connected
        /\ r.swf = "loaded" /\ r.flash = s.flash
    BY <2>1, <2>2, CallbackFields
  <2>4. s.timers \in Seq(R) /\ x.name = "init"
    BY DEF SocketOf, Callback
  <2>5. /\ ~s.movie /\ ~s.connected /\ s.flash = "closed" /\ NoneOf(s.timers, News)
        /\ s.target /\ NoneOf(s.timers, Setups)
    BY <1>3 DEF FlagInv
  <2>6. NoneOf(r.timers, News) /\ OneOf(r.timers, "init", Setups)
    BY <2>3, <2>4, <2>5, Appended DEF News, Setups
  <2> HIDE DEF r
  <2>7. FlagInv(r)
    BY <2>3, <2>5, <2>6 DEF FlagInv, Setups
  <2> QED
    BY <2>3, <2>7 DEF r
<1> QED
  BY <1>1, <1>2, <1>3

\* The movie's socket: what it tells, and what the page does to it.
LEMMA FlagNetwork ==
  ASSUME NEW R, NEW s \in SocketOf(R), FlagInv(s),
         \A name \in {"connect", "error", "close"} : Callback(name, NoData) \in R
  PROVE  /\ s.flash = "connecting" => MovieConnected(s) \in SocketOf(R) /\ FlagInv(MovieConnected(s))
         /\ s.flash = "connecting" => MovieError(s) \in SocketOf(R) /\ FlagInv(MovieError(s))
         /\ s.flash = "open" => MovieClosed(s) \in SocketOf(R) /\ FlagInv(MovieClosed(s))
         /\ MayWrite(s) => Close(s) \in SocketOf(R) /\ FlagInv(Close(s))
<1>0. s.timers \in Seq(R)
  BY DEF SocketOf
<1>1. ASSUME NEW f \in {"open", "closed"}, NEW name \in {"connect", "error", "close"}
      PROVE  LET r == FlashCallback([s EXCEPT !.flash = f], name, NoData)
             IN  /\ r \in SocketOf(R) /\ r.timers = Append(s.timers, Callback(name, NoData))
                 /\ r.target = s.target /\ r.movie = s.movie /\ r.connected = s.connected
                 /\ r.swf = s.swf /\ r.flash = f
  <2> DEFINE m == [s EXCEPT !.flash = f]
  <2>1. m \in SocketOf(R) /\ m.timers = s.timers /\ m.target = s.target /\ m.movie = s.movie
        /\ m.connected = s.connected /\ m.swf = s.swf /\ m.flash = f
    BY DEF SocketOf
  <2> HIDE DEF m
  <2>2. LET r == FlashCallback(m, name, NoData)
        IN  /\ r \in SocketOf(R) /\ r.timers = Append(s.timers, Callback(name, NoData))
            /\ r.target = s.target /\ r.movie = s.movie /\ r.connected = s.connected
            /\ r.swf = s.swf /\ r.flash = f
    <3>1. LET r == FlashCallback(m, name, NoData)
          IN  /\ r \in SocketOf(R) /\ r.timers = Append(m.timers, Callback(name, NoData))
              /\ r.target = m.target /\ r.movie = m.movie /\ r.connected = m.connected
              /\ r.swf = m.swf /\ r.flash = m.flash
      BY <2>1, CallbackAll
    <3> QED
      BY <2>1, <3>1
  <2> QED
    BY <2>2 DEF m
<1>2. /\ Callback("connect", NoData).name = "connect" /\ Callback("error", NoData).name = "error"
      /\ Callback("close", NoData).name = "close"
  BY DEF Callback
<1>3. ASSUME s.flash = "connecting"
      PROVE  MovieConnected(s) \in SocketOf(R) /\ FlagInv(MovieConnected(s))
  <2> DEFINE r == MovieConnected(s)
  <2>1. /\ r \in SocketOf(R) /\ r.timers = Append(s.timers, Callback("connect", NoData))
        /\ r.target = s.target /\ r.movie = s.movie /\ r.connected = s.connected
        /\ r.swf = s.swf /\ r.flash = "open"
    BY <1>1, Zenon DEF MovieConnected
  <2>2. /\ s.movie /\ s.target /\ s.swf = "usable" /\ NoneOf(s.timers, Setups)
        /\ ~s.connected /\ NoneOf(s.timers, News)
    BY <1>3 DEF FlagInv
  <2>3. NoneOf(r.timers, Setups) /\ OneOf(r.timers, "connect", News)
    BY <1>0, <1>2, <2>1, <2>2, Appended DEF News, Setups
  <2> HIDE DEF r
  <2>4. FlagInv(r)
    BY <2>1, <2>2, <2>3 DEF FlagInv
  <2> QED
    BY <2>1, <2>4 DEF r
<1>4. ASSUME s.flash = "connecting"
      PROVE  MovieError(s) \in SocketOf(R) /\ FlagInv(MovieError(s))
  <2> DEFINE r == MovieError(s)
  <2>1. /\ r \in SocketOf(R) /\ r.timers = Append(s.timers, Callback("error", NoData))
        /\ r.target = s.target /\ r.movie = s.movie /\ r.connected = s.connected
        /\ r.swf = s.swf /\ r.flash = "closed"
    BY <1>1, Zenon DEF MovieError
  <2>2. /\ s.movie /\ s.target /\ s.swf = "usable" /\ NoneOf(s.timers, Setups)
        /\ ~s.connected /\ NoneOf(s.timers, News)
    BY <1>4 DEF FlagInv
  <2>3. NoneOf(r.timers, Setups) /\ NoneOf(r.timers, News)
    BY <1>0, <1>2, <2>1, <2>2, Appended DEF News, Setups
  <2> HIDE DEF r
  <2>4. FlagInv(r)
    BY <2>1, <2>2, <2>3 DEF FlagInv
  <2> QED
    BY <2>1, <2>4 DEF r
<1>5. ASSUME s.flash = "open"
      PROVE  MovieClosed(s) \in SocketOf(R) /\ FlagInv(MovieClosed(s))
  <2> DEFINE r == MovieClosed(s)
  <2>1. /\ r \in SocketOf(R) /\ r.timers = Append(s.timers, Callback("close", NoData))
        /\ r.target = s.target /\ r.movie = s.movie /\ r.connected = s.connected
        /\ r.swf = s.swf /\ r.flash = "closed"
    BY <1>1, Zenon DEF MovieClosed
  <2>2. /\ s.movie /\ s.target /\ s.swf = "usable" /\ NoneOf(s.timers, Setups)
        /\ \/ s.connected /\ NoneOf(s.timers, News)
           \/ ~s.connected /\ OneOf(s.timers, "connect", News)
    BY <1>5 DEF FlagInv
  <2>3. /\ NoneOf(r.timers, Setups)
        /\ NoneOf(s.timers, News) => OneOf(r.timers, "close", News)
        /\ OneOf(s.timers, "connect", News) => TwoNews(r.timers)
    BY <1>0, <1>2, <2>1, <2>2, Appended DEF News, Setups
  <2> HIDE DEF r
  <2>4. FlagInv(r)
    BY <2>1, <2>2, <2>3 DEF FlagInv
  <2> QED
    BY <2>1, <2>4 DEF r
<1>6. ASSUME MayWrite(s) PROVE Close(s) \in SocketOf(R) /\ FlagInv(Close(s))
  <2> DEFINE r == Close(s)
  <2>1. /\ r \in SocketOf(R) /\ r.timers = s.timers /\ r.target = s.target /\ r.movie = s.movie
        /\ ~r.connected /\ r.swf = s.swf /\ r.flash = "closed"
    BY Zenon DEF Close, SocketOf
  <2>2. /\ s.movie /\ s.target /\ s.swf = "usable" /\ NoneOf(s.timers, Setups)
        /\ NoneOf(s.timers, News)
    BY <1>6 DEF MayWrite, AssertConnected, FlagInv
  <2> HIDE DEF r
  <2>3. FlagInv(r)
    BY <2>1, <2>2 DEF FlagInv
  <2> QED
    BY <2>1, <2>3 DEF r
<1> QED
  BY <1>3, <1>4, <1>5, <1>6

\* Data that arrives, and data that is read, does not concern the flag.
LEMMA FlagData ==
  ASSUME NEW R, NEW s \in SocketOf(R), FlagInv(s)
  PROVE  /\ \A data : Callback("data", data) \in R =>
              FlashCallback(s, "data", data) \in SocketOf(R) /\ FlagInv(FlashCallback(s, "data", data))
         /\ \A n \in Int : [s EXCEPT !.unread = n] \in SocketOf(R) /\ FlagInv([s EXCEPT !.unread = n])
<1>1. ASSUME NEW data, Callback("data", data) \in R
      PROVE  FlashCallback(s, "data", data) \in SocketOf(R) /\ FlagInv(FlashCallback(s, "data", data))
  <2> DEFINE r == FlashCallback(s, "data", data)
             x == Callback("data", data)
  <2>1. /\ r \in SocketOf(R) /\ r.timers = Append(s.timers, x)
        /\ r.target = s.target /\ r.movie = s.movie /\ r.connected = s.connected
        /\ r.swf = s.swf /\ r.flash = s.flash
    BY <1>1, CallbackFields
  <2>2. x.name = "data" /\ s.timers \in Seq(R)
    BY DEF Callback, SocketOf
  <2>3. /\ \A N \in {News, Setups} : NoneOf(s.timers, N) => NoneOf(r.timers, N)
        /\ \A n, N : N \in {News, Setups} /\ OneOf(s.timers, n, N) => OneOf(r.timers, n, N)
        /\ TwoNews(s.timers) => TwoNews(r.timers)
    <3>1. x.name \notin News /\ x.name \notin Setups
      BY <2>2 DEF News, Setups
    <3>2. /\ \A N : NoneOf(s.timers, N) /\ x.name \notin N => NoneOf(Append(s.timers, x), N)
          /\ \A n, N : OneOf(s.timers, n, N) /\ x.name \notin N => OneOf(Append(s.timers, x), n, N)
          /\ TwoNews(s.timers) /\ x.name \notin News => TwoNews(Append(s.timers, x))
      BY <1>1, <2>2, Appended
    <3> QED
      BY <2>1, <3>1, <3>2, Zenon
  <2> HIDE DEF r
  <2>4. FlagInv(r)
    BY <2>1, <2>3 DEF FlagInv
  <2> QED
    BY <2>1, <2>4 DEF r
<1>2. ASSUME NEW n \in Int
      PROVE  [s EXCEPT !.unread = n] \in SocketOf(R) /\ FlagInv([s EXCEPT !.unread = n])
  <2> DEFINE r == [s EXCEPT !.unread = n]
  <2>1. /\ r \in SocketOf(R) /\ r.timers = s.timers
        /\ r.target = s.target /\ r.movie = s.movie /\ r.connected = s.connected
        /\ r.swf = s.swf /\ r.flash = s.flash
    BY DEF SocketOf
  <2> HIDE DEF r
  <2>2. FlagInv(r)
    BY <2>1 DEF FlagInv
  <2> QED
    BY <2>1, <2>2 DEF r
<1> QED
  BY <1>1, <1>2

\* The callbacks are executed.
LEMMA FlagExecuted ==
  ASSUME NEW R, NEW s \in SocketOf(R), FlagInv(s), Callback("probe", NoData) \in R
  PROVE  /\ Fires(s, "init") => ExecInit(s) \in SocketOf(R) /\ FlagInv(ExecInit(s))
         /\ Fires(s, "probe") => ProbeAgain(s) \in SocketOf(R) /\ FlagInv(ProbeAgain(s))
         /\ Fires(s, "probe") /\ s.swf = "usable" =>
              Connect(ProbeDone(s)) \in SocketOf(R) /\ FlagInv(Connect(ProbeDone(s)))
         /\ Fires(s, "connect") => ExecConnect(s) \in SocketOf(R) /\ FlagInv(ExecConnect(s))
         /\ Fires(s, "close") => ExecClose(s) \in SocketOf(R) /\ FlagInv(ExecClose(s))
         /\ Fires(s, "error") \/ Fires(s, "data") => Popped(s) \in SocketOf(R) /\ FlagInv(Popped(s))
<1>0. \A u \in SocketOf(R) :
        LET r == FlashCallback(u, "probe", NoData)
        IN  /\ r \in SocketOf(R) /\ r.timers = Append(u.timers, Callback("probe", NoData))
            /\ r.target = u.target /\ r.movie = u.movie /\ r.connected = u.connected
            /\ r.swf = u.swf /\ r.flash = u.flash
  BY CallbackAll
<1> SUFFICES ASSUME s.timers # << >>
             PROVE  /\ First(s).name \in Setups =>
                         LET r == FlashCallback(Popped(s), "probe", NoData)
                         IN  r \in SocketOf(R) /\ FlagInv(r)
                    /\ First(s).name = "probe" /\ s.swf = "usable" =>
                         Connect(ProbeDone(s)) \in SocketOf(R) /\ FlagInv(Connect(ProbeDone(s)))
                    /\ First(s).name = "connect" => ExecConnect(s) \in SocketOf(R) /\ FlagInv(ExecConnect(s))
                    /\ First(s).name = "close" => ExecClose(s) \in SocketOf(R) /\ FlagInv(ExecClose(s))
                    /\ First(s).name \in {"error", "data"} => Popped(s) \in SocketOf(R) /\ FlagInv(Popped(s))
  BY DEF Fires, ExecInit, ProbeAgain, Setups
<1> DEFINE t == s.timers
           x == Callback("probe", NoData)
           p == Popped(s)
<1>1. t \in Seq(R) /\ First(s) = Head(t)
  BY DEF SocketOf, First
<1>2. /\ p \in SocketOf(R) /\ p.timers = Tail(t)
      /\ p.target = s.target /\ p.movie = s.movie /\ p.connected = s.connected
      /\ p.swf = s.swf /\ p.flash = s.flash
  BY PoppedFields
<1>3. /\ \A N : NoneOf(t, N) => NoneOf(Tail(t), N) /\ Head(t).name \notin N
      /\ \A n, N : OneOf(t, n, N) /\ Head(t).name \notin N /\ n \in N => OneOf(Tail(t), n, N)
      /\ \A n, N : OneOf(t, n, N) /\ Head(t).name \in N => NoneOf(Tail(t), N) /\ Head(t).name = n
      /\ TwoNews(t) /\ Head(t).name \notin News => TwoNews(Tail(t))
      /\ TwoNews(t) /\ Head(t).name \in News =>
           Head(t).name = "connect" /\ OneOf(Tail(t), "close", News)
  BY <1>1, Dropped
<1> HIDE DEF p, t
<1>4. ASSUME First(s).name \in Setups
      PROVE  /\ ~s.movie /\ ~s.connected /\ s.flash = "closed" /\ NoneOf(Tail(t), News) /\ s.target
             /\ s.swf \in {"loaded", "usable"} /\ NoneOf(Tail(t), Setups)
  <2>1. ~NoneOf(t, Setups)
    BY <1>1, <1>3, <1>4
  <2>2. /\ ~s.movie /\ ~s.connected /\ s.flash = "closed" /\ NoneOf(t, News)
        /\ ~s.target => s.swf = "none"
        /\ s.swf \notin {"none", "loading"}
        /\ s.swf \in {"loaded", "usable"} => \E n \in Setups : OneOf(t, n, Setups)
    BY <2>1 DEF FlagInv, t
  <2>3. s.swf \in {"loaded", "usable"}
    BY <2>2 DEF SocketOf
  <2> QED
    BY <1>1, <1>3, <1>4, <2>2, <2>3
<1>5. ASSUME First(s).name \in Setups
      PROVE  LET r == FlashCallback(p, "probe", NoData)
             IN  r \in SocketOf(R) /\ FlagInv(r)
  <2> DEFINE r == FlashCallback(p, "probe", NoData)
  <2>1. /\ r \in SocketOf(R) /\ r.timers = Append(Tail(t), x)
        /\ r.target = s.target /\ r.movie = s.movie /\ r.connected = s.connected
        /\ r.swf = s.swf /\ r.flash = s.flash
    <3>1. /\ r \in SocketOf(R) /\ r.timers = Append(p.timers, x)
          /\ r.target = p.target /\ r.movie = p.movie /\ r.connected = p.connected
          /\ r.swf = p.swf /\ r.flash = p.flash
      BY <1>0, <1>2, Zenon
    <3> HIDE DEF r
    <3> QED
      BY <1>2, <3>1
  <2>2. x.name = "probe" /\ Tail(t) \in Seq(R)
    BY <1>2, Zenon DEF Callback, SocketOf
  <2>3. NoneOf(r.timers, News) /\ OneOf(r.timers, "probe", Setups)
    <3>1. x.name \notin News /\ x.name \in Setups /\ x \in R
      BY <2>2 DEF News, Setups
    <3> QED
      BY <1>4, <1>5, <2>1, <2>2, <3>1, Appended, Zenon
  <2> HIDE DEF r
  <2>4. FlagInv(r)
    BY <1>4, <1>5, <2>1, <2>3 DEF FlagInv, Setups
  <2> QED
    BY <2>1, <2>4 DEF r
<1>6. ASSUME First(s).name = "probe", s.swf = "usable"
      PROVE  Connect(ProbeDone(s)) \in SocketOf(R) /\ FlagInv(Connect(ProbeDone(s)))
  <2> DEFINE r == Connect(ProbeDone(s))
  <2>1. /\ r \in SocketOf(R) /\ r.timers = Tail(t)
        /\ r.target = s.target /\ r.movie /\ r.connected = s.connected
        /\ r.swf = s.swf /\ r.flash = "connecting"
    <3>1. r = [[p EXCEPT !.movie = TRUE] EXCEPT !.flash = "connecting"]
      BY DEF Connect, ProbeDone, p
    <3> QED
      BY <1>2, <3>1, Zenon DEF SocketOf
  <2> HIDE DEF r
  <2>2. FlagInv(r)
    BY <1>4, <1>6, <2>1 DEF FlagInv, Setups
  <2> QED
    BY <2>1, <2>2 DEF r
<1>7. ASSUME First(s).name \notin Setups
      PROVE  /\ ~s.movie => FlagInv(p)
             /\ s.movie => s.target /\ s.swf = "usable" /\ NoneOf(Tail(t), Setups)
             /\ First(s).name \in News => s.movie
  <2>1. NoneOf(t, News) => First(s).name \notin News /\ NoneOf(Tail(t), News)
    BY <1>1, <1>3
  <2>2. NoneOf(t, Setups) => NoneOf(Tail(t), Setups)
    BY <1>3
  <2>3. \A n \in Setups : OneOf(t, n, Setups) => OneOf(Tail(t), n, Setups)
    BY <1>1, <1>3, <1>7
  <2> QED
    BY <1>2, <2>1, <2>2, <2>3 DEF FlagInv, t
<1>8. ASSUME First(s).name = "connect"
      PROVE  ExecConnect(s) \in SocketOf(R) /\ FlagInv(ExecConnect(s))
  <2> DEFINE r == ExecConnect(s)
  <2>1. /\ r \in SocketOf(R) /\ r.timers = Tail(t)
        /\ r.target = s.target /\ r.movie = s.movie /\ r.connected
        /\ r.swf = s.swf /\ r.flash = s.flash
    <3>1. r = [p EXCEPT !.connected = TRUE]
      BY DEF ExecConnect, p
    <3> QED
      BY <1>2, <3>1, Zenon DEF SocketOf
  <2>2. s.movie /\ s.target /\ s.swf = "usable" /\ NoneOf(Tail(t), Setups)
    BY <1>7, <1>8 DEF Setups, News
  <2>3. ~NoneOf(t, News) /\ ~OneOf(t, "close", News)
    BY <1>1, <1>3, <1>8 DEF News
  <2>4. \/ s.flash = "open" /\ OneOf(t, "connect", News)
        \/ s.flash = "closed" /\ TwoNews(t)
    BY <2>2, <2>3 DEF FlagInv, t
  <2>5. \/ s.flash = "open" /\ NoneOf(Tail(t), News)
        \/ s.flash = "closed" /\ OneOf(Tail(t), "close", News)
    BY <1>1, <1>3, <1>8, <2>4 DEF News
  <2> HIDE DEF r
  <2>6. FlagInv(r)
    BY <2>1, <2>2, <2>5 DEF FlagInv
  <2> QED
    BY <2>1, <2>6 DEF r
<1>9. ASSUME First(s).name = "close"
      PROVE  ExecClose(s) \in SocketOf(R) /\ FlagInv(ExecClose(s))
  <2> DEFINE r == ExecClose(s)
  <2>1. /\ r \in SocketOf(R) /\ r.timers = Tail(t)
        /\ r.target = s.target /\ r.movie = s.movie /\ ~r.connected
        /\ r.swf = s.swf /\ r.flash = s.flash
    <3>1. r = [p EXCEPT !.connected = FALSE]
      BY DEF ExecClose, p
    <3> QED
      BY <1>2, <3>1, Zenon DEF SocketOf
  <2>2. s.movie /\ s.target /\ s.swf = "usable" /\ NoneOf(Tail(t), Setups)
    BY <1>7, <1>9 DEF Setups, News
  <2>3. ~NoneOf(t, News) /\ ~OneOf(t, "connect", News) /\ ~TwoNews(t)
    BY <1>1, <1>3, <1>9 DEF News
  <2>4. s.flash = "closed" /\ OneOf(t, "close", News)
    BY <2>2, <2>3 DEF FlagInv, t
  <2>5. NoneOf(Tail(t), News)
    BY <1>1, <1>3, <1>9, <2>4 DEF News
  <2> HIDE DEF r
  <2>6. FlagInv(r)
    BY <2>1, <2>2, <2>4, <2>5 DEF FlagInv
  <2> QED
    BY <2>1, <2>6 DEF r
<1>10. ASSUME First(s).name \in {"error", "data"}
       PROVE  p \in SocketOf(R) /\ FlagInv(p)
  <2>1. First(s).name \notin Setups /\ First(s).name \notin News
    BY <1>10 DEF Setups, News
  <2>2. /\ NoneOf(t, News) => NoneOf(Tail(t), News)
        /\ \A n \in News : OneOf(t, n, News) => OneOf(Tail(t), n, News)
        /\ TwoNews(t) => TwoNews(Tail(t))
    BY <1>1, <1>3, <2>1
  <2>3. CASE s.movie
    BY <1>2, <1>7, <2>1, <2>2, <2>3 DEF FlagInv, t, News
  <2> QED
    BY <1>2, <1>7, <2>1, <2>3
<1> QED
  BY <1>5, <1>6, <1>8, <1>9, <1>10 DEF p

-----------------------------------------------------------------------------
(* The white board.                                                        *)

WbSpec == WbInit /\ [][WbNext]_wbVars

-----------------------------------------------------------------------------
(* What is on its way to a page names stored images only.                  *)

Safe(S, d) == \A i \in 1..Len(d) : d[i] \in Images => d[i] \in S

Chunks(S) == {d \in Seq(Items) : Safe(S, d)}

Callbacks == {"init", "probe", "connect", "error", "close", "data"}

\* Data that has arrived is never nothing.
Timer(S) == {t \in [name : Callbacks, data : Chunks(S)] : t.name = "data" => t.data # << >>}

Socket(S) ==
  [target : BOOLEAN, movie : BOOLEAN, connected : BOOLEAN,
   swf : {"none", "loading", "loaded", "usable"}, flash : {"closed", "connecting", "open"},
   unread : Nat, timers : Seq(Timer(S))]

\* A chunk is safe whatever is cut from it, and put together from safe ones.
LEMMA Cut ==
  ASSUME NEW S, NEW d \in Chunks(S), NEW a \in 1..(Len(d) + 1), NEW b \in 0..Len(d), a <= b + 1
  PROVE  SubSeq(d, a, b) \in Chunks(S)
<1>1. d \in Seq(Items) /\ Len(d) \in Nat
  BY DEF Chunks
<1>2. SubSeq(d, a, b) \in Seq(Items) /\ Len(SubSeq(d, a, b)) = b - a + 1
  BY <1>1
<1>3. \A i \in 1..(b - a + 1) : SubSeq(d, a, b)[i] = d[a + i - 1] /\ a + i - 1 \in 1..Len(d)
  BY <1>1
<1> QED
  BY <1>1, <1>2, <1>3, Zenon DEF Chunks, Safe

LEMMA Longer ==
  ASSUME NEW S, NEW d \in Chunks(S), NEW x \in Items, x \in Images => x \in S
  PROVE  Append(d, x) \in Chunks(S)
<1>1. d \in Seq(Items) /\ Len(d) \in Nat
  BY DEF Chunks
<1>2. Append(d, x) \in Seq(Items) /\ Len(Append(d, x)) = Len(d) + 1
      /\ Append(d, x)[Len(d) + 1] = x /\ \A i \in 1..Len(d) : Append(d, x)[i] = d[i]
  BY <1>1
<1>3. \A i \in 1..(Len(d) + 1) : i \in 1..Len(d) \/ i = Len(d) + 1
  BY <1>1
<1> QED
  BY <1>2, <1>3, Zenon DEF Chunks, Safe

LEMMA Blank ==
  ASSUME NEW S
  PROVE  << >> \in Chunks(S) /\ NoData \in Chunks(S)
BY DEF Chunks, Safe, NoData

LEMMA Joined ==
  ASSUME NEW S, NEW d \in Chunks(S), NEW x \in Items, x \in Images => x \in S
  PROVE  <<x>> \o d \in Chunks(S)
<1>1. d \in Seq(Items) /\ Len(d) \in Nat /\ <<x>> \in Seq(Items) /\ Len(<<x>>) = 1
  BY DEF Chunks
<1>2. <<x>> \o d \in Seq(Items) /\ Len(<<x>> \o d) = Len(d) + 1
      /\ (<<x>> \o d)[1] = x /\ \A i \in 2..(Len(d) + 1) : (<<x>> \o d)[i] = d[i - 1]
  BY <1>1
<1>3. \A i \in 1..(Len(d) + 1) : i = 1 \/ (i \in 2..(Len(d) + 1) /\ i - 1 \in 1..Len(d))
  BY <1>1
<1> QED
  BY <1>2, <1>3, Zenon DEF Chunks, Safe

\* What is safe stays safe when more is stored.
LEMMA MoreStored ==
  ASSUME NEW S, NEW T, S \subseteq T
  PROVE  Chunks(S) \subseteq Chunks(T) /\ Socket(S) \subseteq Socket(T)
<1>1. Chunks(S) \subseteq Chunks(T)
  BY DEF Chunks, Safe
<1>2. Timer(S) \subseteq Timer(T)
  BY <1>1 DEF Timer
<1>3. Seq(Timer(S)) \subseteq Seq(Timer(T))
  BY <1>2
<1> QED
  BY <1>1, <1>3 DEF Socket

-----------------------------------------------------------------------------
(* The operators of jSocket.                                               *)

LEMMA Called ==
  ASSUME NEW S, NEW s \in Socket(S), NEW name \in Callbacks, NEW data \in Chunks(S),
         name = "data" => data # << >>
  PROVE  FlashCallback(s, name, data) \in Socket(S)
<1> DEFINE R == Timer(S)
<1>1. Callback(name, data) \in R
  BY DEF Callback, Timer
<1>2. s.timers \in Seq(R)
  BY DEF Socket
<1> HIDE DEF R
<1>3. Append(s.timers, Callback(name, data)) \in Seq(R)
  BY <1>1, <1>2
<1> USE DEF R
<1> QED
  BY <1>3 DEF FlashCallback, Socket

LEMMA Ran ==
  ASSUME NEW S, NEW s \in Socket(S), s.timers # << >>
  PROVE  /\ Popped(s) \in Socket(S) /\ First(s).data \in Chunks(S)
         /\ First(s).name = "data" => First(s).data # << >>
<1> DEFINE R == Timer(S)
<1>1. s.timers \in Seq(R)
  BY DEF Socket
<1> HIDE DEF R
<1>2. Tail(s.timers) \in Seq(R) /\ Head(s.timers) \in R
  BY <1>1
<1> USE DEF R
<1>3. /\ Head(s.timers).data \in Chunks(S)
      /\ Head(s.timers).name = "data" => Head(s.timers).data # << >>
  BY <1>2 DEF Timer
<1> QED
  BY <1>2, <1>3, Zenon DEF Popped, First, Socket

\* A callback without data.
LEMMA CalledBlank ==
  ASSUME NEW S
  PROVE  \A s \in Socket(S) : \A name \in {"init", "probe", "connect", "error", "close"} :
           FlashCallback(s, name, NoData) \in Socket(S)
<1>1. \A name \in {"init", "probe", "connect", "error", "close"} : name \in Callbacks /\ name # "data"
  BY DEF Callbacks
<1> QED
  BY <1>1, Called, Blank

\* What the page and the movie do to a socket.
LEMMA Steps ==
  ASSUME NEW S, NEW s \in Socket(S)
  PROVE  /\ Setup(s) \in Socket(S)
         /\ MovieLoaded(s) \in Socket(S) /\ MovieUsable(s) \in Socket(S)
         /\ MovieConnected(s) \in Socket(S) /\ MovieError(s) \in Socket(S)
         /\ MovieClosed(s) \in Socket(S)
         /\ \A d \in Chunks(S) : d # << >> => MovieData(s, d) \in Socket(S)
<1>1. \A d \in Chunks(S) : d # << >> => FlashCallback(s, "data", d) \in Socket(S)
  <2>1. "data" \in Callbacks
    BY DEF Callbacks
  <2> QED
    BY <2>1, Called
<1>2. /\ [s EXCEPT !.swf = "loaded"] \in Socket(S) /\ [s EXCEPT !.swf = "usable"] \in Socket(S)
      /\ [s EXCEPT !.flash = "open"] \in Socket(S) /\ [s EXCEPT !.flash = "closed"] \in Socket(S)
      /\ [s EXCEPT !.target = TRUE, !.swf = "loading"] \in Socket(S)
  BY Zenon DEF Socket
<1>3. /\ FlashCallback([s EXCEPT !.swf = "loaded"], "init", NoData) \in Socket(S)
      /\ FlashCallback([s EXCEPT !.flash = "open"], "connect", NoData) \in Socket(S)
      /\ FlashCallback([s EXCEPT !.flash = "closed"], "error", NoData) \in Socket(S)
      /\ FlashCallback([s EXCEPT !.flash = "closed"], "close", NoData) \in Socket(S)
  BY <1>2, CalledBlank
<1> QED
  BY <1>1, <1>2, <1>3 DEF Setup, MovieLoaded, MovieUsable, MovieConnected, MovieError,
                            MovieClosed, MovieData

\* What the execution of a callback does to it.
LEMMA Executed ==
  ASSUME NEW S, NEW s \in Socket(S), s.timers # << >>
  PROVE  /\ ExecInit(s) \in Socket(S) /\ ProbeAgain(s) \in Socket(S)
         /\ Connect(ProbeDone(s)) \in Socket(S)
         /\ ExecConnect(s) \in Socket(S) /\ ExecClose(s) \in Socket(S)
<1> DEFINE q == Popped(s)
<1>1. q \in Socket(S)
  BY Ran
<1> HIDE DEF q
<1>2. FlashCallback(q, "probe", NoData) \in Socket(S)
  BY <1>1, CalledBlank
<1>3. /\ [q EXCEPT !.connected = TRUE] \in Socket(S)
      /\ [q EXCEPT !.connected = FALSE] \in Socket(S)
      /\ [q EXCEPT !.movie = TRUE] \in Socket(S)
  BY <1>1, Zenon DEF Socket
<1>4. [[q EXCEPT !.movie = TRUE] EXCEPT !.flash = "connecting"] \in Socket(S)
  BY <1>3, Zenon DEF Socket
<1> USE DEF q
<1> QED
  BY <1>2, <1>3, <1>4, Zenon DEF ExecInit, ProbeAgain, ProbeDone, Connect, ExecConnect, ExecClose

-----------------------------------------------------------------------------
(* The invariant.                                                          *)

WInv ==
  /\ js \in [Pages -> Socket(stored)]
  /\ stream \in [Pages -> Chunks(stored)]
  /\ uploads \subseteq Uploads /\ strokes \in Nat
  /\ \A u \in uploads : u.state = "written" => u.image \in stored
  /\ board \in [Pages -> stored \cup {NoImage}]

LEMMA InitWInv == WbInit => WInv
<1> SUFFICES ASSUME WbInit PROVE WInv
  OBVIOUS
<1> DEFINE R == Timer(stored)
<1> HIDE DEF R
<1>1. << >> \in Seq(R)
  OBVIOUS
<1> USE DEF R
<1>2. NewSocket \in Socket(stored)
  BY <1>1 DEF NewSocket, Socket
<1> QED
  BY <1>2, Blank DEF WbInit, WInv

\* A step of one socket that stores nothing.
LEMMA SocketStep ==
  ASSUME WInv, NEW p \in Pages, NEW s \in Socket(stored), Becomes(p, s), UNCHANGED stored,
         stream' \in [Pages -> Chunks(stored)], board' \in [Pages -> stored \cup {NoImage}],
         UNCHANGED <<strokes, uploads>>
  PROVE  WInv'
<1>1. js' \in [Pages -> Socket(stored)]
  BY DEF WInv, Becomes
<1> QED
  BY <1>1 DEF WInv

LEMMA TimersWInv ==
  ASSUME WInv, NEW p \in Pages, Timers(p)
  PROVE  WInv'
<1>1. js[p] \in Socket(stored) /\ stream \in [Pages -> Chunks(stored)]
      /\ board \in [Pages -> stored \cup {NoImage}]
  BY DEF WInv
<1>2. CASE OnInit(p)
  <2>1. ExecInit(js[p]) \in Socket(stored)
    BY <1>1, <1>2, Executed DEF OnInit, Fires
  <2> QED
    BY <1>1, <1>2, <2>1, SocketStep DEF OnInit, OnlySocket
<1>3. CASE OnProbe(p)
  <2> DEFINE s == IF js[p].swf = "usable" THEN Connect(ProbeDone(js[p])) ELSE ProbeAgain(js[p])
  <2>1. s \in Socket(stored)
    BY <1>1, <1>3, Executed DEF OnProbe, Fires
  <2>2. Becomes(p, s) /\ OnlySocket
    BY <1>3 DEF OnProbe
  <2> HIDE DEF s
  <2> QED
    BY <1>1, <2>1, <2>2, SocketStep DEF OnlySocket
<1>4. CASE OnConnect(p)
  <2>1. ExecConnect(js[p]) \in Socket(stored)
    BY <1>1, <1>4, Executed DEF OnConnect, Fires
  <2>2. \A x \in {HttpOk, HttpError} : Append(stream[p], x) \in Chunks(stored)
    <3>1. HttpOk \in Items /\ HttpError \in Items /\ HttpOk \notin Images /\ HttpError \notin Images
      BY WhiteBoardAssumption DEF Items, Images, HttpOk, HttpError
    <3> QED
      BY <1>1, <3>1, Longer
  <2>3. stream' \in [Pages -> Chunks(stored)]
    BY <1>1, <1>4, <2>2, Zenon DEF OnConnect
  <2> QED
    BY <1>1, <1>4, <2>1, <2>3, SocketStep DEF OnConnect
<1>5. CASE OnErrorOrClose(p)
  <2>1. js[p].timers # << >>
    BY <1>5 DEF OnErrorOrClose, Fires
  <2>2. Popped(js[p]) \in Socket(stored) /\ ExecClose(js[p]) \in Socket(stored)
    BY <1>1, <2>1, Executed, Ran
  <2> QED
    BY <1>1, <1>5, <2>2, SocketStep DEF OnErrorOrClose, OnlySocket
<1>6. CASE OnData(p)
  <2> DEFINE chunk == First(js[p]).data
  <2>1. Popped(js[p]) \in Socket(stored) /\ chunk \in Chunks(stored) /\ chunk # << >>
    BY <1>1, <1>6, Ran DEF OnData, Fires
  <2>2. FirstImage(chunk) # NoImage => FirstImage(chunk) \in stored
    <3> SUFFICES ASSUME FirstImage(chunk) # NoImage PROVE FirstImage(chunk) \in stored
      OBVIOUS
    <3>1. FirstImage(chunk) = Head(chunk) /\ Head(chunk) \in Images
      BY DEF FirstImage
    <3>2. chunk \in Seq(Items) /\ Safe(stored, chunk)
      BY <2>1 DEF Chunks
    <3>3. Head(chunk) = chunk[1] /\ 1 \in 1..Len(chunk)
      BY <2>1, <3>2
    <3> QED
      BY <3>1, <3>2, <3>3 DEF Safe
  <2>3. board' \in [Pages -> stored \cup {NoImage}]
    BY <1>1, <1>6, <2>2 DEF OnData
  <2>4. Becomes(p, Popped(js[p])) /\ UNCHANGED <<strokes, uploads, stored, stream>>
    BY <1>6 DEF OnData
  <2> QED
    BY <1>1, <2>1, <2>3, <2>4, SocketStep
<1> QED
  BY <1>2, <1>3, <1>4, <1>5, <1>6 DEF Timers

LEMMA NetWInv ==
  ASSUME WInv, NEW p \in Pages,
         PageReady(p) \/ MovieSteps(p) \/ NetConnect(p) \/ NetClose(p)
  PROVE  WInv'
<1>1. js[p] \in Socket(stored) /\ stream \in [Pages -> Chunks(stored)]
      /\ board \in [Pages -> stored \cup {NoImage}]
  BY DEF WInv
<1>2. /\ Setup(js[p]) \in Socket(stored)
      /\ MovieLoaded(js[p]) \in Socket(stored) /\ MovieUsable(js[p]) \in Socket(stored)
      /\ MovieConnected(js[p]) \in Socket(stored) /\ MovieError(js[p]) \in Socket(stored)
      /\ MovieClosed(js[p]) \in Socket(stored)
  BY <1>1, Steps
<1>3. CASE PageReady(p)
  BY <1>1, <1>2, <1>3, SocketStep DEF PageReady, OnlySocket
<1>4. CASE MovieSteps(p)
  BY <1>1, <1>2, <1>4, SocketStep DEF MovieSteps, OnlySocket
<1>5. CASE NetConnect(p)
  BY <1>1, <1>2, <1>5, SocketStep DEF NetConnect, OnlySocket
<1>6. CASE NetClose(p)
  <2>1. stream' \in [Pages -> Chunks(stored)]
    BY <1>1, <1>6, Blank DEF NetClose
  <2> QED
    BY <1>1, <1>2, <1>6, <2>1, SocketStep DEF NetClose
<1> QED
  BY <1>3, <1>4, <1>5, <1>6

\* However a stream is cut, its pieces are safe.
LEMMA DataWInv ==
  ASSUME WInv, NEW p \in Pages, NEW k \in 1..Len(stream[p]), NetData(p, k)
  PROVE  WInv'
<1>1. js[p] \in Socket(stored) /\ stream \in [Pages -> Chunks(stored)]
      /\ board \in [Pages -> stored \cup {NoImage}]
  BY DEF WInv
<1> DEFINE d == stream[p]
<1>2. d \in Chunks(stored) /\ d \in Seq(Items) /\ Len(d) \in Nat
  BY <1>1 DEF Chunks
<1>3. /\ SubSeq(d, 1, k) \in Chunks(stored) /\ SubSeq(d, 1, k - 1) \in Chunks(stored)
      /\ SubSeq(d, k + 1, Len(d)) \in Chunks(stored)
  BY <1>2, Cut, SMTT(60)
<1>4. Front \in Items /\ Back \in Items /\ Front \notin Images /\ Back \notin Images
  BY WhiteBoardAssumption DEF Items, Images, Front, Back
<1>5. /\ Append(SubSeq(d, 1, k - 1), Front) \in Chunks(stored)
      /\ <<Back>> \o SubSeq(d, k + 1, Len(d)) \in Chunks(stored)
  BY <1>3, <1>4, Longer, Joined
<1>6. SubSeq(d, 1, k) # << >> /\ Append(SubSeq(d, 1, k - 1), Front) # << >>
  <2>1. Len(SubSeq(d, 1, k)) = k
    BY <1>2
  <2>2. SubSeq(d, 1, k - 1) \in Seq(Items) /\ Len(SubSeq(d, 1, k - 1)) \in Nat
    BY <1>3 DEF Chunks
  <2>3. Len(Append(SubSeq(d, 1, k - 1), Front)) = Len(SubSeq(d, 1, k - 1)) + 1
    BY <1>4, <2>2
  <2>4. Len(<< >>) = 0
    OBVIOUS
  <2> QED
    BY <2>1, <2>2, <2>3, <2>4
<1>7. PICK c \in Chunks(stored), r \in Chunks(stored) :
        /\ c # << >> /\ Becomes(p, MovieData(js[p], c))
        /\ stream' = [stream EXCEPT ![p] = r]
  BY <1>3, <1>5, <1>6, Zenon DEF NetData
<1>8. MovieData(js[p], c) \in Socket(stored)
  BY <1>1, <1>7, Steps, Zenon
<1>9. stream' \in [Pages -> Chunks(stored)]
  BY <1>1, <1>7
<1>10. UNCHANGED <<board, strokes, uploads, stored>>
  BY DEF NetData
<1> QED
  BY <1>1, <1>7, <1>8, <1>9, <1>10, SocketStep

LEMMA UpdateWInv ==
  ASSUME WInv, NEW p \in Pages, UpdateBoard(p)
  PROVE  WInv'
<1>1. strokes + 1 \in Images /\ strokes' \in Nat
  BY WhiteBoardAssumption DEF UpdateBoard, WInv, Images
<1>2. /\ uploads' = uploads \cup {[page |-> p, image |-> strokes + 1, state |-> "sent"]}
      /\ UNCHANGED <<js, board, stored, stream>>
  BY DEF UpdateBoard
<1>3. uploads' \subseteq Uploads /\ \A u \in uploads' : u.state = "written" => u.image \in stored
  BY <1>1, <1>2 DEF WInv, Uploads
<1> QED
  BY <1>1, <1>2, <1>3 DEF WInv

\* An image is announced when it is stored, and stays stored.
LEMMA UploadWInv ==
  ASSUME WInv, NEW u \in uploads, UploadImage(u) \/ UploadLost(u) \/ UploadAnswered(u)
  PROVE  WInv'
<1>1. u \in Uploads /\ u.image \in Images /\ uploads \subseteq Uploads
  BY DEF WInv, Uploads
<1>2. CASE UploadLost(u)
  BY <1>2 DEF UploadLost, WInv
<1>3. CASE UploadAnswered(u)
  <2>1. stream' \in [Pages -> Chunks(stored)]
    <3>1. CASE Announced(u) /\ MayWrite(js[u.page])
      <4>1. u.image \in stored /\ u.image \in Items
        BY <1>1, <3>1 DEF WInv, Announced, Items
      <4>2. \A p \in Pages : stream[p] \in Chunks(stored) /\ Append(stream[p], u.image) \in Chunks(stored)
        BY <4>1, Longer DEF WInv
      <4> QED
        BY <1>3, <3>1, <4>2 DEF UploadAnswered
    <3>2. CASE ~(Announced(u) /\ MayWrite(js[u.page]))
      BY <1>3, <3>2 DEF UploadAnswered, WInv
    <3> QED
      BY <3>1, <3>2
  <2> QED
    BY <1>3, <2>1 DEF UploadAnswered, WInv
<1>4. CASE UploadImage(u)
  <2>1. stored \subseteq stored' /\ UNCHANGED <<js, board, strokes, stream>>
    BY <1>4 DEF UploadImage
  <2>2. Chunks(stored) \subseteq Chunks(stored') /\ Socket(stored) \subseteq Socket(stored')
    BY <2>1, MoreStored
  <2>3. /\ js' \in [Pages -> Socket(stored')] /\ stream' \in [Pages -> Chunks(stored')]
        /\ board' \in [Pages -> stored' \cup {NoImage}]
    BY <2>1, <2>2 DEF WInv
  <2>4. \E st \in {"written", "refused"} :
          /\ uploads' = (uploads \ {u}) \cup {[u EXCEPT !.state = st]}
          /\ st = "written" => u.image \in stored'
    BY <1>4 DEF UploadImage
  <2>5. PICK st \in {"written", "refused"} :
          /\ uploads' = (uploads \ {u}) \cup {[u EXCEPT !.state = st]}
          /\ st = "written" => u.image \in stored'
    BY <2>4
  <2>6. /\ [u EXCEPT !.state = st] \in Uploads /\ [u EXCEPT !.state = st].state = st
        /\ [u EXCEPT !.state = st].image = u.image
    BY <1>1 DEF Uploads
  <2>7. uploads' \subseteq Uploads /\ \A v \in uploads' : v.state = "written" => v.image \in stored'
    BY <1>1, <2>1, <2>5, <2>6, Zenon DEF WInv
  <2> QED
    BY <2>1, <2>3, <2>7 DEF WInv
<1> QED
  BY <1>2, <1>3, <1>4

LEMMA NextWInv == WInv /\ [WbNext]_wbVars => WInv'
<1> SUFFICES ASSUME WInv, [WbNext]_wbVars PROVE WInv'
  OBVIOUS
<1>1. CASE UNCHANGED wbVars
  BY <1>1 DEF wbVars, WInv
<1> QED
  BY <1>1, NetWInv, DataWInv, TimersWInv, UpdateWInv, UploadWInv DEF WbNext


-----------------------------------------------------------------------------
(* The sockets of the pages.                                               *)

WbFlags == \A p \in Pages : FlagInv(js[p])

\* A socket of a page is one with the callbacks of a page.
LEMMA PageSocket ==
  ASSUME NEW S
  PROVE  /\ Socket(S) \subseteq SocketOf(Timer(S))
         /\ \A name \in {"init", "probe", "connect", "error", "close"} :
              Callback(name, NoData) \in Timer(S)
<1> DEFINE R == Seq(Timer(S))
<1> HIDE DEF R
<1>1. [target : BOOLEAN, movie : BOOLEAN, connected : BOOLEAN,
       swf : {"none", "loading", "loaded", "usable"}, flash : {"closed", "connecting", "open"},
       unread : Nat, timers : R]
      \subseteq
      [target : BOOLEAN, movie : BOOLEAN, connected : BOOLEAN,
       swf : {"none", "loading", "loaded", "usable"}, flash : {"closed", "connecting", "open"},
       unread : Int, timers : R]
  OBVIOUS
<1>2. Socket(S) \subseteq SocketOf(Timer(S))
  BY <1>1 DEF R, Socket, SocketOf
<1>3. NoData \in Chunks(S)
  BY Blank
<1>4. \A name \in {"init", "probe", "connect", "error", "close"} : Callback(name, NoData) \in Timer(S)
  BY <1>3 DEF Callback, Timer, Callbacks
<1> QED
  BY <1>2, <1>4

\* Data of any content does not concern the flag.
LEMMA AnyData ==
  ASSUME NEW R, NEW s \in SocketOf(R), FlagInv(s), NEW data
  PROVE  FlagInv(MovieData(s, data))
<1> DEFINE x == Callback("data", data)
           Q == R \cup {x}
<1>1. x \in Q /\ R \subseteq Q
  OBVIOUS
<1> HIDE DEF Q
<1>2. Seq(R) \subseteq Seq(Q)
  BY <1>1
<1>3. s \in SocketOf(Q)
  BY <1>2 DEF SocketOf
<1>4. FlagInv(FlashCallback(s, "data", data))
  BY <1>1, <1>3, FlagData
<1> QED
  BY <1>4 DEF MovieData

LEMMA FlagStep ==
  ASSUME WInv, WbFlags, NEW p \in Pages, NEW s, FlagInv(s), Becomes(p, s)
  PROVE  WbFlags'
<1>1. js' = [js EXCEPT ![p] = s] /\ DOMAIN js = Pages
  BY DEF Becomes, WInv
<1>2. \A q \in Pages : js'[q] = IF q = p THEN s ELSE js[q]
  BY <1>1
<1> QED
  BY <1>2 DEF WbFlags

LEMMA NetFlags ==
  ASSUME WInv, WbFlags, NEW p \in Pages,
         PageReady(p) \/ MovieSteps(p) \/ NetConnect(p) \/ NetClose(p)
                      \/ (\E k \in 1..Len(stream[p]) : NetData(p, k))
  PROVE  WbFlags'
<1> DEFINE R == Timer(stored)
           s == js[p]
<1>1. s \in SocketOf(R) /\ FlagInv(s)
  BY PageSocket, Zenon DEF WInv, WbFlags
<1>2. /\ Callback("init", NoData) \in R /\ Callback("connect", NoData) \in R
      /\ Callback("error", NoData) \in R /\ Callback("close", NoData) \in R
  BY PageSocket, Zenon
<1> HIDE DEF R, s
<1>3. \/ MaySetup(s) /\ Becomes(p, Setup(s))
      \/ s.swf = "loading" /\ Becomes(p, MovieLoaded(s))
      \/ s.swf = "loaded" /\ Becomes(p, MovieUsable(s))
      \/ s.flash = "connecting" /\ (Becomes(p, MovieConnected(s)) \/ Becomes(p, MovieError(s)))
      \/ s.flash = "open" /\ Becomes(p, MovieClosed(s))
      \/ \E d : Becomes(p, MovieData(s, d))
  BY DEF PageReady, MovieSteps, NetConnect, NetClose, NetData, s
<1>4. /\ MaySetup(s) => FlagInv(Setup(s))
      /\ s.swf = "loading" => FlagInv(MovieLoaded(s))
      /\ s.swf = "loaded" => FlagInv(MovieUsable(s))
  BY <1>1, <1>2, FlagLoads
<1>5. /\ s.flash = "connecting" => FlagInv(MovieConnected(s)) /\ FlagInv(MovieError(s))
      /\ s.flash = "open" => FlagInv(MovieClosed(s))
  BY <1>1, <1>2, FlagNetwork
<1>6. \A d : FlagInv(MovieData(s, d))
  BY <1>1, AnyData
<1> QED
  BY <1>3, <1>4, <1>5, <1>6, FlagStep

LEMMA TimersFlags ==
  ASSUME WInv, WbFlags, NEW p \in Pages, Timers(p)
  PROVE  WbFlags'
<1> DEFINE R == Timer(stored)
           s == js[p]
<1>1. s \in SocketOf(R) /\ FlagInv(s)
  BY PageSocket, Zenon DEF WInv, WbFlags
<1>2. Callback("probe", NoData) \in R
  BY PageSocket, ZenonT(30)
<1> HIDE DEF R, s
<1>3. \/ Fires(s, "init") /\ Becomes(p, ExecInit(s))
      \/ Fires(s, "probe") /\ s.swf = "usable" /\ Becomes(p, Connect(ProbeDone(s)))
      \/ Fires(s, "probe") /\ Becomes(p, ProbeAgain(s))
      \/ Fires(s, "connect") /\ Becomes(p, ExecConnect(s))
      \/ Fires(s, "error") /\ Becomes(p, Popped(s))
      \/ Fires(s, "close") /\ Becomes(p, ExecClose(s))
      \/ Fires(s, "data") /\ Becomes(p, Popped(s))
  BY DEF Timers, OnInit, OnProbe, OnConnect, OnErrorOrClose, OnData, s
<1>4. /\ Fires(s, "init") => FlagInv(ExecInit(s))
      /\ Fires(s, "probe") => FlagInv(ProbeAgain(s))
      /\ Fires(s, "probe") /\ s.swf = "usable" => FlagInv(Connect(ProbeDone(s)))
      /\ Fires(s, "connect") => FlagInv(ExecConnect(s))
      /\ Fires(s, "close") => FlagInv(ExecClose(s))
      /\ Fires(s, "error") \/ Fires(s, "data") => FlagInv(Popped(s))
  BY <1>1, <1>2, FlagExecuted
<1> QED
  BY <1>3, <1>4, FlagStep

LEMMA NextWbFlags == WInv /\ WbFlags /\ [WbNext]_wbVars => WbFlags'
<1> SUFFICES ASSUME WInv, WbFlags, [WbNext]_wbVars PROVE WbFlags'
  OBVIOUS
<1>1. CASE js' = js
  BY <1>1 DEF WbFlags
<1>2. ASSUME NEW p \in Pages, UpdateBoard(p) PROVE js' = js
  BY <1>2 DEF UpdateBoard
<1>3. ASSUME NEW u \in uploads, UploadImage(u) \/ UploadLost(u) \/ UploadAnswered(u) PROVE js' = js
  BY <1>3 DEF UploadImage, UploadLost, UploadAnswered
<1>4. UNCHANGED wbVars => js' = js
  BY DEF wbVars
<1> QED
  BY <1>1, <1>2, <1>3, <1>4, NetFlags, TimersFlags DEF WbNext

LEMMA InitWbFlags == WbInit => WbFlags
<1> SUFFICES ASSUME WbInit PROVE WbFlags
  OBVIOUS
<1>1. \A p \in Pages : js[p] = NewSocket
  BY DEF WbInit
<1> QED
  BY <1>1, FlagNew DEF WbFlags

LEMMA WbFlagsAgree == WInv /\ WbFlags => ConnectedAgrees
<1> SUFFICES ASSUME WInv, WbFlags, NEW p \in Pages PROVE FlagAgrees(js[p])
  BY DEF ConnectedAgrees
<1>1. js[p] \in SocketOf(Timer(stored)) /\ FlagInv(js[p])
  BY PageSocket, Zenon DEF WInv, WbFlags
<1> QED
  BY <1>1, FlagInvAgrees

\* A page shows only images the web server has stored.
THEOREM SpecShownStored == WbSpec => []ShownStored
<1>1. WInv => ShownStored
  BY DEF WInv, ShownStored
<1> QED
  BY <1>1, InitWInv, NextWInv, PTL DEF WbSpec
=============================================================================
