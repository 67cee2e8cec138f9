--------------------------- MODULE WebSocketProofs ---------------------------
(***************************************************************************)
(* The WebSocket of the wrapper, for chunks of any size and any number of  *)
(* them: the movie holds the bytes its waiting callbacks announce, and no  *)
(* message follows a close.  The theorems are about the page with the      *)
(* white board, whose jSockets are those of WhiteBoardProofs.              *)
(***************************************************************************)
EXTENDS MCBrowser, WhiteBoardProofs, WellFoundedInduction
-----------------------------------------------------------------------------
(* Induction up to a number, with the set of the numbers that are right.   *)

LEMMA UpTo ==
  ASSUME NEW n \in Nat, NEW S, 0 \in S, \A k \in 0..(n - 1) : k \in S => k + 1 \in S
  PROVE  \A k \in 0..n : k \in S
<1> DEFINE Bad == {k \in Nat : k <= n /\ k \notin S}
<1> SUFFICES ASSUME Bad # {} PROVE FALSE
  OBVIOUS
<1>1. Bad \in SUBSET Nat
  OBVIOUS
<1>2. \E x \in Bad : \A y \in Bad : ~(<<y, x>> \in OpToRel(<, Nat))
  BY <1>1, NatLessThanWellFounded, WFMin, Zenon
<1>3. \A x, y \in Nat : y < x => <<y, x>> \in OpToRel(<, Nat)
  BY DEF OpToRel
<1>4. PICK x \in Bad : \A y \in Bad : ~(y < x)
  BY <1>2, <1>3, Zenon
<1>5. x \in Nat /\ x <= n /\ x \notin S /\ x # 0
  OBVIOUS
<1>6. x - 1 \in 0..(n - 1) /\ x - 1 < x /\ (x - 1) + 1 = x
  BY <1>5
<1>7. x - 1 \in Bad
  <2> HIDE DEF Bad
  <2>1. x - 1 \notin S
    BY <1>5, <1>6
  <2> QED
    BY <1>5, <1>6, <2>1 DEF Bad
<1> QED
  BY <1>4, <1>6, <1>7

-----------------------------------------------------------------------------
(* The bytes that waiting callbacks announce.                              *)

\* Data announces at least a byte.
WsTimer ==
  {t \in [name : Callbacks, data : Seq(Nat)] :
     t.name = "data" => Len(t.data) = 1 /\ t.data[1] >= 1}

SizeOf(x) == IF x.name = "data" THEN x.data[1] ELSE 0

LEMMA SizeIs ==
  ASSUME NEW x \in WsTimer
  PROVE  SizeOf(x) \in Nat /\ (x.name = "data" => SizeOf(x) >= 1)
<1>1. x.data \in Seq(Nat) /\ (x.name = "data" => Len(x.data) = 1 /\ x.data[1] >= 1)
  BY DEF WsTimer
<1>2. x.name = "data" => x.data[1] \in Nat
  BY <1>1
<1> QED
  BY <1>1, <1>2 DEF SizeOf

\* f holds the sums of the first sizes of t.
SumsOf(f, t, n) == f = [k \in 0..n |-> IF k = 0 THEN 0 ELSE f[k - 1] + SizeOf(t[k])]

LEMMA SumsExist ==
  ASSUME NEW t, NEW n \in Nat
  PROVE  \E f : SumsOf(f, t, n)
<1> DEFINE S == {k \in Nat : \E f : SumsOf(f, t, k)}
<1>1. 0 \in S
  <2> DEFINE f == [k \in 0..0 |-> 0]
  <2>1. SumsOf(f, t, 0)
    BY DEF SumsOf
  <2> QED
    BY <2>1
<1>2. ASSUME NEW k \in 0..(n - 1), k \in S PROVE k + 1 \in S
  <2>1. PICK f : SumsOf(f, t, k)
    BY <1>2
  <2> DEFINE g == [i \in 0..(k + 1) |-> IF i = k + 1 THEN f[k] + SizeOf(t[i]) ELSE f[i]]
  <2>2. \A i \in 0..k : f[i] = IF i = 0 THEN 0 ELSE f[i - 1] + SizeOf(t[i])
    BY <2>1 DEF SumsOf
  <2>3. \A i \in 0..(k + 1) : g[i] = IF i = 0 THEN 0 ELSE g[i - 1] + SizeOf(t[i])
    <3>1. ASSUME NEW i \in 0..(k + 1) PROVE g[i] = IF i = 0 THEN 0 ELSE g[i - 1] + SizeOf(t[i])
      <4>1. CASE i = k + 1
        <5>1. g[i] = f[k] + SizeOf(t[i]) /\ g[k] = f[k] /\ i - 1 = k /\ i # 0
          BY <4>1
        <5> QED
          BY <5>1
      <4>2. CASE i # k + 1 /\ i # 0
        <5>1. i \in 0..k /\ i - 1 \in 0..k /\ i - 1 # k + 1 /\ i - 1 \in 0..(k + 1)
          BY <4>2
        <5>2. g[i] = f[i] /\ g[i - 1] = f[i - 1]
          BY <4>2, <5>1
        <5> QED
          BY <2>2, <4>2, <5>1, <5>2
      <4>3. CASE i = 0
        <5>1. i \in 0..k /\ i # k + 1
          BY <4>3
        <5> QED
          BY <2>2, <4>3, <5>1
      <4> QED
        BY <4>1, <4>2, <4>3
    <3> QED
      BY <3>1
  <2>4. SumsOf(g, t, k + 1)
    <3>1. g = [i \in 0..(k + 1) |-> g[i]]
      OBVIOUS
    <3> HIDE DEF g
    <3> QED
      BY <2>3, <3>1, Zenon DEF SumsOf
  <2> QED
    BY <2>4
<1> HIDE DEF S
<1>3. n \in S
  BY <1>1, <1>2, UpTo
<1> QED
  BY <1>3 DEF S

LEMMA BytesAre ==
  ASSUME NEW t \in Seq(WsTimer)
  PROVE  \E f \in [0..Len(t) -> Nat] :
           /\ f[0] = 0 /\ BytesOf(t) = f[Len(t)]
           /\ \A k \in 1..Len(t) : f[k] = f[k - 1] + SizeOf(t[k])
<1> DEFINE n == Len(t)
           f == CHOOSE g : SumsOf(g, t, n)
<1>1. n \in Nat /\ \A k \in 1..n : t[k] \in WsTimer
  OBVIOUS
<1>2. SumsOf(f, t, n)
  <2>1. \E g : SumsOf(g, t, n)
    BY <1>1, SumsExist, Zenon
  <2> QED
    BY <2>1
<1>3. BytesOf(t) = f[n]
  BY DEF BytesOf, SumsOf, SizeOf
<1> HIDE DEF f, n
<1>4. /\ f = [k \in 0..n |-> f[k]]
      /\ \A k \in 0..n : f[k] = IF k = 0 THEN 0 ELSE f[k - 1] + SizeOf(t[k])
  BY <1>2, Zenon DEF SumsOf
<1>5. f[0] = 0 /\ \A k \in 1..n : f[k] = f[k - 1] + SizeOf(t[k])
  BY <1>1, <1>4
<1>6. \A k \in 0..n : f[k] \in Nat
  <2> DEFINE S == {k \in Nat : f[k] \in Nat}
  <2>1. 0 \in S
    BY <1>5
  <2>2. ASSUME NEW k \in 0..(n - 1), k \in S PROVE k + 1 \in S
    <3>1. k + 1 \in 1..n /\ (k + 1) - 1 = k
      BY <1>1
    <3>2. SizeOf(t[k + 1]) \in Nat /\ f[k] \in Nat
      BY <1>1, <2>2, <3>1, SizeIs
    <3>3. f[k + 1] = f[k] + SizeOf(t[k + 1])
      BY <1>5, <3>1
    <3> QED
      BY <3>1, <3>2, <3>3
  <2> HIDE DEF S
  <2>3. \A k \in 0..n : k \in S
    BY <1>1, <2>1, <2>2, UpTo
  <2> QED
    BY <2>3 DEF S
<1>7. f \in [0..n -> Nat]
  BY <1>4, <1>6
<1> QED
  BY <1>3, <1>5, <1>7 DEF n

LEMMA BytesAppend ==
  ASSUME NEW t \in Seq(WsTimer), NEW x \in WsTimer
  PROVE  BytesOf(t) \in Nat /\ BytesOf(Append(t, x)) = BytesOf(t) + SizeOf(x)
<1> DEFINE n == Len(t)
           u == Append(t, x)
<1>1. n \in Nat /\ u \in Seq(WsTimer) /\ Len(u) = n + 1 /\ u[n + 1] = x
      /\ \A k \in 1..n : u[k] = t[k]
  OBVIOUS
<1>2. PICK f \in [0..n -> Nat] :
        /\ f[0] = 0 /\ BytesOf(t) = f[n]
        /\ \A k \in 1..n : f[k] = f[k - 1] + SizeOf(t[k])
  BY BytesAre
<1> HIDE DEF u
<1>3. PICK g \in [0..(n + 1) -> Nat] :
        /\ g[0] = 0 /\ BytesOf(u) = g[n + 1]
        /\ \A k \in 1..(n + 1) : g[k] = g[k - 1] + SizeOf(u[k])
  BY <1>1, BytesAre
<1> HIDE DEF n
<1> DEFINE S == {k \in Nat : f[k] = g[k]}
<1>4. 0 \in S
  BY <1>2, <1>3
<1>5. ASSUME NEW k \in 0..(n - 1), k \in S PROVE k + 1 \in S
  <2>1. k + 1 \in 1..n /\ k + 1 \in 1..(n + 1) /\ (k + 1) - 1 = k /\ k + 1 \in Nat
    BY <1>1
  <2>2. f[k + 1] = f[k] + SizeOf(t[k + 1]) /\ g[k + 1] = g[k] + SizeOf(u[k + 1])
    BY <1>2, <1>3, <2>1
  <2> QED
    BY <1>1, <1>5, <2>1, <2>2
<1> HIDE DEF S
<1>6. \A k \in 0..n : k \in S
  BY <1>1, <1>4, <1>5, UpTo, Zenon
<1>7. g[n] = f[n] /\ f[n] \in Nat
  <2>1. n \in S
    BY <1>1, <1>6
  <2> QED
    BY <1>1, <1>2, <2>1 DEF S
<1>8. g[n + 1] = g[n] + SizeOf(x)
  <2>1. n + 1 \in 1..(n + 1) /\ (n + 1) - 1 = n
    BY <1>1
  <2> QED
    BY <1>1, <1>3, <2>1
<1> QED
  BY <1>2, <1>3, <1>7, <1>8 DEF u

LEMMA BytesTail ==
  ASSUME NEW t \in Seq(WsTimer), t # << >>
  PROVE  BytesOf(Tail(t)) \in Nat /\ BytesOf(t) = BytesOf(Tail(t)) + SizeOf(Head(t))
<1> DEFINE n == Len(t) - 1
           u == Tail(t)
           z == SizeOf(Head(t))
<1>1. n \in Nat /\ u \in Seq(WsTimer) /\ Len(u) = n /\ Len(t) = n + 1 /\ Head(t) = t[1]
      /\ Head(t) \in WsTimer /\ \A k \in 1..n : u[k] = t[k + 1]
  OBVIOUS
<1>2. z \in Nat
  BY <1>1, SizeIs
<1> HIDE DEF n, u, z
<1>3. PICK f \in [0..(n + 1) -> Nat] :
        /\ f[0] = 0 /\ BytesOf(t) = f[n + 1]
        /\ \A k \in 1..(n + 1) : f[k] = f[k - 1] + SizeOf(t[k])
  <2>1. \E f \in [0..Len(t) -> Nat] :
          /\ f[0] = 0 /\ BytesOf(t) = f[Len(t)]
          /\ \A k \in 1..Len(t) : f[k] = f[k - 1] + SizeOf(t[k])
    BY BytesAre
  <2> QED
    BY <1>1, <2>1, Zenon
<1>4. PICK g \in [0..n -> Nat] :
        /\ g[0] = 0 /\ BytesOf(u) = g[n]
        /\ \A k \in 1..n : g[k] = g[k - 1] + SizeOf(u[k])
  BY <1>1, BytesAre, Zenon
<1> DEFINE S == {k \in Nat : f[k + 1] = g[k] + z}
<1>5. 0 \in S
  <2>1. 1 \in 1..(n + 1) /\ f[1] = f[1 - 1] + SizeOf(t[1])
    BY <1>1, <1>3
  <2>2. f[1] = 0 + z
    BY <1>1, <1>3, <2>1 DEF z
  <2> QED
    BY <1>4, <2>2
<1>6. ASSUME NEW k \in 0..(n - 1), k \in S PROVE k + 1 \in S
  <2>1. /\ k + 1 \in 1..n /\ k + 2 \in 1..(n + 1) /\ (k + 2) - 1 = k + 1 /\ (k + 1) - 1 = k
        /\ k + 1 \in Nat /\ (k + 1) + 1 = k + 2 /\ k \in 0..n
    BY <1>1
  <2>2. f[k + 2] = f[k + 1] + SizeOf(t[k + 2]) /\ g[k + 1] = g[k] + SizeOf(u[k + 1])
    BY <1>3, <1>4, <2>1
  <2>3. u[k + 1] = t[k + 2] /\ t[k + 2] \in WsTimer
    BY <1>1, <2>1
  <2>4. SizeOf(t[k + 2]) \in Nat /\ g[k] \in Nat /\ f[k + 1] = g[k] + z
    BY <1>4, <1>6, <2>1, <2>3, SizeIs
  <2>5. f[k + 2] = g[k + 1] + z
    BY <1>2, <2>2, <2>3, <2>4
  <2> QED
    BY <2>1, <2>5
<1> HIDE DEF S
<1>7. \A k \in 0..n : k \in S
  BY <1>1, <1>5, <1>6, UpTo, Zenon
<1>8. n \in S
  BY <1>1, <1>7
<1> QED
  BY <1>1, <1>3, <1>4, <1>8 DEF S, u, z
-----------------------------------------------------------------------------
(* The socket of the wrapper, while the object is in state rs: data comes  *)
(* behind the news of its connection, errors end it, and until it is       *)
(* closed the movie holds the bytes the waiting callbacks announce.        *)

ConnectFirst(t) ==
  \A i \in 1..Len(t) : t[i].name = "data" => \E j \in 1..(i - 1) : t[j].name = "connect"

Over(s) == s.movie /\ s.flash = "closed"

Live == {"CONNECTING", "OPEN"}

SockInv(s, rs) ==
  /\ s \in SocketOf(WsTimer) /\ FlagInv(s)
  /\ ~s.movie \/ s.flash = "connecting" => NoneOf(s.timers, {"data"})
  /\ ~s.connected /\ s.flash = "open" => ConnectFirst(s.timers)
  /\ ~Over(s) => NoneOf(s.timers, {"error"})
  /\ ~Over(s) /\ rs \in Live => s.unread = BytesOf(s.timers)

LEMMA WsCallbacks ==
  /\ \A name \in {"init", "probe", "connect", "error", "close"} :
       /\ Callback(name, NoData) \in WsTimer /\ Callback(name, NoData).name = name
       /\ SizeOf(Callback(name, NoData)) = 0
  /\ \A n \in Nat \ {0} :
       /\ Callback("data", <<n>>) \in WsTimer /\ Callback("data", <<n>>).name = "data"
       /\ SizeOf(Callback("data", <<n>>)) = n
<1>1. ASSUME NEW n \in Nat \ {0}
      PROVE  /\ Callback("data", <<n>>) \in WsTimer /\ Callback("data", <<n>>).name = "data"
             /\ SizeOf(Callback("data", <<n>>)) = n
  BY DEF Callback, WsTimer, Callbacks, SizeOf
<1>2. << >> \in Seq(Nat)
  OBVIOUS
<1>3. ASSUME NEW name \in {"init", "probe", "connect", "error", "close"}
      PROVE  /\ Callback(name, NoData) \in WsTimer /\ Callback(name, NoData).name = name
             /\ SizeOf(Callback(name, NoData)) = 0
  BY <1>2 DEF Callback, NoData, WsTimer, Callbacks, SizeOf
<1> QED
  BY <1>1, <1>3

\* Callbacks without data announce nothing.
LEMMA BytesSame ==
  ASSUME NEW t \in Seq(WsTimer)
  PROVE  /\ \A x \in WsTimer : SizeOf(x) = 0 => BytesOf(Append(t, x)) = BytesOf(t)
         /\ t # << >> /\ SizeOf(Head(t)) = 0 => BytesOf(Tail(t)) = BytesOf(t)
<1>1. ASSUME NEW x \in WsTimer, SizeOf(x) = 0 PROVE BytesOf(Append(t, x)) = BytesOf(t)
  <2>1. BytesOf(t) \in Nat /\ BytesOf(Append(t, x)) = BytesOf(t) + SizeOf(x)
    BY BytesAppend
  <2> QED
    BY <1>1, <2>1
<1>2. ASSUME t # << >>, SizeOf(Head(t)) = 0 PROVE BytesOf(Tail(t)) = BytesOf(t)
  <2>1. BytesOf(Tail(t)) \in Nat /\ BytesOf(t) = BytesOf(Tail(t)) + SizeOf(Head(t))
    BY <1>2, BytesTail
  <2> QED
    BY <1>2, <2>1
<1> QED
  BY <1>1, <1>2

LEMMA BytesNone == BytesOf(<< >>) = 0
<1>1. << >> \in Seq(WsTimer) /\ Len(<< >>) = 0
  OBVIOUS
<1>2. \E f \in [0..Len(<< >>) -> Nat] : f[0] = 0 /\ BytesOf(<< >>) = f[Len(<< >>)]
  BY <1>1, BytesAre, Zenon
<1> QED
  BY <1>1, <1>2

LEMMA ConnectFirstAppended ==
  ASSUME NEW R, NEW t \in Seq(R), NEW x \in R
  PROVE  /\ NoneOf(t, {"data"}) /\ x.name # "data" => ConnectFirst(Append(t, x))
         /\ ConnectFirst(t) /\ OneOf(t, "connect", News) => ConnectFirst(Append(t, x))
<1> DEFINE u == Append(t, x)
           l == Len(t)
<1>1. l \in Nat /\ Len(u) = l + 1 /\ u[l + 1] = x /\ \A i \in 1..l : u[i] = t[i]
  OBVIOUS
<1>2. \A i \in 1..(l + 1) : i \in 1..l \/ i = l + 1
  BY <1>1
<1> HIDE DEF u
<1>3. ASSUME NoneOf(t, {"data"}), x.name # "data" PROVE ConnectFirst(u)
  <2>1. \A i \in 1..(l + 1) : u[i].name # "data"
    BY <1>1, <1>2, <1>3 DEF NoneOf
  <2> QED
    BY <1>1, <2>1 DEF ConnectFirst
<1>4. ASSUME ConnectFirst(t), OneOf(t, "connect", News) PROVE ConnectFirst(u)
  <2>1. PICK c \in 1..l : t[c].name = "connect"
    BY <1>4 DEF OneOf
  <2>2. ASSUME NEW i \in 1..(l + 1), u[i].name = "data"
        PROVE  \E j \in 1..(i - 1) : u[j].name = "connect"
    <3>1. CASE i = l + 1
      <4>1. c \in 1..(i - 1) /\ u[c].name = "connect"
        BY <1>1, <2>1, <3>1
      <4> QED
        BY <4>1
    <3>2. CASE i \in 1..l
      <4>1. PICK j \in 1..(i - 1) : t[j].name = "connect"
        BY <1>1, <1>4, <2>2, <3>2 DEF ConnectFirst
      <4>2. j \in 1..l
        BY <1>1, <3>2, <4>1
      <4> QED
        BY <1>1, <4>1, <4>2
    <3> QED
      BY <1>2, <3>1, <3>2
  <2> QED
    BY <1>1, <2>2 DEF ConnectFirst
<1> QED
  BY <1>3, <1>4 DEF u

LEMMA ConnectFirstHead ==
  ASSUME NEW R, NEW t \in Seq(R), t # << >>, ConnectFirst(t)
  PROVE  Head(t).name # "data"
<1>1. 1 \in 1..Len(t) /\ Head(t) = t[1] /\ 1..(1 - 1) = {}
  OBVIOUS
<1> QED
  BY <1>1 DEF ConnectFirst

\* The state of the object may only leave the live ones.
LEMMA SockState ==
  ASSUME NEW s, NEW rs, NEW r, SockInv(s, rs), r \in Live => rs \in Live
  PROVE  SockInv(s, r)
BY DEF SockInv

LEMMA SockNew == \A rs : SockInv(NewSocket, rs) /\ SockInv(Setup(NewSocket), rs)
<1>1. \A N : NoneOf(<< >>, N)
  BY DEF NoneOf
<1>2. /\ NewSocket \in SocketOf(WsTimer) /\ FlagInv(NewSocket)
      /\ Setup(NewSocket) \in SocketOf(WsTimer) /\ FlagInv(Setup(NewSocket))
  BY FlagNew
<1>3. /\ NewSocket.timers = << >> /\ ~NewSocket.movie /\ NewSocket.flash = "closed"
      /\ NewSocket.unread = 0
  BY DEF NewSocket
<1> DEFINE r == Setup(NewSocket)
<1>4. r.timers = << >> /\ ~r.movie /\ r.flash = "closed" /\ r.unread = 0
  BY <1>2, <1>3 DEF Setup, SocketOf
<1> HIDE DEF r
<1>5. \A rs : SockInv(NewSocket, rs)
  BY <1>1, <1>2, <1>3, BytesNone DEF SockInv, Over
<1>6. r \in SocketOf(WsTimer) /\ FlagInv(r)
  BY <1>2 DEF r
<1>7. \A rs : SockInv(r, rs)
  BY <1>1, <1>4, <1>6, BytesNone DEF SockInv, Over
<1> QED
  BY <1>5, <1>7 DEF r

\* The movie is set up and loads.
LEMMA SockLoads ==
  ASSUME NEW s, NEW rs, SockInv(s, rs)
  PROVE  /\ MaySetup(s) => SockInv(Setup(s), rs)
         /\ s.swf = "loading" => SockInv(MovieLoaded(s), rs)
         /\ s.swf = "loaded" => SockInv(MovieUsable(s), rs)
<1>0. s \in SocketOf(WsTimer) /\ FlagInv(s) /\ s.timers \in Seq(WsTimer)
  BY DEF SockInv, SocketOf
<1>1. /\ MaySetup(s) => Setup(s) \in SocketOf(WsTimer) /\ FlagInv(Setup(s))
      /\ s.swf = "loading" => MovieLoaded(s) \in SocketOf(WsTimer) /\ FlagInv(MovieLoaded(s))
      /\ s.swf = "loaded" => MovieUsable(s) \in SocketOf(WsTimer) /\ FlagInv(MovieUsable(s))
  <2>1. Callback("init", NoData) \in WsTimer
    BY WsCallbacks
  <2> QED
    BY <1>0, <2>1, FlagLoads
<1>2. ASSUME NEW r, r \in SocketOf(WsTimer), FlagInv(r), r.timers = s.timers,
             r.movie = s.movie, r.connected = s.connected, r.flash = s.flash, r.unread = s.unread
      PROVE  SockInv(r, rs)
  BY <1>2 DEF SockInv, Over
<1>3. ASSUME MaySetup(s) PROVE SockInv(Setup(s), rs)
  <2> DEFINE r == Setup(s)
  <2>1. /\ r.timers = s.timers /\ r.movie = s.movie /\ r.connected = s.connected
        /\ r.flash = s.flash /\ r.unread = s.unread
    BY <1>0 DEF Setup, SocketOf
  <2> HIDE DEF r
  <2>2. r \in SocketOf(WsTimer) /\ FlagInv(r)
    BY <1>1, <1>3 DEF r
  <2>3. SockInv(r, rs)
    BY <1>2, <2>1, <2>2
  <2> QED
    BY <2>3 DEF r
<1>4. ASSUME s.swf = "loaded" PROVE SockInv(MovieUsable(s), rs)
  <2> DEFINE r == MovieUsable(s)
  <2>1. /\ r.timers = s.timers /\ r.movie = s.movie /\ r.connected = s.connected
        /\ r.flash = s.flash /\ r.unread = s.unread
    BY <1>0 DEF MovieUsable, SocketOf
  <2> HIDE DEF r
  <2>2. r \in SocketOf(WsTimer) /\ FlagInv(r)
    BY <1>1, <1>4 DEF r
  <2>3. SockInv(r, rs)
    BY <1>2, <2>1, <2>2
  <2> QED
    BY <2>3 DEF r
<1>5. ASSUME s.swf = "loading" PROVE SockInv(MovieLoaded(s), rs)
  <2> DEFINE m == [s EXCEPT !.swf = "loaded"]
             x == Callback("init", NoData)
             r == MovieLoaded(s)
  <2>1. m \in SocketOf(WsTimer) /\ m.timers = s.timers /\ m.movie = s.movie
        /\ m.connected = s.connected /\ m.flash = s.flash /\ m.unread = s.unread
    BY <1>0 DEF SocketOf
  <2>2. r = FlashCallback(m, "init", NoData) /\ x \in WsTimer /\ x.name = "init" /\ SizeOf(x) = 0
    BY WsCallbacks DEF MovieLoaded
  <2> HIDE DEF m, x, r
  <2>3. /\ r.timers = Append(s.timers, x) /\ r.movie = s.movie /\ r.connected = s.connected
        /\ r.flash = s.flash /\ r.unread = s.unread
    BY <2>1, <2>2, CallbackFields DEF x
  <2>4. r \in SocketOf(WsTimer) /\ FlagInv(r)
    BY <1>1, <1>5 DEF r
  <2>5. /\ NoneOf(s.timers, {"data"}) => NoneOf(r.timers, {"data"})
        /\ NoneOf(s.timers, {"error"}) => NoneOf(r.timers, {"error"})
        /\ BytesOf(r.timers) = BytesOf(s.timers)
    <3>1. x.name \notin {"data"} /\ x.name \notin {"error"}
      BY <2>2
    <3>3. BytesOf(r.timers) = BytesOf(s.timers)
      BY <1>0, <2>2, <2>3, BytesSame, Zenon
    <3>4. \A N : NoneOf(s.timers, N) /\ x.name \notin N => NoneOf(Append(s.timers, x), N)
      BY <1>0, <2>2, Appended
    <3> QED
      BY <2>3, <3>1, <3>3, <3>4
  <2>6. ~s.movie /\ s.flash = "closed"
    BY <1>5 DEF SockInv, FlagInv
  <2>7. SockInv(r, rs)
    BY <2>3, <2>4, <2>5, <2>6 DEF SockInv, Over
  <2> QED
    BY <2>7 DEF r
<1> QED
  BY <1>3, <1>4, <1>5

\* The movie's socket.
LEMMA SockNetwork ==
  ASSUME NEW s, NEW rs, SockInv(s, rs)
  PROVE  /\ s.flash = "connecting" => SockInv(MovieConnected(s), rs) /\ SockInv(MovieError(s), rs)
         /\ s.flash = "open" => SockInv(MovieClosed(s), rs)
         /\ MayWrite(s) => SockInv(Close(s), rs)
<1>0. s \in SocketOf(WsTimer) /\ FlagInv(s) /\ s.timers \in Seq(WsTimer)
  BY DEF SockInv, SocketOf
<1>1. /\ s.flash = "connecting" =>
           /\ MovieConnected(s) \in SocketOf(WsTimer) /\ FlagInv(MovieConnected(s))
           /\ MovieError(s) \in SocketOf(WsTimer) /\ FlagInv(MovieError(s))
      /\ s.flash = "open" => MovieClosed(s) \in SocketOf(WsTimer) /\ FlagInv(MovieClosed(s))
      /\ MayWrite(s) => Close(s) \in SocketOf(WsTimer) /\ FlagInv(Close(s))
  <2>1. \A name \in {"connect", "error", "close"} : Callback(name, NoData) \in WsTimer
    BY WsCallbacks
  <2> QED
    BY <1>0, <2>1, FlagNetwork
<1>2. s.flash \in {"connecting", "open"} => s.movie
  BY DEF SockInv, FlagInv
<1>3. ASSUME NEW f \in {"open", "closed"}, NEW name \in {"connect", "error", "close"}
      PROVE  LET r == FlashCallback([s EXCEPT !.flash = f], name, NoData)
             IN  /\ r.timers = Append(s.timers, Callback(name, NoData)) /\ r.movie = s.movie
                 /\ r.connected = s.connected /\ r.flash = f /\ r.unread = s.unread
  <2> DEFINE m == [s EXCEPT !.flash = f]
  <2>1. m \in SocketOf(WsTimer) /\ m.timers = s.timers /\ m.movie = s.movie
        /\ m.connected = s.connected /\ m.flash = f /\ m.unread = s.unread
    BY <1>0 DEF SocketOf
  <2>2. Callback(name, NoData) \in WsTimer
    BY WsCallbacks
  <2> HIDE DEF m
  <2> DEFINE r == FlashCallback(m, name, NoData)
  <2>3. /\ r.timers = Append(m.timers, Callback(name, NoData)) /\ r.movie = m.movie
        /\ r.connected = m.connected /\ r.flash = m.flash /\ r.unread = m.unread
    BY <2>1, <2>2, CallbackFields
  <2> HIDE DEF r
  <2>4. /\ r.timers = Append(s.timers, Callback(name, NoData)) /\ r.movie = s.movie
        /\ r.connected = s.connected /\ r.flash = f /\ r.unread = s.unread
    BY <2>1, <2>3
  <2> QED
    BY <2>4 DEF r, m
<1>4. ASSUME s.flash = "connecting" PROVE SockInv(MovieConnected(s), rs)
  <2> DEFINE r == MovieConnected(s)
             x == Callback("connect", NoData)
  <2>1. /\ r.timers = Append(s.timers, x) /\ r.movie = s.movie
        /\ r.connected = s.connected /\ r.flash = "open" /\ r.unread = s.unread
    BY <1>3, Zenon DEF MovieConnected
  <2>2. x \in WsTimer /\ x.name = "connect" /\ SizeOf(x) = 0
    BY WsCallbacks
  <2> HIDE DEF r, x
  <2>3. r \in SocketOf(WsTimer) /\ FlagInv(r) /\ s.movie
    BY <1>1, <1>2, <1>4 DEF r
  <2>4. NoneOf(s.timers, {"data"}) /\ NoneOf(s.timers, {"error"})
    BY <1>4 DEF SockInv, Over
  <2>5. BytesOf(r.timers) = BytesOf(s.timers)
    BY <1>0, <2>1, <2>2, BytesSame
  <2>6. ConnectFirst(r.timers)
    BY <1>0, <2>1, <2>2, <2>4, ConnectFirstAppended
  <2>7. NoneOf(r.timers, {"error"})
    <3>1. x.name \notin {"error"}
      BY <2>2
    <3> QED
      BY <1>0, <2>1, <2>2, <2>4, <3>1, Appended
  <2>8. SockInv(r, rs)
    BY <1>4, <2>1, <2>3, <2>5, <2>6, <2>7 DEF SockInv, Over
  <2> QED
    BY <2>8 DEF r
<1>5. ASSUME NEW r, r \in SocketOf(WsTimer), FlagInv(r), r.movie, r.flash = "closed"
      PROVE  SockInv(r, rs)
  BY <1>5 DEF SockInv, Over
<1>6. ASSUME s.flash = "connecting" PROVE SockInv(MovieError(s), rs)
  <2>1. MovieError(s).movie /\ MovieError(s).flash = "closed"
    BY <1>2, <1>3, <1>6 DEF MovieError
  <2> QED
    BY <1>1, <1>5, <1>6, <2>1
<1>7. ASSUME s.flash = "open" PROVE SockInv(MovieClosed(s), rs)
  <2>1. MovieClosed(s).movie /\ MovieClosed(s).flash = "closed"
    BY <1>2, <1>3, <1>7 DEF MovieClosed
  <2> QED
    BY <1>1, <1>5, <1>7, <2>1
<1>8. ASSUME MayWrite(s) PROVE SockInv(Close(s), rs)
  <2>1. s.movie
    BY <1>8 DEF MayWrite, AssertConnected
  <2>2. Close(s).movie /\ Close(s).flash = "closed"
    BY <1>0, <2>1 DEF Close, SocketOf
  <2> QED
    BY <1>1, <1>5, <1>8, <2>2
<1> QED
  BY <1>4, <1>6, <1>7, <1>8

\* A chunk arrives.
LEMMA SockArrives ==
  ASSUME NEW s, NEW rs, SockInv(s, rs), NEW size \in Nat \ {0}, s.flash = "open"
  PROVE  SockInv(MovieDataAdvanced(s, size), rs)
<1>0. s \in SocketOf(WsTimer) /\ FlagInv(s) /\ s.timers \in Seq(WsTimer) /\ s.unread \in Int
  BY DEF SockInv, SocketOf
<1> DEFINE m == [s EXCEPT !.unread = s.unread + size]
           x == Callback("data", <<size>>)
           r == MovieDataAdvanced(s, size)
<1>1. m \in SocketOf(WsTimer) /\ FlagInv(m)
  <2>1. s.unread + size \in Int
    BY <1>0
  <2> QED
    BY <1>0, <2>1, FlagData
<1>2. m.timers = s.timers /\ m.movie = s.movie /\ m.connected = s.connected
      /\ m.flash = s.flash /\ m.unread = s.unread + size
  BY <1>0 DEF SocketOf
<1>3. r = FlashCallback(m, "data", <<size>>)
  BY DEF MovieDataAdvanced
<1>4. x \in WsTimer /\ x.name = "data" /\ SizeOf(x) = size
  BY WsCallbacks
<1> HIDE DEF m, r
<1>5. r \in SocketOf(WsTimer) /\ FlagInv(r)
  BY <1>1, <1>3, <1>4, FlagData
<1>6. /\ r.timers = Append(m.timers, x) /\ r.movie = m.movie
      /\ r.connected = m.connected /\ r.flash = m.flash /\ r.unread = m.unread
  BY <1>1, <1>3, <1>4, CallbackFields
<1> HIDE DEF x
<1>7. s.movie /\ (s.connected \/ OneOf(s.timers, "connect", News))
  BY DEF SockInv, FlagInv
<1>8. ~s.connected => ConnectFirst(r.timers)
  <2>1. ~s.connected => ConnectFirst(s.timers)
    BY DEF SockInv
  <2> QED
    BY <1>0, <1>2, <1>4, <1>6, <1>7, <2>1, ConnectFirstAppended
<1>9. NoneOf(r.timers, {"error"})
  <2>1. NoneOf(s.timers, {"error"}) /\ x.name \notin {"error"}
    BY <1>4 DEF SockInv, Over
  <2> QED
    BY <1>0, <1>2, <1>4, <1>6, <2>1, Appended
<1>10. rs \in Live => r.unread = BytesOf(r.timers)
  <2>1. rs \in Live => s.unread = BytesOf(s.timers)
    BY DEF SockInv, Over
  <2>2. BytesOf(s.timers) \in Nat /\ BytesOf(Append(s.timers, x)) = BytesOf(s.timers) + SizeOf(x)
    BY <1>0, <1>4, BytesAppend
  <2>3. r.unread = s.unread + size /\ BytesOf(r.timers) = BytesOf(s.timers) + size
    BY <1>2, <1>4, <1>6, <2>2
  <2> QED
    BY <2>1, <2>3
<1>11. SockInv(r, rs)
  <2>1. r.movie /\ r.flash = "open" /\ r.connected = s.connected
    BY <1>2, <1>6, <1>7
  <2> QED
    BY <1>5, <1>8, <1>9, <1>10, <2>1 DEF SockInv, Over
<1> QED
  BY <1>11 DEF r

\* A callback without data leaves the queue: the bytes stay accounted for.
LEMMA SockPopped ==
  ASSUME NEW s, NEW rs, SockInv(s, rs), s.timers # << >>
  PROVE  LET p == Popped(s)
         IN  /\ p \in SocketOf(WsTimer) /\ p.timers = Tail(s.timers)
             /\ p.target = s.target /\ p.movie = s.movie /\ p.connected = s.connected
             /\ p.swf = s.swf /\ p.flash = s.flash /\ p.unread = s.unread
             /\ \A N : NoneOf(s.timers, N) => NoneOf(p.timers, N) /\ First(s).name \notin N
             /\ First(s).name # "data" => BytesOf(p.timers) = BytesOf(s.timers)
<1>0. s \in SocketOf(WsTimer) /\ s.timers \in Seq(WsTimer) /\ First(s) = Head(s.timers)
  BY DEF SockInv, SocketOf, First
<1> DEFINE p == Popped(s)
<1>1. /\ p \in SocketOf(WsTimer) /\ p.timers = Tail(s.timers)
      /\ p.target = s.target /\ p.movie = s.movie /\ p.connected = s.connected
      /\ p.swf = s.swf /\ p.flash = s.flash /\ p.unread = s.unread
  BY <1>0, PoppedFields
<1>2. \A N : NoneOf(s.timers, N) => NoneOf(Tail(s.timers), N) /\ Head(s.timers).name \notin N
  BY <1>0, Dropped
<1>3. First(s).name # "data" => SizeOf(Head(s.timers)) = 0
  BY <1>0 DEF SizeOf
<1>4. First(s).name # "data" => BytesOf(Tail(s.timers)) = BytesOf(s.timers)
  BY <1>0, <1>3, BytesSame
<1> HIDE DEF p
<1>5. /\ \A N : NoneOf(s.timers, N) => NoneOf(p.timers, N) /\ First(s).name \notin N
      /\ First(s).name # "data" => BytesOf(p.timers) = BytesOf(s.timers)
  BY <1>0, <1>1, <1>2, <1>4
<1> QED
  BY <1>1, <1>5 DEF p

LEMMA SockExecuted ==
  ASSUME NEW s, NEW rs, SockInv(s, rs)
  PROVE  /\ Fires(s, "init") => SockInv(ExecInit(s), rs)
         /\ Fires(s, "probe") => SockInv(ProbeAgain(s), rs)
         /\ Fires(s, "probe") /\ s.swf = "usable" => SockInv(Connect(ProbeDone(s)), rs)
         /\ Fires(s, "connect") => SockInv(ExecConnect(s), rs)
         /\ Fires(s, "close") => SockInv(ExecClose(s), rs) /\ Over(ExecClose(s))
         /\ Fires(s, "error") => SockInv(Popped(s), rs) /\ Over(Popped(s))
<1>0. s \in SocketOf(WsTimer) /\ FlagInv(s) /\ s.timers \in Seq(WsTimer)
  BY DEF SockInv, SocketOf
<1>1. /\ Fires(s, "init") => ExecInit(s) \in SocketOf(WsTimer) /\ FlagInv(ExecInit(s))
      /\ Fires(s, "probe") => ProbeAgain(s) \in SocketOf(WsTimer) /\ FlagInv(ProbeAgain(s))
      /\ Fires(s, "probe") /\ s.swf = "usable" =>
           Connect(ProbeDone(s)) \in SocketOf(WsTimer) /\ FlagInv(Connect(ProbeDone(s)))
      /\ Fires(s, "connect") => ExecConnect(s) \in SocketOf(WsTimer) /\ FlagInv(ExecConnect(s))
      /\ Fires(s, "close") => ExecClose(s) \in SocketOf(WsTimer) /\ FlagInv(ExecClose(s))
      /\ Fires(s, "error") \/ Fires(s, "data") => Popped(s) \in SocketOf(WsTimer) /\ FlagInv(Popped(s))
  <2>1. Callback("probe", NoData) \in WsTimer
    BY WsCallbacks
  <2> QED
    BY <1>0, <2>1, FlagExecuted
<1> DEFINE p == Popped(s)
<1>2. ASSUME s.timers # << >>
      PROVE  /\ p \in SocketOf(WsTimer) /\ p.timers = Tail(s.timers)
             /\ p.target = s.target /\ p.movie = s.movie /\ p.connected = s.connected
             /\ p.swf = s.swf /\ p.flash = s.flash /\ p.unread = s.unread
             /\ \A N : NoneOf(s.timers, N) => NoneOf(p.timers, N) /\ First(s).name \notin N
             /\ First(s).name # "data" => BytesOf(p.timers) = BytesOf(s.timers)
  BY <1>2, SockPopped
<1> HIDE DEF p
<1>3. ASSUME Fires(s, "init") \/ Fires(s, "probe")
      PROVE  /\ s.timers # << >> /\ First(s).name # "data"
             /\ ~s.movie /\ ~s.connected /\ s.flash = "closed"
  <2>1. s.timers # << >> /\ First(s).name \in {"init", "probe"}
    BY <1>3 DEF Fires
  <2>2. ~NoneOf(s.timers, Setups)
    BY <1>2, <2>1 DEF Setups
  <2> QED
    BY <1>0, <2>1, <2>2 DEF FlagInv
<1>4. ASSUME NEW r, r \in SocketOf(WsTimer), FlagInv(r), s.timers # << >>,
             First(s).name # "data", ~s.movie, s.flash = "closed", ~s.connected,
             r = FlashCallback(p, "probe", NoData)
      PROVE  SockInv(r, rs)
  <2> DEFINE x == Callback("probe", NoData)
  <2>1. x \in WsTimer /\ x.name = "probe" /\ SizeOf(x) = 0
    BY WsCallbacks
  <2>2. /\ r.timers = Append(p.timers, x) /\ r.movie = p.movie
        /\ r.connected = p.connected /\ r.flash = p.flash /\ r.unread = p.unread
    <3>1. p \in SocketOf(WsTimer)
      BY <1>2, <1>4
    <3>2. r = FlashCallback(p, "probe", NoData)
      BY <1>4
    <3> QED
      BY <2>1, <3>1, <3>2, CallbackFields, SMTT(20)
  <2> HIDE DEF x
  <2>3. p.timers \in Seq(WsTimer)
    BY <1>2, <1>4 DEF SocketOf
  <2>4. NoneOf(s.timers, {"data"}) /\ NoneOf(s.timers, {"error"})
        /\ (rs \in Live => s.unread = BytesOf(s.timers))
    BY <1>4 DEF SockInv, Over
  <2>5. NoneOf(p.timers, {"data"}) /\ NoneOf(p.timers, {"error"})
    BY <1>2, <1>4, <2>4
  <2>6. NoneOf(r.timers, {"data"}) /\ NoneOf(r.timers, {"error"})
    <3>1. x.name \notin {"data"} /\ x.name \notin {"error"}
      BY <2>1
    <3>2. \A N : NoneOf(p.timers, N) /\ x.name \notin N => NoneOf(Append(p.timers, x), N)
      BY <2>1, <2>3, Appended
    <3> QED
      BY <2>2, <2>5, <3>1, <3>2
  <2>7. BytesOf(r.timers) = BytesOf(p.timers)
    BY <2>1, <2>2, <2>3, BytesSame
  <2>8. /\ ~r.movie /\ ~r.connected /\ r.flash = "closed"
        /\ r.unread = s.unread /\ BytesOf(r.timers) = BytesOf(s.timers)
    BY <1>2, <1>4, <2>2, <2>7, SMTT(20)
  <2> QED
    BY <1>4, <2>4, <2>6, <2>8 DEF SockInv, Over
<1>5. ASSUME Fires(s, "init") PROVE SockInv(ExecInit(s), rs)
  <2>1. ExecInit(s) = FlashCallback(p, "probe", NoData)
    BY SMTT(20) DEF ExecInit, p
  <2> QED
    BY <1>1, <1>3, <1>4, <1>5, <2>1
<1>6. ASSUME Fires(s, "probe") PROVE SockInv(ProbeAgain(s), rs)
  <2>1. ProbeAgain(s) = FlashCallback(p, "probe", NoData)
    BY DEF ProbeAgain, p
  <2> QED
    BY <1>1, <1>3, <1>4, <1>6, <2>1
<1>7. ASSUME Fires(s, "probe"), s.swf = "usable" PROVE SockInv(Connect(ProbeDone(s)), rs)
  <2> DEFINE r == Connect(ProbeDone(s))
  <2>1. s.timers # << >> /\ First(s).name # "data" /\ ~s.movie /\ ~s.connected /\ s.flash = "closed"
    BY <1>3, <1>7
  <2>2. /\ r.timers = p.timers /\ r.movie /\ r.connected = p.connected
        /\ r.flash = "connecting" /\ r.unread = p.unread
    <3>1. r = [[p EXCEPT !.movie = TRUE] EXCEPT !.flash = "connecting"]
      BY DEF Connect, ProbeDone, p
    <3>2. p \in SocketOf(WsTimer)
      BY <1>2, <2>1
    <3> QED
      BY <3>1, <3>2 DEF SocketOf
  <2> HIDE DEF r
  <2>3. r \in SocketOf(WsTimer) /\ FlagInv(r)
    BY <1>1, <1>7 DEF r
  <2>4. NoneOf(s.timers, {"data"}) /\ NoneOf(s.timers, {"error"})
        /\ (rs \in Live => s.unread = BytesOf(s.timers))
    BY <2>1 DEF SockInv, Over
  <2>5. /\ NoneOf(r.timers, {"data"}) /\ NoneOf(r.timers, {"error"})
        /\ r.unread = s.unread /\ BytesOf(r.timers) = BytesOf(s.timers)
    BY <1>2, <2>1, <2>2, <2>4
  <2>6. SockInv(r, rs)
    BY <2>2, <2>3, <2>4, <2>5 DEF SockInv, Over
  <2> QED
    BY <2>6 DEF r
<1>8. ASSUME Fires(s, "connect") PROVE SockInv(ExecConnect(s), rs)
  <2> DEFINE r == ExecConnect(s)
  <2>1. s.timers # << >> /\ First(s).name = "connect"
    BY <1>8 DEF Fires
  <2>2. ~NoneOf(s.timers, News)
    BY <1>2, <2>1 DEF News
  <2>3. s.movie /\ s.flash \in {"open", "closed"}
    BY <1>0, <2>2 DEF FlagInv
  <2>4. /\ r.timers = p.timers /\ r.movie = p.movie /\ r.connected
        /\ r.flash = p.flash /\ r.unread = p.unread
    <3>1. r = [p EXCEPT !.connected = TRUE]
      BY DEF ExecConnect, p
    <3>2. p \in SocketOf(WsTimer)
      BY <1>2, <2>1
    <3> QED
      BY <3>1, <3>2 DEF SocketOf
  <2> HIDE DEF r
  <2>5. r \in SocketOf(WsTimer) /\ FlagInv(r)
    BY <1>1, <1>8 DEF r
  <2>6. s.flash = "open" => NoneOf(s.timers, {"error"}) /\ (rs \in Live => s.unread = BytesOf(s.timers))
    BY DEF SockInv, Over
  <2>7. /\ r.movie /\ r.flash = s.flash
        /\ s.flash = "open" => NoneOf(r.timers, {"error"})
        /\ r.unread = s.unread /\ BytesOf(r.timers) = BytesOf(s.timers)
    BY <1>2, <2>1, <2>3, <2>4, <2>6, Zenon
  <2>8. SockInv(r, rs)
    BY <2>3, <2>4, <2>5, <2>6, <2>7 DEF SockInv, Over
  <2> QED
    BY <2>8 DEF r
<1>9. ASSUME NEW r, r \in SocketOf(WsTimer), FlagInv(r), r.movie, r.flash = "closed"
      PROVE  SockInv(r, rs) /\ Over(r)
  BY <1>9 DEF SockInv, Over
<1>10. ASSUME Fires(s, "close") PROVE SockInv(ExecClose(s), rs) /\ Over(ExecClose(s))
  <2> DEFINE r == ExecClose(s)
  <2>1. s.timers # << >> /\ First(s).name = "close"
    BY <1>10 DEF Fires
  <2>2. /\ ~NoneOf(s.timers, News) /\ Head(s.timers).name = "close"
        /\ ~OneOf(s.timers, "connect", News)
    <3>1. \A n, N : OneOf(s.timers, n, N) /\ Head(s.timers).name \in N => Head(s.timers).name = n
      BY <1>0, <2>1, Dropped
    <3>2. Head(s.timers).name = "close" /\ "close" \in News
      BY <2>1 DEF First, News
    <3>3. ~NoneOf(s.timers, News)
      BY <1>2, <2>1, <3>2
    <3> QED
      BY <3>1, <3>2, <3>3
  <2>3. s.movie /\ s.flash = "closed"
    BY <1>0, <2>2 DEF FlagInv
  <2>4. r.movie = p.movie /\ r.flash = p.flash
    <3>1. r = [p EXCEPT !.connected = FALSE]
      BY DEF ExecClose, p
    <3>2. p \in SocketOf(WsTimer)
      BY <1>2, <2>1
    <3> QED
      BY <3>1, <3>2 DEF SocketOf
  <2>5. r \in SocketOf(WsTimer) /\ FlagInv(r)
    BY <1>1, <1>10
  <2> HIDE DEF r
  <2>6. SockInv(r, rs) /\ Over(r)
    BY <1>2, <1>9, <2>1, <2>3, <2>4, <2>5, Zenon
  <2> QED
    BY <2>6 DEF r
<1>11. ASSUME Fires(s, "error") PROVE SockInv(p, rs) /\ Over(p)
  <2>1. s.timers # << >> /\ First(s).name = "error"
    BY <1>11 DEF Fires
  <2>2. ~NoneOf(s.timers, {"error"})
    BY <1>2, <2>1
  <2>3. s.movie /\ s.flash = "closed"
    BY <2>2 DEF SockInv, Over
  <2>4. p \in SocketOf(WsTimer) /\ FlagInv(p) /\ p.movie /\ p.flash = "closed"
    BY <1>1, <1>2, <1>11, <2>1, <2>3, Zenon DEF p
  <2> QED
    BY <1>9, <2>4
<1> QED
  BY <1>5, <1>6, <1>7, <1>8, <1>10, <1>11 DEF p

\* A data callback is executed.  While the object is live and the connection is
\* not over, what the callback announces can be read; what is read is what it
\* announced.
LEMMA SockData ==
  ASSUME NEW s, NEW rs, SockInv(s, rs), Fires(s, "data")
  PROVE  LET size == First(s).data[1]
         IN  /\ size \in Nat \ {0}
             /\ MayRead(s, size) => SockInv(Read(Popped(s), size), rs)
                                    /\ (MayWrite(Read(Popped(s), size)))
             /\ ~MayRead(s, size) \/ rs \notin Live => SockInv(Popped(s), rs)
<1> DEFINE size == First(s).data[1]
           p == Popped(s)
           r == Read(p, size)
<1>0. /\ s \in SocketOf(WsTimer) /\ FlagInv(s) /\ s.timers \in Seq(WsTimer) /\ s.timers # << >>
      /\ s.unread \in Int /\ First(s).name = "data" /\ First(s) = Head(s.timers)
  BY DEF SockInv, SocketOf, Fires, First
<1>1. /\ p \in SocketOf(WsTimer) /\ p.timers = Tail(s.timers)
      /\ p.target = s.target /\ p.movie = s.movie /\ p.connected = s.connected
      /\ p.swf = s.swf /\ p.flash = s.flash /\ p.unread = s.unread
      /\ \A N : NoneOf(s.timers, N) => NoneOf(p.timers, N) /\ First(s).name \notin N
  BY <1>0, SockPopped, Zenon
<1>2. FlagInv(p)
  <2>1. Callback("probe", NoData) \in WsTimer
    BY WsCallbacks
  <2> QED
    BY <1>0, <2>1, FlagExecuted
<1>3. size = SizeOf(Head(s.timers)) /\ size \in Nat \ {0}
  <2>1. Head(s.timers) \in WsTimer
    BY <1>0
  <2>2. SizeOf(Head(s.timers)) \in Nat /\ SizeOf(Head(s.timers)) >= 1
    BY <1>0, <2>1, SizeIs
  <2>3. size = SizeOf(Head(s.timers))
    BY <1>0 DEF SizeOf
  <2> QED
    BY <2>2, <2>3
<1>4. /\ BytesOf(p.timers) \in Nat /\ BytesOf(s.timers) = BytesOf(p.timers) + size
  <2>1. BytesOf(Tail(s.timers)) \in Nat
        /\ BytesOf(s.timers) = BytesOf(Tail(s.timers)) + SizeOf(Head(s.timers))
    BY <1>0, BytesTail
  <2> QED
    BY <1>1, <1>3, <2>1
<1>5. s.movie /\ s.flash # "connecting" /\ (~s.connected => s.flash # "open")
  <2>1. ~NoneOf(s.timers, {"data"})
    BY <1>0, <1>1
  <2>2. ~ConnectFirst(s.timers)
    BY <1>0, ConnectFirstHead
  <2> QED
    BY <2>1, <2>2 DEF SockInv
<1> HIDE DEF size, p
<1>6. s.unread - size \in Int
  BY <1>0, <1>3
<1>7. r = [p EXCEPT !.unread = s.unread - size]
  BY <1>1 DEF Read
<1>8. r \in SocketOf(WsTimer) /\ FlagInv(r)
  BY <1>1, <1>2, <1>6, <1>7, FlagData
<1>9. /\ r.timers = p.timers /\ r.movie = p.movie /\ r.connected = p.connected
      /\ r.flash = p.flash /\ r.unread = s.unread - size
  BY <1>1, <1>7 DEF SocketOf
<1> HIDE DEF r
<1>10. ~Over(s) => NoneOf(p.timers, {"error"})
  BY <1>1 DEF SockInv
<1>11. ~Over(s) /\ rs \in Live => s.unread = BytesOf(s.timers)
  BY DEF SockInv
<1>12. ~Over(s) /\ rs \in Live => s.unread - size = BytesOf(p.timers) /\ size <= s.unread
  BY <1>0, <1>3, <1>4, <1>11
<1>13. ASSUME MayRead(s, size) PROVE SockInv(r, rs) /\ MayWrite(r)
  <2>1. s.connected /\ s.movie /\ s.flash = "open"
    BY <1>13 DEF MayRead, MayWrite, AssertConnected
  <2>2. r.connected /\ r.movie /\ r.flash = "open"
    BY <1>1, <1>9, <2>1
  <2>3. ~Over(s) /\ ~Over(r)
    BY <2>1, <2>2 DEF Over
  <2>4. NoneOf(r.timers, {"error"}) /\ (rs \in Live => r.unread = BytesOf(r.timers))
    BY <1>9, <1>10, <1>12, <2>3
  <2> QED
    BY <1>8, <2>2, <2>4 DEF SockInv, MayWrite, AssertConnected
<1>14. ASSUME ~MayRead(s, size) \/ rs \notin Live PROVE SockInv(p, rs)
  <2>1. ASSUME ~Over(s), rs \in Live PROVE FALSE
    <3>1. s.connected /\ s.flash = "open"
      BY <1>0, <1>5, <2>1 DEF Over, SocketOf
    <3>2. size >= 0 /\ size <= s.unread
      BY <1>3, <1>12, <2>1
    <3> QED
      BY <1>5, <1>14, <2>1, <3>1, <3>2 DEF MayRead, MayWrite, AssertConnected
  <2>2. Over(p) = Over(s)
    BY <1>1 DEF Over
  <2>3. p.movie /\ p.flash # "connecting" /\ ~(~p.connected /\ p.flash = "open")
    BY <1>1, <1>5
  <2> QED
    BY <1>1, <1>2, <1>10, <2>1, <2>2, <2>3 DEF SockInv
<1> QED
  BY <1>3, <1>13, <1>14 DEF size, p, r

\* A connection that is over stays over.
LEMMA OverKept ==
  ASSUME NEW s, NEW rs, SockInv(s, rs), Over(s)
  PROVE  /\ ~MaySetup(s) /\ s.swf = "usable" /\ ~MayWrite(s)
         /\ ~Fires(s, "init") /\ ~Fires(s, "probe")
         /\ Fires(s, "connect") => Over(ExecConnect(s))
         /\ s.timers # << >> => Over(Popped(s))
<1>0. s \in SocketOf(WsTimer) /\ s.movie /\ s.flash = "closed"
  BY DEF SockInv, Over
<1>1. s.target /\ s.swf = "usable" /\ NoneOf(s.timers, Setups)
  BY <1>0 DEF SockInv, FlagInv
<1>2. ~MaySetup(s) /\ ~MayWrite(s)
  BY <1>0, <1>1 DEF MaySetup, MayWrite
<1> DEFINE p == Popped(s)
           r == ExecConnect(s)
<1>3. s.timers # << >> =>
        /\ p \in SocketOf(WsTimer) /\ p.movie /\ p.flash = "closed"
        /\ First(s).name \notin Setups
  BY <1>0, <1>1, SockPopped
<1>4. r = [p EXCEPT !.connected = TRUE]
  BY DEF ExecConnect
<1> HIDE DEF p, r
<1>5. s.timers # << >> => r.movie /\ r.flash = "closed"
  BY <1>3, <1>4 DEF SocketOf
<1>6. ~Fires(s, "init") /\ ~Fires(s, "probe")
  BY <1>3 DEF Fires, Setups
<1>7. s.timers # << >> => Over(p) /\ Over(r)
  BY <1>3, <1>5 DEF Over
<1>8. Fires(s, "connect") => s.timers # << >>
  BY DEF Fires
<1> QED
  BY <1>1, <1>2, <1>6, <1>7, <1>8 DEF p, r

-----------------------------------------------------------------------------
(* The wrapper.                                                            *)

WsStates == {"CONNECTING", "OPEN", "CLOSING", "CLOSED"}

WsInv == readyState \in WsStates /\ SockInv(sock, readyState)

\* Once the page has closed, or was told of the end, either the object is no
\* longer live or the movie's socket is gone.
CloseInv == closeCalled \/ closeFired => readyState \notin Live \/ Over(sock)

LEMMA CloseSocketInv ==
  ASSUME NEW s, NEW rs, SockInv(s, rs)
  PROVE  SockInv(CloseSocket(s), rs)
BY SockNetwork DEF CloseSocket

LEMMA CloseSocketOver ==
  ASSUME NEW s \in SocketOf(WsTimer)
  PROVE  /\ MayWrite(s) => Over(CloseSocket(s))
         /\ Over(s) => CloseSocket(s) = s
<1>1. ASSUME MayWrite(s) PROVE Over(CloseSocket(s))
  <2>1. CloseSocket(s) = Close(s) /\ s.movie
    BY <1>1 DEF CloseSocket, MayWrite, AssertConnected
  <2>2. Close(s).movie = s.movie /\ Close(s).flash = "closed"
    BY DEF Close, SocketOf
  <2> QED
    BY <2>1, <2>2 DEF Over
<1>2. ASSUME Over(s) PROVE CloseSocket(s) = s
  BY <1>2 DEF Over, CloseSocket, MayWrite
<1> QED
  BY <1>1, <1>2

\* What a step makes of the socket and of the state, by the kind of step.
WsQuiet == readyState' = readyState /\ closeCalled' = closeCalled /\ closeFired' = closeFired

LEMMA WsAside ==
  ASSUME WsInv, DocumentComplete \/ CallSend \/ UNCHANGED wsVars
  PROVE  WsInv' /\ sock' = sock /\ WsQuiet /\ messages' = messages
<1>1. sock' = sock /\ readyState' = readyState /\ messages' = messages
      /\ closeCalled' = closeCalled /\ closeFired' = closeFired
  BY Zenon DEF DocumentComplete, CallSend, wsVars
<1> QED
  BY <1>1 DEF WsInv, WsQuiet

LEMMA WsPlain ==
  ASSUME WsInv, SetupInterval \/ WsMovie \/ WsNetwork \/ (\E size \in 1..MaxBytes : WsArrives(size))
                \/ WsOnInit \/ WsOnProbe \/ WsOnConnect
  PROVE  WsInv' /\ WsQuiet /\ messages' = messages /\ (Over(sock) => Over(sock'))
<1>0. SockInv(sock, readyState)
  BY DEF WsInv
<1>1. WsQuiet /\ messages' = messages
  BY Zenon DEF SetupInterval, WsMovie, WsNetwork, WsArrives, WsOnInit, WsOnProbe, WsOnConnect,
     OnlySock, WsQuiet
<1>3. ASSUME SetupInterval PROVE SockInv(sock', readyState) /\ ~Over(sock)
  <2>1. MaySetup(sock) /\ sock' = Setup(sock)
    BY <1>3 DEF SetupInterval
  <2> QED
    BY <1>0, <2>1, SockLoads, OverKept
<1>4. ASSUME WsMovie PROVE SockInv(sock', readyState) /\ ~Over(sock)
  <2>1. \/ sock.swf = "loading" /\ sock' = MovieLoaded(sock)
        \/ sock.swf = "loaded" /\ sock' = MovieUsable(sock)
    BY <1>4 DEF WsMovie
  <2> QED
    BY <1>0, <2>1, SockLoads, OverKept
<1>5. ASSUME WsNetwork PROVE SockInv(sock', readyState) /\ ~Over(sock)
  <2>1. \/ sock.flash = "connecting" /\ sock' \in {MovieConnected(sock), MovieError(sock)}
        \/ sock.flash = "open" /\ sock' = MovieClosed(sock)
    BY <1>5 DEF WsNetwork
  <2> QED
    BY <1>0, <2>1, SockNetwork DEF Over
<1>6. ASSUME NEW size \in 1..MaxBytes, WsArrives(size) PROVE SockInv(sock', readyState) /\ ~Over(sock)
  <2>1. size \in Nat \ {0} /\ MaxBytes \in Nat
    BY WebSocketAssumption
  <2>2. sock.flash = "open" /\ sock' = MovieDataAdvanced(sock, size)
    BY <1>6, SMTT(20) DEF WsArrives
  <2> QED
    BY <1>0, <2>1, <2>2, SockArrives DEF Over
<1>7. ASSUME WsOnInit \/ WsOnProbe PROVE SockInv(sock', readyState) /\ ~Over(sock)
  <2>1. \/ Fires(sock, "init") /\ sock' = ExecInit(sock)
        \/ Fires(sock, "probe") /\ sock.swf = "usable" /\ sock' = Connect(ProbeDone(sock))
        \/ Fires(sock, "probe") /\ sock' = ProbeAgain(sock)
    BY <1>7, SMTT(20) DEF WsOnInit, WsOnProbe
  <2> QED
    BY <1>0, <2>1, SockExecuted, OverKept
<1>8. ASSUME WsOnConnect PROVE SockInv(sock', readyState) /\ (Over(sock) => Over(sock'))
  <2>1. Fires(sock, "connect") /\ sock' = ExecConnect(sock)
    BY <1>8 DEF WsOnConnect
  <2> QED
    BY <1>0, <2>1, SockExecuted, OverKept
<1>9. SockInv(sock', readyState) /\ (Over(sock) => Over(sock'))
  BY <1>3, <1>4, <1>5, <1>6, <1>7, <1>8
<1> QED
  BY <1>1, <1>9 DEF WsInv, WsQuiet

LEMMA WsClose ==
  ASSUME WsInv, CallClose \/ (\E handler \in Handlers : DispatchClose(handler))
  PROVE  WsInv' /\ messages' = messages /\ (readyState' \notin Live \/ Over(sock'))
<1>0. SockInv(sock, readyState) /\ readyState \in WsStates
  BY DEF WsInv
<1>1. CASE CallClose
  <2>1. readyState' = "CLOSING" /\ sock' = CloseSocket(sock) /\ messages' = messages
    BY <1>1 DEF CallClose
  <2>2. SockInv(sock', readyState) /\ readyState' \in WsStates /\ readyState' \notin Live
    BY <1>0, <2>1, CloseSocketInv DEF WsStates, Live
  <2>3. SockInv(sock', readyState')
    BY <2>2, SockState
  <2> QED
    BY <2>1, <2>2, <2>3 DEF WsInv
<1>2. ASSUME NEW handler \in Handlers, DispatchClose(handler)
      PROVE  WsInv' /\ messages' = messages /\ (readyState' \notin Live \/ Over(sock'))
  <2>1. \/ Fires(sock, "error") /\ sock' = Popped(sock)
        \/ Fires(sock, "close") /\ sock' = ExecClose(sock)
    BY <1>2, Zenon DEF DispatchClose
  <2>2. readyState' = CASE handler = "returns" -> "CLOSED"
                     [] handler = "throws"  -> readyState
                     [] handler = "closes"  -> "CLOSING"
    BY <1>2, Zenon DEF DispatchClose
  <2>3. readyState' \in {"CLOSED", "CLOSING", readyState}
    BY <2>2 DEF Handlers
  <2>4. messages' = messages
    BY <1>2, Zenon DEF DispatchClose
  <2>5. SockInv(sock', readyState) /\ Over(sock')
    BY <1>0, <2>1, SockExecuted
  <2>6. readyState' \in WsStates /\ (readyState' \in Live => readyState \in Live)
    BY <1>0, <2>3 DEF WsStates, Live
  <2>7. SockInv(sock', readyState')
    BY <2>5, <2>6, SockState
  <2> QED
    BY <2>4, <2>5, <2>6, <2>7 DEF WsInv
<1> QED
  BY <1>1, <1>2

\* A data callback: nothing happens but that it is gone, or the object was live
\* on an open connection, and where the handler closes that is the end of it.
LEMMA WsData ==
  ASSUME WsInv, NEW handler \in Handlers, DispatchOpen(handler) \/ DispatchMessage(handler)
  PROVE  /\ WsInv' /\ closeFired' = closeFired
         /\ \/ WsQuiet /\ messages' = messages /\ (Over(sock) => Over(sock'))
            \/ /\ readyState \in Live /\ ~Over(sock)
               /\ closeCalled' => closeCalled \/ handler = "closes"
               /\ handler = "closes" => readyState' \notin Live \/ Over(sock')
<1>0. SockInv(sock, readyState) /\ readyState \in WsStates
  BY DEF WsInv
<1> DEFINE size == First(sock).data[1]
           now == Read(Popped(sock), size)
<1>1. Fires(sock, "data") /\ sock.timers # << >> /\ closeFired' = closeFired
  <2>1. Fires(sock, "data") /\ closeFired' = closeFired
    BY Zenon DEF DispatchOpen, DispatchMessage
  <2> QED
    BY <2>1 DEF Fires
<1>2. /\ size \in Nat \ {0}
      /\ MayRead(sock, size) => SockInv(now, readyState) /\ MayWrite(now)
      /\ ~MayRead(sock, size) \/ readyState \notin Live => SockInv(Popped(sock), readyState)
  BY <1>0, <1>1, SockData, SMTT(20)
<1>3. Over(sock) => Over(Popped(sock))
  BY <1>0, <1>1, OverKept
<1>4. MayRead(sock, size) => ~Over(sock)
  BY DEF MayRead, MayWrite, Over
<1>5. ASSUME MayRead(sock, size)
      PROVE  /\ SockInv(now, readyState) /\ SockInv(CloseSocket(now), readyState)
             /\ Over(CloseSocket(now))
  <2>1. SockInv(now, readyState) /\ MayWrite(now) /\ now \in SocketOf(WsTimer)
    BY <1>2, <1>5, Zenon DEF SockInv
  <2> HIDE DEF now
  <2> QED
    BY <2>1, CloseSocketInv, CloseSocketOver
<1>6. FrameBytes(size) = size
  BY <1>2 DEF FrameBytes
<1> HIDE DEF now, size
<1>7. CASE DispatchOpen(handler)
  <2>1. CASE ~MayRead(sock, size)
    <3>1. sock' = Popped(sock) /\ readyState' = readyState /\ closeCalled' = closeCalled
          /\ messages' = messages
      BY <1>7, <2>1, Zenon DEF DispatchOpen, size
    <3>2. SockInv(sock', readyState')
      BY <1>2, <2>1, <3>1
    <3> QED
      BY <1>0, <1>1, <1>3, <3>1, <3>2 DEF WsInv, WsQuiet
  <2>2. CASE MayRead(sock, size)
    <3>1. /\ readyState = "CONNECTING"
          /\ sock' = IF handler = "closes" THEN CloseSocket(now) ELSE now
          /\ readyState' = IF handler = "throws" THEN readyState ELSE "OPEN"
          /\ closeCalled' = (closeCalled \/ handler = "closes")
      BY <1>7, <2>2, Zenon DEF DispatchOpen, size, now
    <3>2. readyState' \in WsStates /\ readyState \in Live
      BY <1>0, <3>1 DEF WsStates, Live
    <3>3. SockInv(sock', readyState) /\ (handler = "closes" => Over(sock'))
      BY <1>5, <2>2, <3>1
    <3>4. SockInv(sock', readyState')
      BY <3>2, <3>3, SockState
    <3>5. closeCalled' => closeCalled \/ handler = "closes"
      BY <3>1, Zenon
    <3> QED
      BY <1>1, <1>4, <2>2, <3>2, <3>3, <3>4, <3>5 DEF WsInv
  <2> QED
    BY <2>1, <2>2
<1>8. CASE DispatchMessage(handler)
  <2> DEFINE n2 == Read(Popped(sock), FrameBytes(size))
  <2>1. n2 = now
    BY <1>6, SMTT(20) DEF now
  <2> HIDE DEF n2
  <2>2. CASE ~(readyState = "OPEN" /\ MayRead(sock, size))
    <3>1. sock' = Popped(sock) /\ readyState' = readyState /\ closeCalled' = closeCalled
          /\ messages' = messages /\ readyState # "CONNECTING"
      BY <1>8, <2>2, Zenon DEF DispatchMessage, Delivers, size
    <3>2. ~MayRead(sock, size) \/ readyState \notin Live
      BY <2>2, <3>1 DEF Live
    <3>3. SockInv(sock', readyState')
      BY <1>2, <3>1, <3>2, SMTT(20)
    <3> QED
      BY <1>0, <1>1, <1>3, <3>1, <3>3 DEF WsInv, WsQuiet
  <2>3. CASE readyState = "OPEN" /\ MayRead(sock, size) /\ size < 2
    <3>1. sock' = n2 /\ readyState' = readyState /\ closeCalled' = closeCalled
          /\ messages' = messages
      BY <1>8, <2>3, Zenon DEF DispatchMessage, Delivers, size, n2
    <3>2. SockInv(sock', readyState') /\ ~Over(sock)
      BY <1>4, <1>5, <2>1, <2>3, <3>1
    <3> QED
      BY <1>0, <1>1, <3>1, <3>2 DEF WsInv, WsQuiet
  <2>4. CASE readyState = "OPEN" /\ MayRead(sock, size) /\ ~(size < 2)
    <3>1. /\ sock' = IF handler = "closes" THEN CloseSocket(n2) ELSE n2
          /\ readyState' = IF handler = "closes" THEN "CLOSING" ELSE readyState
          /\ closeCalled' = (closeCalled \/ handler = "closes")
      BY <1>8, <2>4, Zenon DEF DispatchMessage, Delivers, size, n2
    <3>2. /\ readyState' \in WsStates /\ readyState \in Live
          /\ handler = "closes" => readyState' \notin Live
      BY <1>0, <2>4, <3>1 DEF WsStates, Live
    <3>3. SockInv(sock', readyState) /\ ~Over(sock)
      BY <1>4, <1>5, <2>1, <2>4, <3>1
    <3>4. SockInv(sock', readyState')
      BY <3>2, <3>3, SockState
    <3>5. closeCalled' => closeCalled \/ handler = "closes"
      BY <3>1, Zenon
    <3> QED
      BY <1>1, <3>2, <3>3, <3>4, <3>5 DEF WsInv
  <2> QED
    BY <2>2, <2>3, <2>4
<1> QED
  BY <1>7, <1>8

LEMMA NextWsInv ==
  ASSUME WsInv, [WsNext]_wsVars
  PROVE  /\ WsInv'
         /\ CloseInv => CloseInv' /\ (messages' # messages => ~closeCalled /\ ~closeFired)
<1>1. CASE DocumentComplete \/ CallSend \/ UNCHANGED wsVars
  BY <1>1, WsAside DEF CloseInv, WsQuiet
<1>2. CASE SetupInterval \/ WsMovie \/ WsNetwork \/ (\E size \in 1..MaxBytes : WsArrives(size))
           \/ WsOnInit \/ WsOnProbe \/ WsOnConnect
  BY <1>2, WsPlain DEF CloseInv, WsQuiet
<1>3. CASE CallClose \/ (\E handler \in Handlers : DispatchClose(handler))
  BY <1>3, WsClose DEF CloseInv
<1>4. ASSUME NEW handler \in Handlers, DispatchOpen(handler) \/ DispatchMessage(handler)
      PROVE  /\ WsInv'
             /\ CloseInv => CloseInv' /\ (messages' # messages => ~closeCalled /\ ~closeFired)
  <2>1. /\ WsInv' /\ closeFired' = closeFired
        /\ \/ WsQuiet /\ messages' = messages /\ (Over(sock) => Over(sock'))
           \/ /\ readyState \in Live /\ ~Over(sock)
              /\ closeCalled' => closeCalled \/ handler = "closes"
              /\ handler = "closes" => readyState' \notin Live \/ Over(sock')
    BY <1>4, WsData
  <2>2. CASE WsQuiet /\ messages' = messages /\ (Over(sock) => Over(sock'))
    BY <2>1, <2>2 DEF CloseInv, WsQuiet
  <2>3. CASE /\ readyState \in Live /\ ~Over(sock)
             /\ closeCalled' => closeCalled \/ handler = "closes"
             /\ handler = "closes" => readyState' \notin Live \/ Over(sock')
    <3>1. CloseInv => ~closeCalled /\ ~closeFired
      BY <2>3 DEF CloseInv
    <3>2. CloseInv => ~closeFired'
      BY <2>1, <3>1
    <3> QED
      BY <2>1, <2>3, <3>1, <3>2, Zenon DEF CloseInv
  <2> QED
    BY <2>1, <2>2, <2>3
<1> QED
  BY <1>1, <1>2, <1>3, <1>4, Zenon DEF WsNext

LEMMA InitWsInv == WsInit => WsInv /\ CloseInv
<1> SUFFICES ASSUME WsInit PROVE WsInv /\ CloseInv
  OBVIOUS
<1>1. sock \in {NewSocket, Setup(NewSocket)} /\ readyState = "CONNECTING"
  BY Zenon DEF WsInit
<1>2. ~closeCalled /\ ~closeFired
  BY Zenon DEF WsInit
<1>3. SockInv(sock, readyState)
  BY <1>1, SockNew
<1> QED
  BY <1>1, <1>2, <1>3 DEF WsInv, CloseInv, WsStates

LEMMA WsInvBytes == WsInv => BytesAccounted
<1> SUFFICES ASSUME WsInv, sock.flash = "open", readyState \in {"CONNECTING", "OPEN"}
             PROVE  sock.unread = BytesOf(sock.timers)
  BY DEF BytesAccounted
<1> QED
  BY DEF WsInv, SockInv, Over, Live

-----------------------------------------------------------------------------
(* The page: the board and the wrapper side by side.                       *)

PageInv == WInv /\ WbFlags /\ WsInv /\ CloseInv

LEMMA InitPage == Init => PageInv
BY InitWInv, InitWbFlags, InitWsInv, Zenon DEF Init, PageInv

\* A step of the page is a step of each of its parts, or leaves it alone.
LEMMA PageStep == [Next]_vars => [WbNext]_wbVars /\ [WsNext]_wsVars
BY Zenon DEF Next, vars

LEMMA NextPage ==
  ASSUME PageInv, [Next]_vars
  PROVE  /\ PageInv'
         /\ [messages' # messages => ~closeCalled /\ ~closeFired]_wsVars
<1>1. WInv /\ WbFlags /\ WsInv /\ CloseInv
  BY DEF PageInv
<1>2. [WbNext]_wbVars /\ [WsNext]_wsVars
  BY PageStep
<1>3. WInv' /\ WbFlags'
  BY <1>1, <1>2, NextWInv, NextWbFlags, Zenon
<1>4. WsInv' /\ CloseInv' /\ (messages' # messages => ~closeCalled /\ ~closeFired)
  BY <1>1, <1>2, NextWsInv, Zenon
<1> QED
  BY <1>3, <1>4, Zenon DEF PageInv

\* For any pages and any bounds: the flag that jSocket tests before every call
\* agrees with the movie's socket whenever no news of the connection waits in a
\* timer, in the pages of the board and under the wrapper.
THEOREM FlagsTheorem == Spec => []FlagsAgree
<1>1. PageInv => FlagsAgree
  <2> SUFFICES ASSUME PageInv PROVE ConnectedAgrees /\ FlagAgrees(sock)
    BY Zenon DEF FlagsAgree
  <2>1. ConnectedAgrees
    BY WbFlagsAgree, Zenon DEF PageInv
  <2>2. sock \in SocketOf(WsTimer) /\ FlagInv(sock)
    BY Zenon DEF PageInv, WsInv, SockInv
  <2> QED
    BY <2>1, <2>2, FlagInvAgrees
<1> QED
  BY <1>1, InitPage, NextPage, PTL DEF Spec

\* While the wrapper reads what arrives, the movie holds just the bytes that the
\* waiting callbacks announce, for chunks of any size and any number of them.
THEOREM BytesTheorem == Spec => []BytesAccounted
<1>1. PageInv => BytesAccounted
  BY WsInvBytes, Zenon DEF PageInv
<1> QED
  BY <1>1, InitPage, NextPage, PTL DEF Spec

\* The page gets no message once it has closed the wrapper or was told of its
\* end.
THEOREM NoMessageTheorem == Spec => NoMessageAfterClose
BY InitPage, NextPage, PTL DEF Spec, NoMessageAfterClose
=============================================================================
