----------------------------- MODULE ServerProofs ----------------------------
(***************************************************************************)
(* Parts of the server, for all their constants.  The offline store: the   *)
(* ring stays aligned with the sequence numbers, no unacknowledged message *)
(* is lost, the reading loops visit exactly the messages behind the        *)
(* acknowledged position, and the whole implements OfflineLog.  The queue  *)
(* into the main loop: closures are called in the order of their pushes,   *)
(* and none is left in the queue without a byte, a push or a running pop   *)
(* that leads to it.  Sharding: every user has a server, whatever          *)
(* fingerprints collide, and a server added at the end of the list takes   *)
(* users from the others and moves none between them.                      *)
(***************************************************************************)
EXTENDS OfflineStore, EventMsgqueue, Sharding, WellFoundedInduction, TLAPS

-----------------------------------------------------------------------------
(* The offline store.                                                      *)

\* A value below twice the modulus is reduced by at most one subtraction.
LEMMA ModOnce ==
  ASSUME NEW n \in Nat \ {0}, NEW x \in 0 .. 2 * n - 1
  PROVE  x % n = IF x < n THEN x ELSE x - n
<1>1. CASE x < n
  BY <1>1
<1>2. CASE x >= n
  BY <1>2
<1> QED
  BY <1>1, <1>2

\* A value in the second or third period is reduced by one or two
\* subtractions.
LEMMA ModTwice ==
  ASSUME NEW n \in Nat \ {0}, NEW x \in n .. 3 * n - 1
  PROVE  x % n = IF x < 2 * n THEN x - n ELSE x - 2 * n
<1>1. CASE x < 2 * n
  BY <1>1
<1>2. CASE x >= 2 * n
  BY <1>2
<1> QED
  BY <1>1, <1>2

\* What one reading loop visits.
LEMMA SpanIs ==
  ASSUME NEW i \in Nat, NEW j \in Nat, i <= j
  PROVE  /\ Span(i, j) \in Seq(Nat)
         /\ Len(Span(i, j)) = j - i
         /\ \A k \in 1 .. j - i : Span(i, j)[k] = i + k - 1
<1>1. Span(i, j) = [k \in 1 .. j - i |-> i + k - 1]
  BY DEF Span
<1>2. \A k \in 1 .. j - i : i + k - 1 \in Nat
  OBVIOUS
<1> QED
  BY <1>1, <1>2

\* With the acknowledged position inside the log, GetQueueInfo starts at the
\* slot behind it, and its length counts the messages up to the tail.
LEMMA StartPosIs ==
  ASSUME TypeOK, RingAligned
  PROVE  LET d == user_data.head + FetchFrom - user_data.head_seq
         IN  /\ StartPos(user_data) = IF d < Size THEN d ELSE d - Size
             /\ QueueLen(user_data) = user_data.tail_seq - FetchFrom
<1> DEFINE q == user_data
           d == q.head + FetchFrom - q.head_seq
<1>1. /\ q.head \in 0 .. MaxOffline /\ q.tail \in 0 .. MaxOffline
      /\ q.head_seq \in Nat /\ q.tail_seq \in Nat /\ q.ack \in Int
      /\ MaxOffline \in Nat \ {0} /\ Size = MaxOffline + 1
  BY MaxOfflineAssumption DEF TypeOK, Slots, Size
<1>2. /\ FetchFrom \in q.head_seq .. q.tail_seq
      /\ q.tail_seq - q.head_seq \in 0 .. MaxOffline
      /\ q.tail_seq - q.head_seq =
           IF q.head <= q.tail THEN q.tail - q.head ELSE q.tail - q.head + Size
  BY <1>1 DEF RingAligned, FetchFrom, Max2
<1>3. StartPos(q) = IF d < Size THEN d ELSE d - Size
  <2>1. CASE q.ack > q.head_seq
    <3>1. d + Size \in Size .. 3 * Size - 1 /\ d = q.head + q.ack - q.head_seq
      BY <1>1, <1>2, <2>1 DEF FetchFrom, Max2
    <3> DEFINE x == d + Size
    <3>2. x \in Size .. 3 * Size - 1 /\ Size \in Nat \ {0}
      BY <3>1, <1>1
    <3>3. x % Size = IF x < 2 * Size THEN x - Size ELSE x - 2 * Size
      <4> HIDE DEF x
      <4> QED  BY <3>2, ModTwice, Zenon
    <3>4. StartPos(q) = x % Size
      BY <2>1, <3>1 DEF StartPos
    <3> QED
      BY <1>1, <1>2, <3>1, <3>3, <3>4
  <2>2. CASE ~(q.ack > q.head_seq)
    BY <1>1, <2>2 DEF StartPos, FetchFrom, Max2
  <2> QED
    BY <2>1, <2>2
<1>4. QueueLen(q) = q.tail_seq - FetchFrom
  <2> DEFINE x == q.tail + Size - StartPos(q)
  <2>1. x \in 0 .. 2 * Size - 1
    BY <1>1, <1>2, <1>3
  <2>2. x % Size = IF x < Size THEN x ELSE x - Size
    <3> HIDE DEF x
    <3>1. Size \in Nat \ {0}
      BY <1>1
    <3> QED
      BY <2>1, <3>1, ModOnce, Zenon
  <2>3. QueueLen(q) = x % Size
    BY DEF QueueLen
  <2> QED
    BY <1>1, <1>2, <1>3, <2>2, <2>3, SMTT(60)
<1> QED
  BY <1>3, <1>4

\* Two sequences with the same length and the same elements are equal.
LEMMA SeqExtensional ==
  ASSUME NEW S, NEW s \in Seq(S), NEW t \in Seq(S), Len(s) = Len(t),
         \A k \in 1 .. Len(s) : s[k] = t[k]
  PROVE  s = t
OBVIOUS

\* What a concatenation holds.
LEMMA ConcatIs ==
  ASSUME NEW S, NEW s \in Seq(S), NEW t \in Seq(S)
  PROVE  /\ s \o t \in Seq(S)
         /\ Len(s \o t) = Len(s) + Len(t)
         /\ \A k \in 1 .. Len(s) : (s \o t)[k] = s[k]
         /\ \A k \in 1 .. Len(t) : (s \o t)[Len(s) + k] = t[k]
OBVIOUS

\* The reading loops of GetMessages and Dump visit the slots of exactly the
\* messages behind the acknowledged position, oldest first.
LEMMA VisitedIs ==
  ASSUME TypeOK, RingAligned
  PROVE  FetchWindow
<1> DEFINE q == user_data
           n == q.tail_seq - FetchFrom
           d == q.head + FetchFrom - q.head_seq
           start == StartPos(q)
           W == [k \in 1 .. n |-> Pos(FetchFrom + k)]
<1>1. /\ q.head \in 0 .. MaxOffline /\ q.tail \in 0 .. MaxOffline
      /\ q.head_seq \in Nat /\ q.tail_seq \in Nat /\ q.ack \in Int
      /\ MaxOffline \in Nat \ {0} /\ Size = MaxOffline + 1
  BY MaxOfflineAssumption DEF TypeOK, Slots, Size
<1>2. /\ FetchFrom \in q.head_seq .. q.tail_seq
      /\ q.tail_seq - q.head_seq \in 0 .. MaxOffline
      /\ q.tail_seq - q.head_seq =
           IF q.head <= q.tail THEN q.tail - q.head ELSE q.tail - q.head + Size
  BY <1>1 DEF RingAligned, FetchFrom, Max2
<1>3. start = (IF d < Size THEN d ELSE d - Size) /\ QueueLen(q) = n
  BY StartPosIs
<1>4. /\ n \in 0 .. MaxOffline
      /\ start \in 0 .. MaxOffline
      /\ n = IF q.tail < start THEN Size - start + q.tail ELSE q.tail - start
  BY <1>1, <1>2, <1>3
<1>5. \A k \in 1 .. n :
        /\ Pos(FetchFrom + k) =
             IF start + k - 1 < Size THEN start + k - 1 ELSE start + k - 1 - Size
        /\ Pos(FetchFrom + k) \in Nat
  BY <1>1, <1>2, <1>3, <1>4 DEF Pos, PosIn
<1>6. W \in Seq(Nat) /\ Len(W) = n /\ \A k \in 1 .. n : W[k] = Pos(FetchFrom + k)
  BY <1>4, <1>5
<1>7. CASE n = 0
  BY <1>3, <1>6, <1>7 DEF FetchWindow, Visited
<1>8. CASE n # 0 /\ q.tail < start
  <2> DEFINE a == Span(start, Size)
             b == Span(0, q.tail)
             m == Size - start
  <2>1. start \in Nat /\ Size \in Nat /\ start <= Size /\ q.tail \in Nat /\ 0 <= q.tail
    BY <1>1, <1>4
  <2>2. /\ a \in Seq(Nat) /\ Len(a) = m
        /\ \A k \in 1 .. m : a[k] = start + k - 1
    <3> HIDE DEF start
    <3> QED  BY <2>1, SpanIs, Zenon
  <2>3. /\ b \in Seq(Nat) /\ Len(b) = q.tail
        /\ \A k \in 1 .. q.tail : b[k] = k - 1
    <3>1. /\ b \in Seq(Nat) /\ Len(b) = q.tail - 0
          /\ \A k \in 1 .. q.tail - 0 : b[k] = 0 + k - 1
      BY <2>1, SpanIs, Zenon
    <3> QED  BY <2>1, <3>1
  <2>4. Visited(q) = a \o b
    BY <1>3, <1>8 DEF Visited
  <2>5. m \in Nat /\ n = m + q.tail
    BY <1>1, <1>4, <1>8
  <2> HIDE DEF a, b, W, n, start, m
  <2>6. /\ a \o b \in Seq(Nat) /\ Len(a \o b) = m + q.tail
        /\ \A k \in 1 .. m : (a \o b)[k] = a[k]
        /\ \A k \in 1 .. q.tail : (a \o b)[m + k] = b[k]
    <3>1. a \in Seq(Nat) /\ b \in Seq(Nat)
      BY <2>2, <2>3
    <3>2. /\ a \o b \in Seq(Nat) /\ Len(a \o b) = Len(a) + Len(b)
          /\ \A k \in 1 .. Len(a) : (a \o b)[k] = a[k]
          /\ \A k \in 1 .. Len(b) : (a \o b)[Len(a) + k] = b[k]
      BY <3>1, ConcatIs
    <3> QED
      BY <2>2, <2>3, <3>2, Zenon
  <2>7. ASSUME NEW k \in 1 .. n
        PROVE  (a \o b)[k] = W[k]
    <3>1. CASE k <= m
      BY <1>1, <1>4, <1>5, <1>6, <2>2, <2>5, <2>6, <3>1, SMTT(60) DEF m
    <3>2. CASE k > m
      <4>1. k - m \in 1 .. q.tail /\ k = m + (k - m)
        BY <2>1, <2>5, <3>2
      <4>2. (a \o b)[k] = b[k - m] /\ b[k - m] = k - m - 1
        BY <2>3, <2>6, <4>1, Zenon
      <4>3. W[k] = start + k - 1 - Size
        BY <1>1, <1>4, <1>5, <1>6, <3>2 DEF m
      <4> QED
        BY <1>1, <1>4, <4>2, <4>3 DEF m
    <3>3. k <= m \/ k > m
      BY <2>1, <2>5
    <3> QED
      BY <3>1, <3>2, <3>3, Zenon
  <2>8. a \o b = W
    BY <1>6, <2>5, <2>6, <2>7, SeqExtensional, Zenon
  <2> QED
    BY <2>4, <2>8 DEF FetchWindow, W, n
<1>9. CASE n # 0 /\ ~(q.tail < start)
  <2> DEFINE a == Span(start, q.tail)
  <2>1. start \in Nat /\ q.tail \in Nat /\ start <= q.tail /\ n = q.tail - start
    BY <1>1, <1>4, <1>9
  <2>2. /\ a \in Seq(Nat) /\ Len(a) = n
        /\ \A k \in 1 .. n : a[k] = start + k - 1
    <3> HIDE DEF start, n
    <3> QED  BY <2>1, SpanIs, Zenon
  <2>3. Visited(q) = a
    BY <1>3, <1>9 DEF Visited
  <2> HIDE DEF a, W, n, start
  <2>4. \A k \in 1 .. n : a[k] = W[k]
    BY <1>1, <1>4, <1>5, <1>6, <2>1, <2>2
  <2>5. a = W
    BY <1>6, <2>2, <2>4, SeqExtensional
  <2> QED
    BY <2>3, <2>5 DEF FetchWindow, W, n
<1> QED
  BY <1>7, <1>8, <1>9

-----------------------------------------------------------------------------
(* The inductive invariant.  None of its parts is inductive alone: that a   *)
(* save keeps the slots aligned needs the counters to agree, that a restart *)
(* loses nothing needs the reading loops, which need the alignment and the  *)
(* acknowledged position inside the log.                                    *)
IInv == TypeOK /\ RingAligned /\ SeqLockstep /\ UnackedKept

\* The facts about the ring that the arithmetic of every step starts from.
LEMMA RingFacts ==
  ASSUME IInv
  PROVE  /\ user_data.head \in 0 .. MaxOffline
         /\ user_data.tail \in 0 .. MaxOffline
         /\ user_data.head_seq \in Nat /\ user_data.tail_seq \in Nat
         /\ user_data.ack \in Int
         /\ user_data.msg_queue \in [0 .. MaxOffline -> [expire : Int, msg : Nat]]
         /\ MaxOffline \in Nat \ {0} /\ Size = MaxOffline + 1
         /\ user_data.tail_seq - user_data.head_seq =
              IF user_data.head <= user_data.tail
                THEN user_data.tail - user_data.head
                ELSE user_data.tail - user_data.head + Size
         /\ user_data.head_seq =
              IF 0 < user_data.tail_seq - MaxOffline
                THEN user_data.tail_seq - MaxOffline ELSE 0
         /\ NextSeq = user_data.tail_seq + 1
<1>1. TypeOK /\ RingAligned /\ SeqLockstep
  BY DEF IInv
<1>2. MaxOffline \in Nat \ {0} /\ Size = MaxOffline + 1
  BY MaxOfflineAssumption DEF Size
<1>3. /\ user_data.head \in 0 .. MaxOffline
      /\ user_data.tail \in 0 .. MaxOffline
      /\ user_data.head_seq \in Nat /\ user_data.tail_seq \in Nat
      /\ user_data.ack \in Int
      /\ user_data.msg_queue \in [0 .. MaxOffline -> [expire : Int, msg : Nat]]
  BY <1>1 DEF TypeOK, Slots
<1>4. /\ user_data.tail_seq - user_data.head_seq =
           IF user_data.head <= user_data.tail
             THEN user_data.tail - user_data.head
             ELSE user_data.tail - user_data.head + Size
      /\ user_data.head_seq = Max2(0, user_data.tail_seq - MaxOffline)
  BY <1>1 DEF RingAligned
<1>5. NextSeq = user_data.tail_seq + 1
  <2>1. max_seq = -1 \/ max_seq = user_data.tail_seq
    BY <1>1 DEF SeqLockstep, GetMaxSeq
  <2> QED
    BY <1>3, <2>1 DEF NextSeq, GetMaxSeq, Max2
<1> QED
  BY <1>2, <1>3, <1>4, <1>5 DEF Max2

LEMMA InitIInv == Init => IInv
<1> SUFFICES ASSUME Init PROVE IInv
  OBVIOUS
<1>1. user_data = NewUserData
  BY DEF Init
<1>2. TypeOK
  <2>1. NewUserData.msg_queue \in [Slots -> [expire : Int, msg : Nat]]
    BY DEF NewUserData, EmptySlot, NullMsg
  <2>2. 0 \in Slots
    BY MaxOfflineAssumption DEF Slots
  <2>3. user_data \in [head : Slots, head_seq : Nat, tail : Slots, tail_seq : Nat,
                      ack : Int,
                      msg_queue : [Slots -> [expire : Int, msg : Nat]]]
    BY <1>1, <2>1, <2>2 DEF NewUserData
  <2>4. /\ max_seq \in Nat \cup {-1} /\ now \in Nat \ {0} /\ acked \in Nat
        /\ sent \in Seq(Int)
    BY DEF Init
  <2>5. has_info \in BOOLEAN
    BY Zenon DEF Init
  <2> QED
    BY <2>3, <2>4, <2>5 DEF TypeOK
<1>3. RingAligned
  BY <1>1, MaxOfflineAssumption
     DEF RingAligned, NewUserData, Kept, Max2, Size
<1>4. SeqLockstep
  BY <1>1 DEF Init, SeqLockstep, GetMaxSeq, NewUserData
<1>5. UnackedKept
  BY <1>1 DEF Init, UnackedKept, NewUserData, Kept, Max2
<1> QED
  BY <1>2, <1>3, <1>4, <1>5 DEF IInv

\* The arithmetic of AddMessage on the cursors (h, t) and the sequence numbers
\* (hs, ts) of a ring of n + 1 slots; the results carry a 1.
LEMMA AddCursors ==
  ASSUME NEW n \in Nat \ {0}, NEW h \in 0 .. n, NEW t \in 0 .. n,
         NEW hs \in Nat, NEW ts \in Nat,
         ts - hs = IF h <= t THEN t - h ELSE t - h + (n + 1),
         hs = IF 0 < ts - n THEN ts - n ELSE 0,
         NEW h1, NEW t1, NEW hs1,
         t1 = IF t = n THEN 0 ELSE t + 1,
         h1 = IF t1 = h THEN (IF h = n THEN 0 ELSE h + 1) ELSE h,
         hs1 = IF t1 = h THEN hs + 1 ELSE hs
  PROVE  /\ (ts + 1) - hs1 = IF h1 <= t1 THEN t1 - h1 ELSE t1 - h1 + (n + 1)
         /\ hs1 = IF 0 < (ts + 1) - n THEN (ts + 1) - n ELSE 0
         /\ h1 \in 0 .. n /\ t1 \in 0 .. n /\ hs1 \in Nat
OBVIOUS

\* Where the same step leaves the numbers: the new one at the old tail, the
\* others at the slot they had, which is not the old tail.
LEMMA AddPositions ==
  ASSUME NEW n \in Nat \ {0}, NEW h \in 0 .. n, NEW t \in 0 .. n,
         NEW hs \in Nat, NEW ts \in Nat,
         ts - hs = IF h <= t THEN t - h ELSE t - h + (n + 1),
         NEW h1, NEW t1, NEW hs1,
         t1 = IF t = n THEN 0 ELSE t + 1,
         h1 = IF t1 = h THEN (IF h = n THEN 0 ELSE h + 1) ELSE h,
         hs1 = IF t1 = h THEN hs + 1 ELSE hs,
         NEW s \in hs1 + 1 .. ts + 1,
         NEW p, p = IF h + s - hs - 1 < n + 1
                      THEN h + s - hs - 1 ELSE (h + s - hs - 1) - (n + 1),
         NEW p1, p1 = IF h1 + s - hs1 - 1 < n + 1
                        THEN h1 + s - hs1 - 1 ELSE (h1 + s - hs1 - 1) - (n + 1)
  PROVE  IF s = ts + 1 THEN p1 = t
         ELSE s \in hs + 1 .. ts /\ p1 = p /\ p # t /\ p \in 0 .. n
OBVIOUS

LEMMA PosInIs ==
  ASSUME NEW q, NEW s
  PROVE  PosIn(q, s) = IF q.head + s - q.head_seq - 1 < MaxOffline + 1
                         THEN q.head + s - q.head_seq - 1
                         ELSE (q.head + s - q.head_seq - 1) - (MaxOffline + 1)
BY Zenon DEF PosIn, Size

LEMMA AdvanceIs ==
  ASSUME NEW i \in 0 .. MaxOffline
  PROVE  Advance(i) = IF i = MaxOffline THEN 0 ELSE i + 1
BY MaxOfflineAssumption DEF Advance, Size

\* The expiry a message is saved with.
Expiry(ttl) == IF ttl <= 0 THEN 0 ELSE now + ttl

\* What saving a message does to the ring.
LEMMA SendSaveIs ==
  ASSUME IInv, NEW ttl \in Ttls, SendSave(ttl)
  PROVE  LET q == user_data
             r == user_data'
             n == MaxOffline
         IN  /\ r.tail = IF q.tail = n THEN 0 ELSE q.tail + 1
             /\ r.head = IF r.tail = q.head
                           THEN (IF q.head = n THEN 0 ELSE q.head + 1) ELSE q.head
             /\ r.head_seq = IF r.tail = q.head THEN q.head_seq + 1 ELSE q.head_seq
             /\ r.tail_seq = q.tail_seq + 1
             /\ r.ack = IF r.tail = q.head /\ q.ack < q.head_seq + 1
                          THEN q.head_seq + 1 ELSE q.ack
             /\ r.msg_queue = [q.msg_queue EXCEPT ![q.tail] =
                                 [expire |-> Expiry(ttl), msg |-> q.tail_seq + 1]]
             /\ r.tail_seq - r.head_seq =
                  IF r.head <= r.tail THEN r.tail - r.head ELSE r.tail - r.head + (n + 1)
             /\ r.head_seq = IF 0 < r.tail_seq - n THEN r.tail_seq - n ELSE 0
             /\ r.head \in 0 .. n /\ r.tail \in 0 .. n /\ r.head_seq \in Nat
<1> DEFINE q == user_data
           r == user_data'
           n == MaxOffline
           e == Expiry(ttl)
<1>1. /\ ttl \in Int /\ now \in Nat \ {0} /\ e \in Int
      /\ sent \in Seq(Int) /\ acked \in Nat
  BY OfflineStoreAssumption DEF IInv, TypeOK, Expiry
<1>2. /\ q.head \in 0 .. n /\ q.tail \in 0 .. n
      /\ q.head_seq \in Nat /\ q.tail_seq \in Nat /\ q.ack \in Int
      /\ n \in Nat \ {0} /\ Size = n + 1
      /\ q.tail_seq - q.head_seq =
           IF q.head <= q.tail THEN q.tail - q.head ELSE q.tail - q.head + (n + 1)
      /\ q.head_seq = IF 0 < q.tail_seq - n THEN q.tail_seq - n ELSE 0
  BY RingFacts
<1>3. q.msg_queue \in [0 .. n -> [expire : Int, msg : Nat]]
  BY RingFacts
<1>4. /\ max_seq' = q.tail_seq + 1 /\ sent' = Append(sent, e)
      /\ acked' = acked /\ now' = now /\ has_info' = TRUE
      /\ user_data' = AddMessage(user_data, q.tail_seq + 1, ttl, now)
  BY RingFacts DEF SendSave, Expiry
<1>5. /\ r.tail = Advance(q.tail)
      /\ r.head = IF r.tail = q.head THEN Advance(q.head) ELSE q.head
      /\ r.head_seq = IF r.tail = q.head THEN q.head_seq + 1 ELSE q.head_seq
      /\ r.tail_seq = q.tail_seq + 1
      /\ r.ack = IF r.tail = q.head /\ q.ack < q.head_seq + 1
                   THEN q.head_seq + 1 ELSE q.ack
      /\ r.msg_queue = [q.msg_queue EXCEPT ![q.tail] =
                          [expire |-> e, msg |-> q.tail_seq + 1]]
  BY <1>4 DEF AddMessage, Expiry
<1>6. /\ r.tail = IF q.tail = n THEN 0 ELSE q.tail + 1
      /\ r.head = IF r.tail = q.head
                    THEN (IF q.head = n THEN 0 ELSE q.head + 1) ELSE q.head
      /\ r.head_seq = IF r.tail = q.head THEN q.head_seq + 1 ELSE q.head_seq
  BY <1>2, <1>5, AdvanceIs
<1>7. /\ (q.tail_seq + 1) - r.head_seq =
           IF r.head <= r.tail THEN r.tail - r.head ELSE r.tail - r.head + (n + 1)
      /\ r.head_seq = IF 0 < (q.tail_seq + 1) - n THEN (q.tail_seq + 1) - n ELSE 0
      /\ r.head \in 0 .. n /\ r.tail \in 0 .. n /\ r.head_seq \in Nat
  <2> DEFINE h == q.head  t == q.tail  hs == q.head_seq  ts == q.tail_seq
             h1 == r.head  t1 == r.tail  hs1 == r.head_seq
  <2>1. /\ h \in 0 .. n /\ t \in 0 .. n /\ hs \in Nat /\ ts \in Nat
        /\ n \in Nat \ {0}
        /\ ts - hs = IF h <= t THEN t - h ELSE t - h + (n + 1)
        /\ hs = IF 0 < ts - n THEN ts - n ELSE 0
    BY <1>2
  <2>2. /\ t1 = IF t = n THEN 0 ELSE t + 1
        /\ h1 = IF t1 = h THEN (IF h = n THEN 0 ELSE h + 1) ELSE h
        /\ hs1 = IF t1 = h THEN hs + 1 ELSE hs
    BY <1>6
  <2> HIDE DEF n, h, t, hs, ts, h1, t1, hs1
  <2>3. /\ (ts + 1) - hs1 = IF h1 <= t1 THEN t1 - h1 ELSE t1 - h1 + (n + 1)
        /\ hs1 = IF 0 < (ts + 1) - n THEN (ts + 1) - n ELSE 0
        /\ h1 \in 0 .. n /\ t1 \in 0 .. n /\ hs1 \in Nat
    BY <2>1, <2>2, AddCursors
  <2> QED
    BY <2>3 DEF h, t, hs, ts, h1, t1, hs1
<1> QED
  BY <1>5, <1>6, <1>7

\* The new number takes the slot under the tail, every other kept number stays
\* where it is.
LEMMA SendSaveSlots ==
  ASSUME IInv, NEW ttl \in Ttls, SendSave(ttl), NEW s \in Kept'
  PROVE  \/ /\ s = user_data.tail_seq + 1
            /\ user_data'.msg_queue[Pos(s)'] = [expire |-> Expiry(ttl), msg |-> s]
         \/ /\ s \in Kept
            /\ user_data'.msg_queue[Pos(s)'] = user_data.msg_queue[Pos(s)]
<1> DEFINE q == user_data
           r == user_data'
           n == MaxOffline
           e == Expiry(ttl)
<1>1. /\ q.head \in 0 .. n /\ q.tail \in 0 .. n
      /\ q.head_seq \in Nat /\ q.tail_seq \in Nat /\ q.ack \in Int
      /\ n \in Nat \ {0} /\ Size = n + 1
      /\ q.tail_seq - q.head_seq =
           IF q.head <= q.tail THEN q.tail - q.head ELSE q.tail - q.head + (n + 1)
      /\ q.head_seq = IF 0 < q.tail_seq - n THEN q.tail_seq - n ELSE 0
  BY RingFacts
<1>2. q.msg_queue \in [0 .. n -> [expire : Int, msg : Nat]]
  BY RingFacts
<1>3. /\ r.tail_seq = q.tail_seq + 1
      /\ r.msg_queue = [q.msg_queue EXCEPT ![q.tail] =
                          [expire |-> e, msg |-> q.tail_seq + 1]]
  BY SendSaveIs
<1>4. /\ r.tail = IF q.tail = n THEN 0 ELSE q.tail + 1
      /\ r.head = IF r.tail = q.head
                    THEN (IF q.head = n THEN 0 ELSE q.head + 1) ELSE q.head
      /\ r.head_seq = IF r.tail = q.head THEN q.head_seq + 1 ELSE q.head_seq
  BY SendSaveIs, Zenon
<1>5. s \in r.head_seq + 1 .. q.tail_seq + 1
  BY <1>3 DEF Kept
<1>6. Pos(s) = IF q.head + s - q.head_seq - 1 < n + 1
                 THEN q.head + s - q.head_seq - 1
                 ELSE (q.head + s - q.head_seq - 1) - (n + 1)
  BY <1>1, <1>5 DEF Pos, PosIn
<1>7. Pos(s)' = IF r.head + s - r.head_seq - 1 < n + 1
                  THEN r.head + s - r.head_seq - 1
                  ELSE (r.head + s - r.head_seq - 1) - (n + 1)
  <2>1. Pos(s)' = PosIn(r, s)
    BY Zenon DEF Pos
  <2>2. PosIn(r, s) = IF r.head + s - r.head_seq - 1 < n + 1
                        THEN r.head + s - r.head_seq - 1
                        ELSE (r.head + s - r.head_seq - 1) - (n + 1)
    BY PosInIs, Zenon
  <2> QED
    BY <2>1, <2>2, Zenon
<1> DEFINE p == Pos(s)
           p1 == Pos(s)'
           h == q.head  t == q.tail  hs == q.head_seq  ts == q.tail_seq
           h1 == r.head  t1 == r.tail  hs1 == r.head_seq
<1>8. IF s = q.tail_seq + 1 THEN p1 = q.tail
      ELSE /\ s \in q.head_seq + 1 .. q.tail_seq
           /\ p1 = p /\ p # q.tail /\ p \in 0 .. n
  <2>1. /\ h \in 0 .. n /\ t \in 0 .. n /\ hs \in Nat /\ ts \in Nat
        /\ n \in Nat \ {0}
        /\ ts - hs = IF h <= t THEN t - h ELSE t - h + (n + 1)
    BY <1>1
  <2>2. /\ t1 = IF t = n THEN 0 ELSE t + 1
        /\ h1 = IF t1 = h THEN (IF h = n THEN 0 ELSE h + 1) ELSE h
        /\ hs1 = IF t1 = h THEN hs + 1 ELSE hs
    BY <1>4
  <2>3. /\ s \in hs1 + 1 .. ts + 1
        /\ p = IF h + s - hs - 1 < n + 1
                 THEN h + s - hs - 1 ELSE (h + s - hs - 1) - (n + 1)
        /\ p1 = IF h1 + s - hs1 - 1 < n + 1
                  THEN h1 + s - hs1 - 1 ELSE (h1 + s - hs1 - 1) - (n + 1)
    BY <1>5, <1>6, <1>7
  <2> HIDE DEF n, h, t, hs, ts, h1, t1, hs1, p, p1
  <2>4. IF s = ts + 1 THEN p1 = t
        ELSE s \in hs + 1 .. ts /\ p1 = p /\ p # t /\ p \in 0 .. n
    BY <2>1, <2>2, <2>3, AddPositions
  <2> QED
    BY <2>4 DEF h, t, hs, ts
<1>9. CASE s = q.tail_seq + 1
  BY <1>1, <1>2, <1>3, <1>8, <1>9
<1>10. CASE s # q.tail_seq + 1
  <2>1. s \in Kept
    BY <1>8, <1>10 DEF Kept
  <2> QED
    BY <1>2, <1>3, <1>8, <1>10, <2>1
<1> QED
  BY <1>9, <1>10, Zenon
\* Saving a message keeps the invariant.
LEMMA SendSaveIInv ==
  ASSUME IInv, NEW ttl \in Ttls, SendSave(ttl)
  PROVE  IInv'
<1> DEFINE q == user_data
           r == user_data'
           n == MaxOffline
           e == Expiry(ttl)
<1>1. /\ ttl \in Int /\ now \in Nat \ {0} /\ e \in Int
      /\ sent \in Seq(Int) /\ acked \in Nat
  BY OfflineStoreAssumption DEF IInv, TypeOK, Expiry
<1>2. /\ q.head \in 0 .. n /\ q.tail \in 0 .. n
      /\ q.head_seq \in Nat /\ q.tail_seq \in Nat /\ q.ack \in Int
      /\ n \in Nat \ {0} /\ Size = n + 1
      /\ q.tail_seq - q.head_seq =
           IF q.head <= q.tail THEN q.tail - q.head ELSE q.tail - q.head + (n + 1)
      /\ q.head_seq = IF 0 < q.tail_seq - n THEN q.tail_seq - n ELSE 0
  BY RingFacts
<1>3. q.msg_queue \in [0 .. n -> [expire : Int, msg : Nat]]
  BY RingFacts
<1>4. /\ max_seq' = q.tail_seq + 1 /\ sent' = Append(sent, e)
      /\ acked' = acked /\ now' = now /\ has_info' = TRUE
      /\ user_data' = AddMessage(user_data, q.tail_seq + 1, ttl, now)
  BY RingFacts DEF SendSave, Expiry
<1>5. /\ r.tail_seq = q.tail_seq + 1
      /\ r.ack = IF r.tail = q.head /\ q.ack < q.head_seq + 1
                   THEN q.head_seq + 1 ELSE q.ack
      /\ r.msg_queue = [q.msg_queue EXCEPT ![q.tail] =
                          [expire |-> e, msg |-> q.tail_seq + 1]]
  BY SendSaveIs
<1>6. /\ r.tail = IF q.tail = n THEN 0 ELSE q.tail + 1
      /\ r.head = IF r.tail = q.head
                    THEN (IF q.head = n THEN 0 ELSE q.head + 1) ELSE q.head
      /\ r.head_seq = IF r.tail = q.head THEN q.head_seq + 1 ELSE q.head_seq
  BY SendSaveIs, Zenon
<1>7. /\ r.tail_seq - r.head_seq =
           IF r.head <= r.tail THEN r.tail - r.head ELSE r.tail - r.head + (n + 1)
      /\ r.head_seq = IF 0 < r.tail_seq - n THEN r.tail_seq - n ELSE 0
      /\ r.head \in 0 .. n /\ r.tail \in 0 .. n /\ r.head_seq \in Nat
  BY SendSaveIs, Zenon
<1>8. r.ack \in Int /\ r.tail_seq \in Nat
  BY <1>2, <1>5
<1>9. r.msg_queue \in [0 .. n -> [expire : Int, msg : Nat]]
  <2>1. [expire |-> e, msg |-> q.tail_seq + 1] \in [expire : Int, msg : Nat]
    BY <1>1, <1>2
  <2> HIDE DEF q, r, n, e
  <2> QED
    BY <1>3, <1>5, <2>1, Zenon
<1>10. TypeOK'
  <2>1. user_data' \in [head : Slots, head_seq : Nat, tail : Slots, tail_seq : Nat,
                        ack : Int,
                        msg_queue : [Slots -> [expire : Int, msg : Nat]]]
    BY <1>4, <1>7, <1>8, <1>9 DEF AddMessage, Slots
  <2>2. sent' \in Seq(Int) /\ max_seq' \in Nat
    BY <1>1, <1>2, <1>4
  <2> QED
    BY <1>1, <1>4, <2>1, <2>2 DEF TypeOK
<1>11. \A s \in Kept' :
         \/ s = q.tail_seq + 1 /\ r.msg_queue[Pos(s)'] = [expire |-> e, msg |-> s]
         \/ s \in Kept /\ r.msg_queue[Pos(s)'] = q.msg_queue[Pos(s)]
  BY SendSaveSlots
<1>12. RingAligned'
  <2>1. r.ack <= r.tail_seq
    <3>1. q.ack <= q.tail_seq
      BY DEF IInv, RingAligned
    <3> QED
      BY <1>2, <1>5, <1>6, <1>7, <3>1
  <2>2. ASSUME NEW s \in Kept'
        PROVE  r.msg_queue[Pos(s)'].msg \in {s, NullMsg}
    <3>1. CASE r.msg_queue[Pos(s)'] = [expire |-> e, msg |-> s]
      BY <3>1
    <3>2. CASE s \in Kept /\ r.msg_queue[Pos(s)'] = q.msg_queue[Pos(s)]
      BY <3>2 DEF IInv, RingAligned
    <3> QED
      BY <1>11, <3>1, <3>2
  <2>3. /\ r.tail_seq - r.head_seq =
             IF r.head <= r.tail THEN r.tail - r.head ELSE r.tail - r.head + Size
        /\ r.head_seq = Max2(0, r.tail_seq - MaxOffline)
    BY <1>2, <1>5, <1>7 DEF Max2
  <2> QED
    BY <2>1, <2>2, <2>3 DEF RingAligned, Size
<1>13. Len(sent) = q.tail_seq
  BY DEF IInv, SeqLockstep, GetMaxSeq
<1>14. SeqLockstep'
  <2>1. Len(sent') = q.tail_seq + 1
    BY <1>1, <1>4, <1>13
  <2> QED
    BY <1>4, <1>5, <2>1 DEF SeqLockstep, GetMaxSeq
<1>15. UnackedKept'
  <2>1. r.ack <= Max2(acked', r.head_seq)
    <3>1. q.ack <= Max2(acked, q.head_seq)
      BY DEF IInv, UnackedKept
    <3>2. CASE r.tail = q.head
      <4>1. /\ r.head_seq = q.head_seq + 1 /\ acked' = acked
            /\ r.ack = IF q.ack < q.head_seq + 1 THEN q.head_seq + 1 ELSE q.ack
        BY <1>4, <1>5, <1>6, <3>2
      <4>2. q.ack \in Int /\ q.head_seq \in Nat /\ acked \in Nat
        BY <1>1, <1>2
      <4> QED
        BY <3>1, <4>1, <4>2 DEF Max2
    <3>3. CASE r.tail # q.head
      <4>1. r.ack = q.ack /\ r.head_seq = q.head_seq /\ acked' = acked
        BY <1>4, <1>5, <1>6, <3>3
      <4> QED
        BY <3>1, <4>1 DEF Max2
    <3> QED
      BY <3>2, <3>3
  <2>2. ASSUME NEW s \in Kept', s > acked', sent'[s] <= 0 \/ now' < sent'[s]
        PROVE  r.msg_queue[Pos(s)'] = [expire |-> sent'[s], msg |-> s]
    <3>1. CASE s = q.tail_seq + 1 /\ r.msg_queue[Pos(s)'] = [expire |-> e, msg |-> s]
      <4>1. sent'[s] = e
        BY <1>1, <1>4, <1>13, <3>1
      <4> QED
        BY <3>1, <4>1
    <3>2. CASE s \in Kept /\ r.msg_queue[Pos(s)'] = q.msg_queue[Pos(s)]
      <4>1. s \in 1 .. Len(sent)
        BY <1>2, <1>13, <3>2 DEF Kept
      <4>2. sent'[s] = sent[s]
        BY <1>1, <1>4, <4>1
      <4>3. s > acked /\ (sent[s] <= 0 \/ now < sent[s])
        BY <1>4, <2>2, <4>2, Zenon
      <4>4. q.msg_queue[Pos(s)] = [expire |-> sent[s], msg |-> s]
        BY <3>2, <4>3 DEF IInv, UnackedKept
      <4> QED
        BY <3>2, <4>2, <4>4
    <3> QED
      BY <1>11, <3>1, <3>2, Zenon
  <2> QED
    BY <2>1, <2>2 DEF UnackedKept
<1> QED
  BY <1>10, <1>12, <1>14, <1>15 DEF IInv

\* An acknowledgement changes nothing but the acknowledged position, and a
\* higher acknowledged number only frees messages from the promise.
LEMMA UpdateUserAckIInv ==
  ASSUME IInv, NEW a \in -1 .. GetMaxSeq(user_data), UpdateUserAck(a)
  PROVE  IInv'
<1> DEFINE q == user_data
           r == user_data'
<1>1. /\ TypeOK /\ RingAligned /\ SeqLockstep /\ UnackedKept
  BY DEF IInv
<1>2. /\ q.tail_seq \in Nat /\ q.head_seq \in Nat /\ acked \in Nat
      /\ a \in Int /\ a <= q.tail_seq
  BY <1>1 DEF TypeOK, GetMaxSeq
<1>3. /\ r = [q EXCEPT !.ack = a]
      /\ acked' = Max2(acked, a) /\ max_seq' = max_seq /\ now' = now
      /\ sent' = sent /\ has_info' = has_info
  BY DEF UpdateUserAck, SetAck
<1>4. /\ r.head = q.head /\ r.head_seq = q.head_seq /\ r.tail = q.tail
      /\ r.tail_seq = q.tail_seq /\ r.msg_queue = q.msg_queue /\ r.ack = a
  BY <1>1, <1>3 DEF TypeOK
<1>5. TypeOK'
  <2>1. acked' \in Nat
    BY <1>2, <1>3 DEF Max2
  <2>2. r \in [head : Slots, head_seq : Nat, tail : Slots, tail_seq : Nat,
               ack : Int, msg_queue : [Slots -> [expire : Int, msg : Nat]]]
    BY <1>1, <1>2, <1>3, Zenon DEF TypeOK
  <2> QED
    BY <1>1, <1>3, <2>1, <2>2, Zenon DEF TypeOK
<1>6. Kept' = Kept /\ \A s : Pos(s)' = Pos(s)
  BY <1>4 DEF Kept, Pos, PosIn
<1>7. RingAligned'
  BY <1>1, <1>2, <1>4, <1>6 DEF RingAligned
<1>8. SeqLockstep'
  BY <1>1, <1>3, <1>4 DEF SeqLockstep, GetMaxSeq
<1>9. UnackedKept'
  <2>1. r.ack <= Max2(acked', r.head_seq)
    BY <1>2, <1>3, <1>4 DEF Max2
  <2>2. ASSUME NEW s \in Kept', s > acked', sent'[s] <= 0 \/ now' < sent'[s]
        PROVE  r.msg_queue[Pos(s)'] = [expire |-> sent'[s], msg |-> s]
    <3>1. s \in Kept /\ s > acked
      BY <1>2, <1>3, <1>6, <2>2 DEF Max2, Kept
    <3>2. q.msg_queue[Pos(s)] = [expire |-> sent[s], msg |-> s]
      BY <1>1, <1>3, <2>2, <3>1 DEF UnackedKept
    <3> QED
      BY <1>3, <1>4, <1>6, <3>2
  <2> QED
    BY <2>1, <2>2 DEF UnackedKept
<1> QED
  BY <1>5, <1>7, <1>8, <1>9 DEF IInv

\* Steps that read the ring, or let time pass: an expired message leaves the
\* promise, none enters it.
LEMMA ReadIInv ==
  ASSUME IInv, has_info' \in BOOLEAN, now' \in Nat \ {0}, now <= now',
         UNCHANGED <<max_seq, user_data, sent, acked>>
  PROVE  IInv'
<1>1. TypeOK /\ RingAligned /\ SeqLockstep /\ UnackedKept
  BY DEF IInv
<1>2. TypeOK'
  BY <1>1 DEF TypeOK
<1>3. Kept' = Kept /\ \A s : Pos(s)' = Pos(s)
  BY DEF Kept, Pos, PosIn
<1>4. RingAligned' /\ SeqLockstep'
  BY <1>1, <1>3 DEF RingAligned, SeqLockstep, GetMaxSeq
<1>5. UnackedKept'
  <2>1. ASSUME NEW s \in Kept', s > acked', sent'[s] <= 0 \/ now' < sent'[s]
        PROVE  user_data'.msg_queue[Pos(s)'] = [expire |-> sent'[s], msg |-> s]
    <3>1. s \in 1 .. Len(sent) /\ s \in Kept
      BY <1>1, <1>3 DEF Kept, SeqLockstep, GetMaxSeq, TypeOK
    <3>2. sent[s] \in Int /\ now \in Int
      BY <1>1, <3>1 DEF TypeOK
    <3>3. s > acked /\ (sent[s] <= 0 \/ now < sent[s])
      BY <2>1, <3>2
    <3>4. user_data.msg_queue[Pos(s)] = [expire |-> sent[s], msg |-> s]
      BY <1>1, <3>1, <3>3 DEF UnackedKept
    <3> QED
      BY <1>3, <3>4
  <2> QED
    BY <1>1, <2>1 DEF UnackedKept
<1> QED
  BY <1>2, <1>4, <1>5 DEF IInv

\* Kept numbers have slots of their own.
LEMMA KeptSlots ==
  ASSUME IInv
  PROVE  /\ \A s \in Kept : Pos(s) \in Slots /\ s \in Nat \ {0}
         /\ \A s, t \in Kept : Pos(s) = Pos(t) => s = t
<1>1. /\ user_data.head \in 0 .. MaxOffline /\ user_data.tail \in 0 .. MaxOffline
      /\ user_data.head_seq \in Nat /\ user_data.tail_seq \in Nat
      /\ Size = MaxOffline + 1 /\ MaxOffline \in Nat \ {0}
      /\ user_data.tail_seq - user_data.head_seq =
           IF user_data.head <= user_data.tail THEN user_data.tail - user_data.head
           ELSE user_data.tail - user_data.head + Size
  BY RingFacts
<1> QED
  BY <1>1 DEF Kept, Pos, PosIn, Slots

\* The slots that the reading loops visit, and what a dump and a load make of
\* the ring.
ReadBack == {Visited(user_data)[k] : k \in DOMAIN Visited(user_data)}

Reloaded ==
  [i \in Slots |-> IF i \in ReadBack /\ IsMsgOK(user_data.msg_queue[i], now)
                     THEN user_data.msg_queue[i] ELSE EmptySlot]

\* A user that never got a message comes back as a new one.
LEMMA RestartNew ==
  ASSUME Restart, user_data.tail_seq = 0
  PROVE  user_data' = NewUserData
<1>1. user_data' = [NewUserData EXCEPT !.msg_queue = [i \in Slots |-> EmptySlot]]
  BY DEF Restart, Load, Dump
<1> QED
  BY <1>1 DEF NewUserData

LEMMA RestartIs ==
  ASSUME TypeOK, Restart, user_data.tail_seq # 0
  PROVE  LET q == user_data
             r == user_data'
         IN  /\ r = [q EXCEPT !.msg_queue = Reloaded]
             /\ r.head = q.head /\ r.head_seq = q.head_seq /\ r.tail = q.tail
             /\ r.tail_seq = q.tail_seq /\ r.ack = q.ack /\ r.msg_queue = Reloaded
<1> DEFINE q == user_data
           live == {i \in ReadBack : IsMsgOK(q.msg_queue[i], now)}
<1>1. Dump(q, now) = [cursors |-> [q EXCEPT !.msg_queue = NewUserData.msg_queue],
                      msgs    |-> [i \in live |-> q.msg_queue[i]]]
  BY DEF Dump, ReadBack
<1>2. Dump(q, now).cursors = [q EXCEPT !.msg_queue = NewUserData.msg_queue]
  BY <1>1
<1>3. Dump(q, now).msgs = [i \in live |-> q.msg_queue[i]]
  BY <1>1
<1>4. Reloaded = [i \in Slots |-> IF i \in DOMAIN Dump(q, now).msgs
                                   THEN Dump(q, now).msgs[i] ELSE EmptySlot]
  BY <1>3 DEF Reloaded
<1> HIDE DEF live
<1>5. Load(Dump(q, now)) = [[q EXCEPT !.msg_queue = NewUserData.msg_queue]
                              EXCEPT !.msg_queue = Reloaded]
  BY <1>2, <1>4 DEF Load
<1>6. user_data' = [q EXCEPT !.msg_queue = Reloaded]
  BY <1>5, Zenon DEF TypeOK, Restart
<1> QED
  BY <1>6 DEF TypeOK

\* The loops visit the slots of the messages behind the acknowledged position.
LEMMA ReadBackIs ==
  ASSUME IInv, NEW s \in Kept
  PROVE  Pos(s) \in ReadBack <=> s > user_data.ack
<1> DEFINE q == user_data
           v == Visited(q)
           n == q.tail_seq - FetchFrom
<1>1. TypeOK /\ RingAligned /\ FetchWindow
  BY VisitedIs DEF IInv
<1>2. /\ q.head_seq \in Nat /\ q.tail_seq \in Nat /\ q.ack \in Int
      /\ FetchFrom = (IF q.ack < q.head_seq THEN q.head_seq ELSE q.ack)
      /\ q.ack <= q.tail_seq /\ q.head_seq <= q.tail_seq
  BY <1>1, RingFacts DEF RingAligned, FetchFrom, Max2
<1>3. s \in Nat /\ s > q.head_seq /\ s <= q.tail_seq
  BY <1>2 DEF Kept
<1>4. DOMAIN v = 1..n /\ \A k \in 1..n : v[k] = Pos(FetchFrom + k)
  BY <1>1 DEF FetchWindow
<1> HIDE DEF v
<1>5. ASSUME s > q.ack PROVE Pos(s) \in ReadBack
  <2>1. s - FetchFrom \in 1..n /\ FetchFrom + (s - FetchFrom) = s
    BY <1>2, <1>3, <1>5
  <2>2. s - FetchFrom \in DOMAIN v /\ v[s - FetchFrom] = Pos(s)
    BY <1>4, <2>1
  <2> QED
    BY <2>2 DEF ReadBack, v
<1>6. ASSUME Pos(s) \in ReadBack PROVE s > q.ack
  <2>1. PICK k \in DOMAIN v : v[k] = Pos(s)
    BY <1>6 DEF ReadBack, v
  <2>2. k \in 1..n /\ Pos(FetchFrom + k) = Pos(s)
    BY <1>4, <2>1
  <2>3. FetchFrom + k \in Kept
    BY <1>2, <2>2 DEF Kept
  <2>4. s = FetchFrom + k
    BY <2>2, <2>3, KeptSlots
  <2> QED
    BY <1>2, <2>2, <2>4
<1> QED
  BY <1>5, <1>6

\* A restart keeps the cursors and, among the slots, the ones the reading
\* loops visit; the loops visit every message the promise is about.
LEMMA RestartIInv ==
  ASSUME IInv, Restart
  PROVE  IInv'
<1> DEFINE q == user_data
           r == user_data'
<1>1. TypeOK /\ RingAligned /\ SeqLockstep /\ UnackedKept
  BY DEF IInv
<1>2. /\ has_info' = FALSE /\ max_seq' = -1 /\ now' = now /\ sent' = sent
      /\ acked' = acked
  BY DEF Restart
<1>3. CASE q.tail_seq = 0
  <2>1. r = NewUserData
    BY <1>3, RestartNew
  <2>2. /\ r.head = 0 /\ r.head_seq = 0 /\ r.tail = 0 /\ r.tail_seq = 0
        /\ r.ack = 0
    BY <2>1 DEF NewUserData
  <2>3. TypeOK'
    <3>1. 0 \in Slots /\ NewUserData.msg_queue \in [Slots -> [expire : Int, msg : Nat]]
      BY MaxOfflineAssumption DEF Slots, NewUserData, EmptySlot, NullMsg
    <3>2. r \in [head : Slots, head_seq : Nat, tail : Slots, tail_seq : Nat,
                 ack : Int, msg_queue : [Slots -> [expire : Int, msg : Nat]]]
      BY <2>1, <3>1 DEF NewUserData
    <3> QED
      BY <1>1, <1>2, <3>2, Zenon DEF TypeOK
  <2>4. Kept' = {}
    BY <2>2 DEF Kept
  <2>5. RingAligned'
    BY <2>2, <2>4, MaxOfflineAssumption DEF RingAligned, Max2
  <2>6. SeqLockstep'
    BY <1>1, <1>2, <1>3, <2>2 DEF SeqLockstep, GetMaxSeq
  <2>7. UnackedKept'
    BY <1>1, <1>2, <2>2, <2>4 DEF UnackedKept, Max2, TypeOK
  <2> QED
    BY <2>3, <2>5, <2>6, <2>7 DEF IInv
<1>4. CASE q.tail_seq # 0
  <2> DEFINE m == Reloaded
  <2>1. r = [q EXCEPT !.msg_queue = m]
    BY <1>1, <1>4, RestartIs
  <2>2. /\ r.head = q.head /\ r.head_seq = q.head_seq /\ r.tail = q.tail
        /\ r.tail_seq = q.tail_seq /\ r.ack = q.ack /\ r.msg_queue = m
    BY <1>1, <1>4, RestartIs
  <2>3. TypeOK'
    <3>1. m \in [Slots -> [expire : Int, msg : Nat]]
      BY <1>1 DEF TypeOK, EmptySlot, NullMsg, Reloaded
    <3> HIDE DEF m
    <3>2. r \in [head : Slots, head_seq : Nat, tail : Slots, tail_seq : Nat,
                 ack : Int, msg_queue : [Slots -> [expire : Int, msg : Nat]]]
      BY <1>1, <2>1, <3>1, Zenon DEF TypeOK
    <3> QED
      BY <1>1, <1>2, <3>2, Zenon DEF TypeOK
  <2>4. Kept' = Kept /\ \A s : Pos(s)' = Pos(s)
    BY <2>2 DEF Kept, Pos, PosIn
  <2>5. ASSUME NEW s \in Kept
        PROVE  Pos(s) \in Slots /\ s \in Nat \ {0}
    BY KeptSlots
  <2>6. RingAligned'
    <3>1. \A s \in Kept : m[Pos(s)].msg \in {s, NullMsg}
      BY <1>1, <2>5 DEF RingAligned, EmptySlot, Reloaded
    <3> HIDE DEF m
    <3> QED
      BY <1>1, <2>2, <2>4, <3>1 DEF RingAligned
  <2>7. SeqLockstep'
    BY <1>1, <1>2, <2>2 DEF SeqLockstep, GetMaxSeq
  <2>8. UnackedKept'
    <3>1. ASSUME NEW s \in Kept, s > acked, sent[s] <= 0 \/ now < sent[s]
          PROVE  m[Pos(s)] = [expire |-> sent[s], msg |-> s]
      <4>1. q.msg_queue[Pos(s)] = [expire |-> sent[s], msg |-> s]
        BY <1>1, <3>1 DEF UnackedKept
      <4>2. IsMsgOK(q.msg_queue[Pos(s)], now)
        BY <2>5, <3>1, <4>1 DEF IsMsgOK, NullMsg
      <4>3. s > q.ack
        BY <1>1, <2>5, <3>1, SMTT(20) DEF Max2, UnackedKept, Kept, TypeOK
      <4>4. Pos(s) \in ReadBack
        BY <4>3, ReadBackIs
      <4> QED
        BY <2>5, <4>1, <4>2, <4>4 DEF Reloaded
    <3> HIDE DEF m
    <3> QED
      BY <1>1, <1>2, <2>2, <2>4, <3>1 DEF UnackedKept
  <2> QED
    BY <2>3, <2>6, <2>7, <2>8 DEF IInv
<1> QED
  BY <1>3, <1>4

LEMMA NextIInv == IInv /\ [Next]_vars => IInv'
<1> SUFFICES ASSUME IInv, [Next]_vars PROVE IInv'
  OBVIOUS
<1>1. now \in Nat \ {0} /\ has_info \in BOOLEAN
  BY DEF IInv, TypeOK
<1>2. ASSUME NEW ttl \in Ttls, SendSave(ttl) PROVE IInv'
  BY <1>2, SendSaveIInv
<1>3. ASSUME NEW a \in -1 .. GetMaxSeq(user_data), UpdateUserAck(a) PROVE IInv'
  BY <1>3, UpdateUserAckIInv
<1>4. CASE Connect
  BY <1>1, <1>4, ReadIInv DEF Connect
<1>5. CASE Msg
  BY <1>1, <1>5, ReadIInv DEF Msg
<1>6. CASE Restart
  BY <1>6, RestartIInv
<1>7. CASE Tick
  BY <1>1, <1>7, ReadIInv DEF Tick
<1>8. CASE UNCHANGED vars
  BY <1>1, <1>8, ReadIInv DEF vars
<1> QED
  BY <1>2, <1>3, <1>4, <1>5, <1>6, <1>7, <1>8 DEF Next

\* The inductive invariant holds in every reachable state.
THEOREM SpecIInv == Spec => []IInv
<1>1. Init => IInv
  BY InitIInv
<1>2. IInv /\ [Next]_vars => IInv'
  BY NextIInv
<1> QED
  BY <1>1, <1>2, PTL DEF Spec

\* The counter, the ring, the clock and the histories stay within their types.
THEOREM SpecTypeOK == Spec => []TypeOK
<1>1. IInv => TypeOK
  BY DEF IInv
<1> QED
  BY <1>1, SpecIInv, PTL

\* For every ring size: cursors, sequence numbers and slots of the ring never
\* drift apart (InMemoryUserData::AddMessage, Dump, Load).
THEOREM SpecRingAligned == Spec => []RingAligned
<1>1. IInv => RingAligned
  BY DEF IInv
<1> QED
  BY <1>1, SpecIInv, PTL

\* The counter of SessionServer::SendSave and the count of the storage agree,
\* restarts included, and no number is given out twice.
THEOREM SpecSeqLockstep == Spec => []SeqLockstep
<1>1. IInv => SeqLockstep
  BY DEF IInv
<1> QED
  BY <1>1, SpecIInv, PTL

\* A message nobody acknowledged is kept until MaxOffline newer ones push it
\* out or it expires, orderly restarts included.
THEOREM SpecUnackedKept == Spec => []UnackedKept
<1>1. IInv => UnackedKept
  BY DEF IInv
<1> QED
  BY <1>1, SpecIInv, PTL

\* The reading loops of GetMessages and Dump visit exactly the slots of the
\* messages behind the acknowledged position, oldest first.
THEOREM SpecFetchWindow == Spec => []FetchWindow
<1>1. IInv => FetchWindow
  BY VisitedIs DEF IInv
<1> QED
  BY <1>1, SpecIInv, PTL

-----------------------------------------------------------------------------
(* The store implements OfflineLog.  The reading loops push back one       *)
(* message per turn, so what they return is found by induction on the      *)
(* turns.                                                                  *)

\* Induction up to a bound.
LEMMA UpTo ==
  ASSUME NEW n \in Nat, NEW S, 0 \in S, \A k \in 0..(n - 1) : k \in S => k + 1 \in S
  PROVE  \A k \in 0..n : k \in S
<1> DEFINE Bad == {k \in Nat : k <= n /\ k \notin S}
<1> SUFFICES ASSUME Bad # {} PROVE FALSE
  OBVIOUS
<1>1. Bad \in SUBSET Nat
  OBVIOUS
<1>2. \E x \in Bad : \A y \in Bad : ~(<<y, x>> \in OpToRel(<, Nat))
  BY <1>1, NatLessThanWellFounded, WFMin, Zenon
<1>3. \A x, y \in Nat : y < x => <<y, x>> \in OpToRel(<, Nat)
  BY DEF OpToRel
<1>4. PICK x \in Bad : \A y \in Bad : ~(y < x)
  BY <1>2, <1>3, Zenon
<1>5. x \in Nat /\ x <= n /\ x \notin S /\ x # 0
  OBVIOUS
<1>6. x - 1 \in 0..(n - 1) /\ x - 1 < x /\ (x - 1) + 1 = x
  BY <1>5
<1>7. x - 1 \in Bad
  <2> HIDE DEF Bad
  <2>1. x - 1 \notin S
    BY <1>5, <1>6
  <2> QED
    BY <1>5, <1>6, <2>1 DEF Bad
<1> QED
  BY <1>4, <1>6, <1>7

\* What the turn at slot i makes of the messages pushed back before it.
Turn(q, time, i, msgs) ==
  IF IsMsgOK(q.msg_queue[i], time) THEN Append(msgs, q.msg_queue[i].msg) ELSE msgs

\* f[k] is what k turns over the slots of v push back.
Turns(f, q, time, v, n) ==
  f = [k \in 0..n |-> IF k = 0 THEN << >> ELSE Turn(q, time, v[k], f[k - 1])]

LEMMA TurnsExist ==
  ASSUME NEW q, NEW time, NEW v, NEW n \in Nat
  PROVE  \E f : Turns(f, q, time, v, n)
<1> DEFINE S == {m \in Nat : \E f : Turns(f, q, time, v, m)}
<1>1. 0 \in S
  <2> DEFINE f == [k \in 0..0 |-> << >>]
  <2>1. Turns(f, q, time, v, 0)
    BY DEF Turns
  <2> QED
    BY <2>1
<1>2. ASSUME NEW m \in 0..(n - 1), m \in S PROVE m + 1 \in S
  <2>1. PICK f : Turns(f, q, time, v, m)
    BY <1>2
  <2> DEFINE g == [k \in 0..(m + 1) |-> IF k = m + 1 THEN Turn(q, time, v[k], f[m]) ELSE f[k]]
  <2>2. \A k \in 0..m : f[k] = IF k = 0 THEN << >> ELSE Turn(q, time, v[k], f[k - 1])
    BY <2>1, Zenon DEF Turns
  <2>3. ASSUME NEW k \in 0..(m + 1)
        PROVE  g[k] = IF k = 0 THEN << >> ELSE Turn(q, time, v[k], g[k - 1])
    <3>1. CASE k = m + 1
      <4>1. g[k] = Turn(q, time, v[k], f[m]) /\ g[m] = f[m] /\ k - 1 = m /\ k # 0
        BY <3>1
      <4> QED
        BY <4>1
    <3>2. CASE k # m + 1 /\ k # 0
      <4>1. k \in 0..m /\ k - 1 \in 0..(m + 1) /\ k - 1 # m + 1
        BY <3>2
      <4>2. g[k] = f[k] /\ g[k - 1] = f[k - 1]
        BY <3>2, <4>1
      <4> QED
        BY <2>2, <3>2, <4>1, <4>2
    <3>3. CASE k = 0
      <4>1. k \in 0..m /\ k # m + 1
        BY <3>3
      <4> QED
        BY <2>2, <3>3, <4>1
    <3> QED
      BY <3>1, <3>2, <3>3
  <2>4. Turns(g, q, time, v, m + 1)
    <3>1. g = [k \in 0..(m + 1) |-> g[k]]
      OBVIOUS
    <3> HIDE DEF g
    <3> QED
      BY <2>3, <3>1, Zenon DEF Turns
  <2> QED
    BY <2>4
<1> HIDE DEF S
<1>3. n \in S
  BY <1>1, <1>2, UpTo
<1> QED
  BY <1>3 DEF S

LEMMA GetMessagesTurns ==
  ASSUME NEW q, NEW time, Len(Visited(q)) \in Nat
  PROVE  \E f : /\ Turns(f, q, time, Visited(q), Len(Visited(q)))
                /\ GetMessages(q, time) = f[Len(Visited(q))]
<1> DEFINE f == CHOOSE g : Turns(g, q, time, Visited(q), Len(Visited(q)))
<1>1. Turns(f, q, time, Visited(q), Len(Visited(q)))
  <2>1. \E g : Turns(g, q, time, Visited(q), Len(Visited(q)))
    BY TurnsExist
  <2> QED
    BY <2>1, Zenon
<1>2. GetMessages(q, time) = f[Len(Visited(q))]
  BY DEF GetMessages, Turns, Turn
<1> HIDE DEF f
<1> QED
  BY <1>1, <1>2

\* A list goes on with a number that is higher than those it has.
LEMMA ListsMore ==
  ASSUME NEW S \in SUBSET Int, NEW f, Log!Lists(f, S), NEW x \in Int, \A s \in S : s < x
  PROVE  Log!Lists(Append(f, x), S \cup {x})
<1> DEFINE g == Append(f, x)
           n == Len(f)
<1>1. f \in Seq(S) /\ n \in Nat /\ DOMAIN f = 1..n
  BY DEF Log!Lists
<1>2. /\ g \in Seq(S \cup {x}) /\ DOMAIN g = 1..(n + 1) /\ g[n + 1] = x
      /\ \A i \in 1..n : g[i] = f[i] /\ f[i] \in S
  <2>1. f \in Seq(S \cup {x})
    BY <1>1
  <2> QED
    BY <1>1, <2>1
<1> HIDE DEF g, n
<1>3. ASSUME NEW i \in DOMAIN g, NEW j \in DOMAIN g, i < j PROVE g[i] < g[j]
  <2>1. CASE j = n + 1
    <3>1. i \in 1..n
      BY <1>1, <1>2, <1>3, <2>1
    <3>2. g[i] \in S /\ g[j] = x
      BY <1>2, <2>1, <3>1
    <3> QED
      BY <3>2, Zenon
  <2>2. CASE j # n + 1
    <3>1. i \in DOMAIN f /\ j \in DOMAIN f
      BY <1>1, <1>2, <1>3, <2>2
    <3> QED
      BY <1>1, <1>2, <1>3, <3>1 DEF Log!Lists
  <2> QED
    BY <2>1, <2>2
<1>4. ASSUME NEW s \in S \cup {x} PROVE \E i \in DOMAIN g : g[i] = s
  <2>1. CASE s = x
    BY <1>1, <1>2, <2>1
  <2>2. CASE s \in S
    <3>1. PICK i \in DOMAIN f : f[i] = s
      BY <2>2 DEF Log!Lists
    <3>2. i \in DOMAIN g /\ g[i] = s
      BY <1>1, <1>2, <3>1
    <3> QED
      BY <3>2
  <2> QED
    BY <2>1, <2>2
<1> QED
  BY <1>2, <1>3, <1>4, Zenon DEF Log!Lists, g

-----------------------------------------------------------------------------
\* The numbers a fetch is to return.
LiveFrom(a) == {s \in Kept : s > a /\ IsMsgOK(user_data.msg_queue[Pos(s)], now)}

\* The log holds the live messages behind the acknowledged position.
LEMMA PendingIs ==
  ASSUME IInv
  PROVE  /\ Log!Pending = {[seq |-> s, expire |-> user_data.msg_queue[Pos(s)].expire] :
                             s \in LiveFrom(user_data.ack)}
         /\ {m.seq : m \in Log!Pending} = LiveFrom(user_data.ack)
<1> DEFINE Rec(s) == [seq |-> s, expire |-> user_data.msg_queue[Pos(s)].expire]
<1>1. \A s \in Kept : /\ user_data.msg_queue[Pos(s)].expire \in Int
                      /\ Rec(s).seq = s /\ Rec(s).expire = user_data.msg_queue[Pos(s)].expire
  BY KeptSlots, RingFacts, SMTT(20) DEF Slots
<1>2. now \in Int
  BY DEF IInv, TypeOK
<1>3. \A s \in Kept : user_data.msg_queue[Pos(s)].msg # NullMsg
        => (~Log!Expired(Rec(s)) <=> IsMsgOK(user_data.msg_queue[Pos(s)], now))
  BY <1>1, <1>2 DEF Log!Expired, IsMsgOK
<1>4. \A s \in Kept : s \in LiveFrom(user_data.ack)
        <=> /\ user_data.msg_queue[Pos(s)].msg # NullMsg
            /\ Rec(s).seq > user_data.ack /\ ~Log!Expired(Rec(s))
  BY <1>1, <1>3 DEF LiveFrom, IsMsgOK
<1>5. LiveFrom(user_data.ack) \subseteq Kept
  BY DEF LiveFrom
<1>6. KeptLog = {Rec(s) : s \in {t \in Kept : user_data.msg_queue[Pos(t)].msg # NullMsg}}
  BY DEF KeptLog
<1>7. \A s \in Kept : Rec(s).seq = s
  BY <1>1
<1> HIDE DEF Rec
<1>8. Log!Pending = {Rec(s) : s \in LiveFrom(user_data.ack)}
  BY <1>4, <1>5, <1>6 DEF Log!Pending
<1>9. {m.seq : m \in Log!Pending} = LiveFrom(user_data.ack)
  BY <1>5, <1>7, <1>8
<1> QED
  BY <1>8, <1>9 DEF Rec

\* A fetch lists the live messages behind the acknowledged position.
LEMMA GetMessagesLists ==
  ASSUME IInv
  PROVE  Log!Lists(GetMessages(user_data, now), LiveFrom(user_data.ack))
<1> DEFINE q == user_data
           v == Visited(q)
           n == q.tail_seq - FetchFrom
           U(k) == {s \in LiveFrom(q.ack) : s <= FetchFrom + k}
<1>1. TypeOK /\ RingAligned /\ FetchWindow
  BY VisitedIs DEF IInv
<1>2. /\ q.head_seq \in Nat /\ q.tail_seq \in Nat /\ q.ack \in Int
      /\ FetchFrom \in q.head_seq .. q.tail_seq /\ q.ack <= FetchFrom
  <2>1. /\ q.head_seq \in Nat /\ q.tail_seq \in Nat /\ q.ack \in Int
        /\ FetchFrom = (IF q.ack < q.head_seq THEN q.head_seq ELSE q.ack)
        /\ q.ack <= q.tail_seq /\ q.head_seq <= q.tail_seq
    BY <1>1, RingFacts DEF RingAligned, FetchFrom, Max2
  <2> QED
    BY <2>1
<1>3. n \in Nat /\ Len(v) = n /\ \A k \in 1..n : v[k] = Pos(FetchFrom + k)
  <2>1. v = [k \in 1..n |-> Pos(FetchFrom + k)] /\ n \in Nat
    BY <1>1, <1>2 DEF FetchWindow
  <2> HIDE DEF v, n
  <2> QED
    BY <2>1
<1>4. PICK f : Turns(f, q, now, v, n) /\ GetMessages(q, now) = f[n]
  BY <1>3, GetMessagesTurns
<1>5. f[0] = << >> /\ \A k \in 0..(n - 1) : f[k + 1] = Turn(q, now, v[k + 1], f[k])
  <2>1. \A k \in 0..n : f[k] = IF k = 0 THEN << >> ELSE Turn(q, now, v[k], f[k - 1])
    BY <1>4, Zenon DEF Turns
  <2> HIDE DEF n, v
  <2>2. ASSUME NEW k \in 0..(n - 1) PROVE f[k + 1] = Turn(q, now, v[k + 1], f[k])
    <3>1. k + 1 \in 0..n /\ k + 1 # 0 /\ (k + 1) - 1 = k
      BY <1>3
    <3> QED
      BY <2>1, <3>1
  <2> QED
    BY <1>3, <2>1, <2>2
<1>6. \A s \in LiveFrom(q.ack) : s \in FetchFrom + 1 .. q.tail_seq
  BY <1>2 DEF LiveFrom, Kept, FetchFrom, Max2
<1> DEFINE S == {k \in Nat : Log!Lists(f[k], U(k))}
<1>7. 0 \in S
  <2>1. U(0) = {}
    BY <1>2, <1>6
  <2>2. Log!Lists(<< >>, {})
    BY DEF Log!Lists
  <2> HIDE DEF U
  <2> QED
    BY <1>5, <2>1, <2>2
<1>8. ASSUME NEW k \in 0..(n - 1), k \in S PROVE k + 1 \in S
  <2> DEFINE s == FetchFrom + k + 1
             slot == q.msg_queue[Pos(s)]
  <2>1. /\ k \in Nat /\ k + 1 \in 1..n /\ s \in Int /\ s \in Kept /\ s > q.ack
    BY <1>2, <1>3 DEF Kept
  <2>2. v[k + 1] = Pos(s)
    <3>1. FetchFrom + (k + 1) = s
      BY <1>2
    <3> HIDE DEF v, s
    <3> QED
      BY <1>3, <2>1, <3>1
  <2>3. U(k) \in SUBSET Int /\ \A t \in U(k) : t < s
    BY <1>2, <1>6
  <2>4. CASE IsMsgOK(slot, now)
    <3>1. slot.msg = s
      BY <1>1, <2>1, <2>4 DEF RingAligned, IsMsgOK
    <3>2. f[k + 1] = Append(f[k], s)
      BY <1>5, <2>2, <2>4, <3>1, Zenon DEF Turn
    <3>3. U(k + 1) = U(k) \cup {s}
      <4>1. s \in LiveFrom(q.ack)
        BY <2>1, <2>4 DEF LiveFrom
      <4> QED
        BY <1>2, <1>6, <4>1
    <3>4. Log!Lists(f[k], U(k))
      BY <1>8
    <3> HIDE DEF U, s
    <3>5. Log!Lists(f[k + 1], U(k + 1))
      BY <2>1, <2>3, <3>2, <3>3, <3>4, ListsMore
    <3> QED
      BY <2>1, <3>5
  <2>5. CASE ~IsMsgOK(slot, now)
    <3>1. f[k + 1] = f[k]
      BY <1>5, <2>2, <2>5 DEF Turn
    <3>2. s \notin LiveFrom(q.ack)
      BY <2>5 DEF LiveFrom
    <3>3. U(k + 1) = U(k)
      BY <1>2, <1>6, <3>2
    <3> HIDE DEF U
    <3> QED
      BY <1>8, <2>1, <3>1, <3>3
  <2> QED
    BY <2>4, <2>5
<1>9. U(n) = LiveFrom(q.ack)
  BY <1>2, <1>6
<1> HIDE DEF S, U, n
<1>10. n \in S
  <2>1. \A k \in 0..(n - 1) : k \in S => k + 1 \in S
    BY <1>8
  <2>2. \A k \in 0..n : k \in S
    BY <1>3, <1>7, <2>1, UpTo
  <2> QED
    BY <1>3, <2>2
<1> QED
  BY <1>4, <1>9, <1>10 DEF S

\* GetMessages, called by Connect and by /msg, is a fetch of the log.
LEMMA FetchLog ==
  ASSUME IInv, Connect \/ Msg
  PROVE  Log!Fetch
<1>1. fetched' = GetMessages(user_data, now) /\ UNCHANGED <<user_data, now>>
  BY DEF Connect, Msg
<1>2. KeptLog' = KeptLog
  BY <1>1 DEF KeptLog, Kept, Pos, PosIn
<1>3. Log!Lists(fetched', {m.seq : m \in Log!Pending})
  BY <1>1, PendingIs, GetMessagesLists, Zenon
<1> QED
  BY <1>1, <1>2, <1>3 DEF Log!Fetch

\* Saving a message appends it to the log and drops what is too old.
LEMMA SendSaveLog ==
  ASSUME IInv, NEW ttl \in Ttls, SendSave(ttl)
  PROVE  Log!Save(ttl)
<1> DEFINE q == user_data
           r == user_data'
           oldest == q.tail_seq + 1 - MaxOffline
           m == [seq |-> q.tail_seq + 1, expire |-> Expiry(ttl)]
           Rec(s) == [seq |-> s, expire |-> q.msg_queue[Pos(s)].expire]
           Old(s) == q.msg_queue[Pos(s)].msg # NullMsg
           Rec1(s) == [seq |-> s, expire |-> r.msg_queue[Pos(s)'].expire]
           Old1(s) == r.msg_queue[Pos(s)'].msg # NullMsg
<1>1. /\ q.head_seq \in Nat /\ q.tail_seq \in Nat /\ q.ack \in Int
      /\ MaxOffline \in Nat \ {0}
      /\ q.head_seq = IF 0 < q.tail_seq - MaxOffline THEN q.tail_seq - MaxOffline ELSE 0
  BY RingFacts
<1>2. /\ r.tail_seq = q.tail_seq + 1 /\ r.head_seq \in Nat
      /\ r.head_seq = IF 0 < r.tail_seq - MaxOffline THEN r.tail_seq - MaxOffline ELSE 0
  BY SendSaveIs, Zenon
<1>3. r.ack = IF oldest > 0 /\ q.ack < oldest THEN oldest ELSE q.ack
  <2>1. /\ r.head_seq = IF r.tail = q.head THEN q.head_seq + 1 ELSE q.head_seq
        /\ r.ack = IF r.tail = q.head /\ q.ack < q.head_seq + 1
                     THEN q.head_seq + 1 ELSE q.ack
    BY SendSaveIs, Zenon
  <2>2. CASE r.tail = q.head
    BY <1>1, <1>2, <2>1, <2>2
  <2>3. CASE r.tail # q.head
    BY <1>1, <1>2, <2>1, <2>3
  <2> QED
    BY <2>2, <2>3
<1>4. now' = now /\ fetched' = fetched
  BY DEF SendSave
<1> PICK new : new = q.tail_seq + 1
  OBVIOUS
<1>5. new \in Kept' /\ Old1(new) /\ Rec1(new) = m
  <2>1. new \in Kept' /\ new \notin Kept
    BY <1>1, <1>2 DEF Kept
  <2>2. r.msg_queue[Pos(new)'] = [expire |-> Expiry(ttl), msg |-> new]
    BY <2>1, SendSaveSlots
  <2> QED
    BY <1>1, <2>1, <2>2 DEF NullMsg
<1>6. ASSUME NEW s \in Kept', s # new
      PROVE  s \in Kept /\ s > oldest /\ (Old1(s) <=> Old(s)) /\ Rec1(s) = Rec(s)
  <2>1. s \in Kept /\ r.msg_queue[Pos(s)'] = q.msg_queue[Pos(s)]
    BY <1>6, SendSaveSlots, Zenon
  <2>2. s > oldest
    BY <1>1, <1>2 DEF Kept
  <2> QED
    BY <2>1, <2>2
<1>7. ASSUME NEW s \in Kept, s > oldest PROVE s \in Kept' /\ s # new
  BY <1>1, <1>2, <1>7 DEF Kept
<1>8. \A s : Rec(s).seq = s
  OBVIOUS
<1>9. /\ KeptLog = {Rec(s) : s \in {t \in Kept : Old(t)}}
      /\ KeptLog' = {Rec1(s) : s \in {t \in Kept' : Old1(t)}}
  BY DEF KeptLog
<1> HIDE DEF Rec, Rec1, Old, Old1, oldest, m
<1>10. KeptLog' = {k \in KeptLog : k.seq > oldest} \cup {m}
  <2>1. ASSUME NEW x \in KeptLog' PROVE x \in {k \in KeptLog : k.seq > oldest} \cup {m}
    <3>1. PICK s \in Kept' : Old1(s) /\ x = Rec1(s)
      BY <1>9
    <3>2. CASE s = new
      BY <1>5, <3>1, <3>2
    <3>3. CASE s # new
      <4>1. s \in Kept /\ s > oldest /\ Old(s) /\ x = Rec(s)
        BY <1>6, <3>1, <3>3
      <4> QED
        BY <1>8, <1>9, <4>1
    <3> QED
      BY <3>2, <3>3
  <2>2. m \in KeptLog'
    BY <1>5, <1>9
  <2>3. ASSUME NEW x \in KeptLog, x.seq > oldest PROVE x \in KeptLog'
    <3>1. PICK s \in Kept : Old(s) /\ x = Rec(s)
      BY <1>9
    <3>2. s \in Kept' /\ s # new
      BY <1>7, <1>8, <2>3, <3>1
    <3>3. Old1(s) /\ x = Rec1(s)
      BY <1>6, <3>1, <3>2
    <3> QED
      BY <1>9, <3>2, <3>3
  <2> QED
    BY <2>1, <2>2, <2>3
<1> QED
  BY <1>2, <1>3, <1>4, <1>10 DEF Log!Save, Expiry, oldest, m

\* After a restart the log holds what a fetch would have returned.
LEMMA RestartLog ==
  ASSUME IInv, Restart
  PROVE  Log!Restart \/ Log!RestartEmpty
<1> DEFINE q == user_data
           r == user_data'
<1>1. now' = now /\ fetched' = fetched
  BY DEF Restart
<1>2. CASE q.tail_seq = 0
  <2>1. r = NewUserData
    BY <1>2, RestartNew
  <2>2. r.head_seq = 0 /\ r.tail_seq = 0 /\ r.ack = 0
    BY <2>1 DEF NewUserData
  <2>3. Kept = {} /\ Kept' = {}
    BY <1>2, <2>2, RingFacts DEF Kept
  <2>4. KeptLog = {} /\ KeptLog' = {}
    BY <2>3 DEF KeptLog
  <2> QED
    BY <1>1, <1>2, <2>2, <2>4 DEF Log!RestartEmpty
<1>3. CASE q.tail_seq # 0
  <2> DEFINE Rec(s) == [seq |-> s, expire |-> q.msg_queue[Pos(s)].expire]
             Rec1(s) == [seq |-> s, expire |-> r.msg_queue[Pos(s)].expire]
  <2>1. /\ r.head = q.head /\ r.head_seq = q.head_seq /\ r.tail_seq = q.tail_seq
        /\ r.ack = q.ack /\ r.msg_queue = Reloaded
    BY <1>3, RestartIs DEF IInv
  <2>2. Kept' = Kept /\ \A s : Pos(s)' = Pos(s)
    BY <2>1 DEF Kept, Pos, PosIn
  <2>3. ASSUME NEW s \in Kept
        PROVE  /\ r.msg_queue[Pos(s)].msg # NullMsg <=> s \in LiveFrom(q.ack)
               /\ s \in LiveFrom(q.ack) => Rec1(s) = Rec(s)
    <3>1. Pos(s) \in Slots /\ (Pos(s) \in ReadBack <=> s > q.ack)
      BY KeptSlots, ReadBackIs
    <3>2. CASE s \in LiveFrom(q.ack)
      <4>1. r.msg_queue[Pos(s)] = q.msg_queue[Pos(s)] /\ q.msg_queue[Pos(s)].msg # NullMsg
        BY <2>1, <3>1, <3>2 DEF Reloaded, LiveFrom, IsMsgOK
      <4> QED
        BY <3>2, <4>1
    <3>3. CASE s \notin LiveFrom(q.ack)
      <4>1. r.msg_queue[Pos(s)] = EmptySlot
        BY <2>1, <3>1, <3>3 DEF Reloaded, LiveFrom
      <4> QED
        BY <3>3, <4>1 DEF EmptySlot
    <3> QED
      BY <3>2, <3>3
  <2>4. KeptLog' = {Rec1(s) : s \in {t \in Kept : r.msg_queue[Pos(t)].msg # NullMsg}}
    BY <2>2 DEF KeptLog
  <2>5. Log!Pending = {Rec(s) : s \in LiveFrom(q.ack)}
    BY PendingIs
  <2>6. LiveFrom(q.ack) \subseteq Kept
    BY DEF LiveFrom
  <2> HIDE DEF Rec, Rec1
  <2>7. {t \in Kept : r.msg_queue[Pos(t)].msg # NullMsg} = LiveFrom(q.ack)
    BY <2>3, <2>6
  <2>8. KeptLog' = Log!Pending
    BY <2>3, <2>4, <2>5, <2>6, <2>7
  <2>9. q.tail_seq > 0
    BY <1>3, RingFacts
  <2> QED
    BY <1>1, <2>1, <2>8, <2>9 DEF Log!Restart
<1> QED
  BY <1>2, <1>3

LEMMA InitLog == Init => Log!Init
<1> SUFFICES ASSUME Init PROVE Log!Init
  OBVIOUS
<1>1. user_data.tail_seq = 0 /\ user_data.head_seq = 0 /\ user_data.ack = 0
  BY DEF Init, NewUserData
<1>2. KeptLog = {}
  BY <1>1 DEF KeptLog, Kept
<1> QED
  BY <1>1, <1>2 DEF Init, Log!Init

LEMMA NextLog == IInv /\ [Next]_vars => [Log!Next]_(Log!logvars)
<1> SUFFICES ASSUME IInv, [Next]_vars PROVE [Log!Next]_(Log!logvars)
  OBVIOUS
<1>1. ASSUME NEW ttl \in Ttls, SendSave(ttl) PROVE Log!Next
  BY <1>1, SendSaveLog DEF Log!Next
<1>2. ASSUME NEW a \in -1 .. GetMaxSeq(user_data), UpdateUserAck(a) PROVE Log!Next
  <2>1. /\ user_data' = [user_data EXCEPT !.ack = a] /\ now' = now /\ fetched' = fetched
    BY <1>2 DEF UpdateUserAck, SetAck
  <2>2. /\ user_data'.head = user_data.head /\ user_data'.head_seq = user_data.head_seq
        /\ user_data'.tail_seq = user_data.tail_seq
        /\ user_data'.msg_queue = user_data.msg_queue /\ user_data'.ack = a
    BY <2>1 DEF IInv, TypeOK
  <2>3. KeptLog' = KeptLog
    BY <2>2 DEF KeptLog, Kept, Pos, PosIn
  <2>4. Log!Acknowledge(a)
    BY <2>1, <2>2, <2>3 DEF Log!Acknowledge, GetMaxSeq
  <2> QED
    BY <2>4 DEF Log!Next, GetMaxSeq
<1>3. CASE Connect \/ Msg
  BY <1>3, FetchLog DEF Log!Next
<1>4. CASE Restart
  BY <1>4, RestartLog DEF Log!Next
<1>5. CASE Tick
  <2>1. UNCHANGED <<user_data, fetched>> /\ now' = now + 1
    BY <1>5 DEF Tick
  <2>2. KeptLog' = KeptLog
    BY <2>1 DEF KeptLog, Kept, Pos, PosIn
  <2> QED
    BY <2>1, <2>2 DEF Log!Tick, Log!Next
<1>6. CASE UNCHANGED vars
  <2>1. UNCHANGED <<user_data, fetched, now>>
    BY <1>6 DEF vars
  <2>2. KeptLog' = KeptLog
    BY <2>1 DEF KeptLog, Kept, Pos, PosIn
  <2> QED
    BY <2>1, <2>2 DEF Log!logvars
<1> QED
  BY <1>1, <1>2, <1>3, <1>4, <1>5, <1>6 DEF Next

\* The ring of InMemoryUserData implements the log it stands for, for every ring
\* size and any saves, acknowledgements, expiries and orderly restarts: a fetch
\* (GetMessages) returns, in order, exactly the unexpired messages behind the
\* acknowledged position, and Dump and Load lose none of them.
THEOREM SpecImplementsOfflineLog == Spec => ImplementsOfflineLog
BY InitLog, NextLog, SpecIInv, PTL DEF Spec, ImplementsOfflineLog, Log!Spec

-----------------------------------------------------------------------------
(* The circular buffer.                                                    *)

\* The slot of the i-th closure from the head.
Slot(h, i) == IF h + i < array_elements THEN h + i ELSE h + i - array_elements

\* One step on from a slot wraps around at the end of the array.
LEMMA WrapIs ==
  ASSUME NEW h \in QueueSlots
  PROVE  Wrap(h + 1) \in QueueSlots /\ Wrap(h + 1) = Slot(h, 1)
<1>1. array_elements \in Nat \ {0} /\ h \in 0..(array_elements - 1)
  BY QueueAssumption DEF QueueSlots
<1>2. CASE h + 1 < array_elements
  BY <1>1, <1>2 DEF Wrap, Slot, QueueSlots
<1>3. CASE h + 1 = array_elements
  BY <1>1, <1>3 DEF Wrap, Slot, QueueSlots
<1> QED
  BY <1>1, <1>2, <1>3

RingInv ==
  /\ head \in QueueSlots /\ tail \in QueueSlots /\ count \in 0..max_entries
  /\ entries \in [QueueSlots -> Nat] /\ closure \in [Threads -> Nat] /\ made \in Nat
  /\ pushed \in Seq(Nat) /\ called \in Seq(Nat)
  /\ CalledInOrder
  /\ count < array_elements => tail = Slot(head, count)
  /\ count = array_elements => tail = head
  /\ \A i \in 0..(count - 1) : entries[Slot(head, i)] = pushed[Len(called) + 1 + i]

LEMMA InitRing == QueueInit => RingInv
<1> SUFFICES ASSUME QueueInit PROVE RingInv
  OBVIOUS
<1>1. array_elements \in Nat \ {0} /\ max_entries \in Nat
  BY QueueAssumption
<1>2. Len(<< >>) = 0 /\ << >> \in Seq(Nat)
  OBVIOUS
<1> QED
  BY <1>1, <1>2 DEF QueueInit, RingInv, CalledInOrder, Slot, QueueSlots

\* A push fills the slot behind the last one, which is free.
LEMMA PushRing ==
  ASSUME RingInv, NEW t \in Threads, PushTail(t)
  PROVE  RingInv'
<1>1. array_elements \in Nat \ {0} /\ max_entries \in Nat /\ max_entries <= array_elements
  BY QueueAssumption
<1>2. /\ count' = count + 1 /\ entries' = [entries EXCEPT ![tail] = closure[t]]
      /\ tail' = Wrap(tail + 1) /\ pushed' = Append(pushed, closure[t])
      /\ UNCHANGED <<head, closure, made, called>> /\ count # max_entries
  BY DEF PushTail, HasRoom
<1>3. count \in Nat /\ count < array_elements /\ count' \in 0..max_entries
  BY <1>1, <1>2 DEF RingInv
<1>4. head \in 0..(array_elements - 1) /\ tail = Slot(head, count) /\ tail \in QueueSlots
  BY <1>3 DEF RingInv, QueueSlots
<1>5. tail' \in QueueSlots /\ tail' = Slot(tail, 1)
  BY <1>2, <1>4, WrapIs
<1>6. /\ count' < array_elements => tail' = Slot(head, count')
      /\ count' = array_elements => tail' = head
  BY <1>1, <1>2, <1>3, <1>4, <1>5 DEF Slot
<1>7. closure[t] \in Nat /\ entries' \in [QueueSlots -> Nat]
  BY <1>2, <1>4 DEF RingInv
<1>8. /\ pushed' \in Seq(Nat) /\ Len(pushed') = Len(pushed) + 1
      /\ pushed'[Len(pushed) + 1] = closure[t]
      /\ \A i \in 1..Len(pushed) : pushed'[i] = pushed[i]
      /\ Len(pushed) \in Nat /\ Len(called) \in Nat
  BY <1>2, <1>7 DEF RingInv
<1>9. Len(called) + count = Len(pushed) /\ \A i \in 1..Len(called) : called[i] = pushed[i]
  BY DEF RingInv, CalledInOrder
<1>10. CalledInOrder'
  <2>1. called' = called /\ Len(called) + count' = Len(pushed')
    BY <1>2, <1>3, <1>8, <1>9
  <2>2. \A i \in 1..Len(called) : i \in 1..Len(pushed)
    BY <1>3, <1>8, <1>9
  <2>3. \A i \in 1..Len(called) : called[i] = pushed'[i]
    BY <1>8, <1>9, <2>2
  <2> QED
    BY <2>1, <2>3 DEF CalledInOrder
<1>11. ASSUME NEW i \in 0..(count' - 1)
       PROVE  entries'[Slot(head, i)] = pushed'[Len(called) + 1 + i]
  <2>1. Slot(head, i) \in QueueSlots
    BY <1>1, <1>2, <1>3, <1>4 DEF Slot, QueueSlots
  <2>2. CASE i = count
    <3>1. Slot(head, i) = tail /\ Len(called) + 1 + i = Len(pushed) + 1
      BY <1>3, <1>4, <1>8, <1>9, <2>2
    <3> QED
      BY <1>2, <1>4, <1>8, <3>1 DEF RingInv
  <2>3. CASE i # count
    <3>1. i \in 0..(count - 1)
      BY <1>2, <1>3, <2>3
    <3>2. Slot(head, i) # tail
      BY <1>1, <1>3, <1>4, <3>1 DEF Slot
    <3>3. entries'[Slot(head, i)] = entries[Slot(head, i)]
      BY <1>2, <2>1, <3>2 DEF RingInv
    <3>4. Len(called) + 1 + i \in 1..Len(pushed)
      BY <1>3, <1>8, <1>9, <3>1
    <3> QED
      BY <1>8, <3>1, <3>3, <3>4 DEF RingInv
  <2> QED
    BY <2>2, <2>3
<1> QED
  BY <1>2, <1>3, <1>5, <1>6, <1>7, <1>8, <1>10, <1>11, Zenon DEF RingInv

\* A pop takes the oldest closure and leaves the others in their slots.
LEMMA PopRing ==
  ASSUME RingInv, PopHead
  PROVE  RingInv'
<1>1. array_elements \in Nat \ {0} /\ max_entries \in Nat /\ max_entries <= array_elements
  BY QueueAssumption
<1>2. /\ count # 0 /\ count' = count - 1 /\ head' = Wrap(head + 1)
      /\ called' = Append(called, entries[head])
      /\ UNCHANGED <<tail, entries, closure, made, pushed>>
  BY DEF PopHead
<1>3. count \in 1..max_entries /\ count' \in 0..max_entries /\ count' < array_elements
  BY <1>1, <1>2 DEF RingInv
<1>4. head \in 0..(array_elements - 1) /\ head \in QueueSlots
  BY DEF RingInv, QueueSlots
<1>5. head' \in QueueSlots /\ head' = Slot(head, 1)
  BY <1>2, <1>4, WrapIs
<1>6. \A i \in 0..(count' - 1) : Slot(head', i) = Slot(head, i + 1) /\ i + 1 \in 0..(count - 1)
  BY <1>1, <1>2, <1>3, <1>4, <1>5 DEF Slot
<1>7. tail' = Slot(head', count')
  <2>1. CASE count < array_elements
    BY <1>1, <1>2, <1>3, <1>4, <1>5, <2>1, SMTT(60) DEF Slot, RingInv
  <2>2. CASE count = array_elements
    <3>1. tail' = head /\ count' = array_elements - 1
      BY <1>2, <2>2 DEF RingInv
    <3>2. Slot(Slot(head, 1), array_elements - 1) = head
      BY <1>1, <1>4 DEF Slot
    <3> QED
      BY <1>5, <3>1, <3>2
  <2> QED
    BY <1>1, <1>3, <2>1, <2>2
<1>8. Slot(head, 0) = head /\ entries[head] \in Nat
  BY <1>1, <1>4 DEF Slot, RingInv
<1>9. /\ called' \in Seq(Nat) /\ Len(called') = Len(called) + 1 /\ Len(called) \in Nat
      /\ called'[Len(called) + 1] = entries[head]
      /\ \A i \in 1..Len(called) : called'[i] = called[i]
  BY <1>2, <1>8 DEF RingInv
<1>10. entries[head] = pushed[Len(called) + 1]
  <2>1. 0 \in 0..(count - 1)
    BY <1>3
  <2>2. entries[Slot(head, 0)] = pushed[Len(called) + 1 + 0]
    BY <2>1 DEF RingInv
  <2> QED
    BY <1>8, <1>9, <2>2
<1>11. CalledInOrder'
  <2>1. Len(called) + count = Len(pushed) /\ \A i \in 1..Len(called) : called[i] = pushed[i]
    BY DEF RingInv, CalledInOrder
  <2>2. \A i \in 1..(Len(called) + 1) : i \in 1..Len(called) \/ i = Len(called) + 1
    BY <1>9
  <2>3. \A i \in 1..Len(called') : called'[i] = pushed[i]
    BY <1>9, <1>10, <2>1, <2>2
  <2> QED
    BY <1>2, <1>3, <1>9, <2>1, <2>3 DEF CalledInOrder
<1>12. ASSUME NEW i \in 0..(count' - 1)
       PROVE  entries[Slot(head', i)] = pushed[Len(called') + 1 + i]
  <2>1. entries[Slot(head, i + 1)] = pushed[Len(called) + 1 + (i + 1)]
    BY <1>6 DEF RingInv
  <2>2. Len(called') + 1 + i = Len(called) + 1 + (i + 1)
    BY <1>3, <1>9
  <2> QED
    BY <1>6, <2>1, <2>2
<1>13. pushed' \in Seq(Nat) /\ closure' \in [Threads -> Nat] /\ entries' \in [QueueSlots -> Nat]
       /\ made' \in Nat /\ tail' \in QueueSlots
  BY <1>2 DEF RingInv
<1> QED
  BY <1>2, <1>3, <1>5, <1>7, <1>9, <1>11, <1>12, <1>13 DEF RingInv

LEMMA NextRing == RingInv /\ [QueueNext]_queueVars => RingInv'
<1> SUFFICES ASSUME RingInv, [QueueNext]_queueVars PROVE RingInv'
  OBVIOUS
<1>1. ASSUME UNCHANGED <<head, tail, count, entries, closure, made, pushed, called>>
      PROVE  RingInv'
  BY <1>1 DEF RingInv, CalledInOrder
<1>2. ASSUME NEW t \in Threads, RunInMainLoop(t)
      PROVE  RingInv'
  <2>1. /\ made' = made + 1 /\ closure' = [closure EXCEPT ![t] = made + 1]
        /\ UNCHANGED <<head, tail, count, entries, pushed, called>>
    BY <1>2 DEF RunInMainLoop
  <2>2. made' \in Nat /\ closure' \in [Threads -> Nat]
    BY <2>1 DEF RingInv
  <2> QED
    BY <2>1, <2>2 DEF RingInv, CalledInOrder
<1>3. ASSUME NEW t \in Threads, PushFull(t) \/ PushSend(t)
      PROVE  RingInv'
  BY <1>1, <1>3 DEF PushFull, PushSend, queueVars
<1>4. CASE PopWake \/ PopEnd \/ CallbackDone
  BY <1>1, <1>4 DEF PopWake, PopEnd, CallbackDone
<1>5. CASE UNCHANGED queueVars
  BY <1>1, <1>5 DEF queueVars
<1> QED
  BY <1>2, <1>3, <1>4, <1>5, PushRing, PopRing DEF QueueNext

\* Closures are called in the order in which they were pushed, each once.
THEOREM SpecCalledInOrder == QueueSpec => []CalledInOrder
<1>1. RingInv => CalledInOrder
  BY DEF RingInv
<1> QED
  BY <1>1, InitRing, NextRing, PTL DEF QueueSpec

-----------------------------------------------------------------------------
(* The byte.                                                               *)

\* While the loop waits, a queue that is not empty has its byte, or has one
\* closure and a thread that is about to send it.
WakeInv ==
  /\ count \in Nat /\ wake \in Nat
  /\ pc \in [Threads -> {"idle", "trying", "pushed"}]
  /\ lock \in Threads \cup {NoThread}
  /\ \A t \in Threads : pc[t] = "pushed" <=> lock = t
  /\ count > 0 /\ loop = "dispatch" => wake > 0 \/ (count = 1 /\ lock # NoThread)

LEMMA InitWake == QueueInit => WakeInv
BY QueueAssumption DEF QueueInit, WakeInv

LEMMA NextWake == WakeInv /\ [QueueNext]_queueVars => WakeInv'
<1> SUFFICES ASSUME WakeInv, [QueueNext]_queueVars PROVE WakeInv'
  OBVIOUS
<1>1. ASSUME NEW t \in Threads, RunInMainLoop(t) PROVE WakeInv'
  BY <1>1 DEF RunInMainLoop, WakeInv
<1>2. ASSUME NEW t \in Threads, PushTail(t) PROVE WakeInv'
  BY <1>2, QueueAssumption DEF PushTail, WakeInv
<1>3. ASSUME NEW t \in Threads, PushSend(t) PROVE WakeInv'
  <2>1. lock = t /\ t # NoThread /\ count \in Nat /\ wake \in Nat
    BY <1>3, QueueAssumption DEF PushSend, WakeInv
  <2>2. /\ wake' = IF count = 1 THEN wake + 1 ELSE wake
        /\ lock' = NoThread /\ pc' = [pc EXCEPT ![t] = "idle"]
        /\ UNCHANGED <<count, loop>>
    BY <1>3 DEF PushSend, Wakes
  <2>3. \A u \in Threads : pc'[u] = "pushed" <=> lock' = u
    BY <2>1, <2>2, QueueAssumption DEF WakeInv
  <2>4. count' > 0 /\ loop' = "dispatch" => wake' > 0
    BY <2>1, <2>2 DEF WakeInv
  <2> QED
    BY <2>1, <2>2, <2>3, <2>4 DEF WakeInv
<1>4. CASE PopWake
  BY <1>4, QueueAssumption DEF PopWake, WakeInv
<1>5. CASE PopHead
  BY <1>5 DEF PopHead, WakeInv
<1>6. CASE PopEnd
  BY <1>6 DEF PopEnd, WakeInv
<1>7. CASE CallbackDone
  BY <1>7 DEF CallbackDone, WakeInv
<1>8. ASSUME UNCHANGED queueVars PROVE WakeInv'
  BY <1>8 DEF queueVars, WakeInv
<1>9. ASSUME NEW t \in Threads, PushFull(t) PROVE WakeInv'
  BY <1>8, <1>9 DEF PushFull
<1> QED
  BY <1>1, <1>2, <1>3, <1>4, <1>5, <1>6, <1>7, <1>8, <1>9 DEF QueueNext

\* No wakeup is lost: whatever is in the queue has a byte, a push under way or
\* a running pop that leads to it, though msgqueue_pop takes the bytes before
\* the lock and msgqueue_push sends one only into an empty queue.
THEOREM SpecWakeupPending == QueueSpec => []WakeupPending
<1>1. WakeInv => WakeupPending
  BY DEF WakeInv, WakeupPending
<1> QED
  BY <1>1, InitWake, NextWake, PTL DEF QueueSpec

-----------------------------------------------------------------------------
(* Sharding.                                                               *)

\* A set of naturals that is not empty has a least element.
LEMMA LeastIs ==
  ASSUME NEW S \in SUBSET Nat, S # {}
  PROVE  Least(S) \in S /\ \A y \in S : Least(S) <= y
<1>1. \E x \in S : \A y \in S : ~(<<y, x>> \in OpToRel(<, Nat))
  BY NatLessThanWellFounded, WFMin, Zenon
<1>2. \A x, y \in Nat : y < x => <<y, x>> \in OpToRel(<, Nat)
  BY DEF OpToRel
<1>3. \E x \in S : \A y \in S : ~(y < x)
  BY <1>1, <1>2, Zenon
<1>4. \E x \in S : \A y \in S : x <= y
  BY <1>3
<1> QED
  BY <1>4, Zenon DEF Least

\* A point of one of the n servers has an owner, the last server with that
\* point: what the assignments of the constructor leave in mapping_.
LEMMA MappingIs ==
  ASSUME NEW n \in Nat, NEW p \in Points(n)
  PROVE  /\ Mapping(n, p) \in 0..n - 1
         /\ HasPoint(Mapping(n, p), p)
         /\ \A k \in 0..n - 1 : HasPoint(k, p) => k <= Mapping(n, p)
<1> DEFINE Back == {d \in 0..n - 1 : HasPoint(n - 1 - d, p)}
<1>1. PICK i \in 0..n - 1 : HasPoint(i, p)
  BY DEF Points
<1>2. n - 1 - i \in 0..n - 1 /\ n - 1 - (n - 1 - i) = i
  OBVIOUS
<1>3. Back \in SUBSET Nat /\ Back # {}
  <2>1. HasPoint(n - 1 - (n - 1 - i), p)
    BY <1>1, <1>2, Zenon
  <2>2. n - 1 - i \in Back
    BY <1>2, <2>1
  <2>3. Back \subseteq 0..n - 1
    OBVIOUS
  <2> HIDE DEF Back
  <2> QED
    BY <2>2, <2>3
<1>4. Least(Back) \in Back /\ \A d \in Back : Least(Back) <= d
  BY <1>3, LeastIs, Zenon
<1> DEFINE last == n - 1 - Least(Back)
<1>5. last \in 0..n - 1 /\ HasPoint(last, p)
  BY <1>4
<1>6. ASSUME NEW k \in 0..n - 1, HasPoint(k, p)
      PROVE  k <= last
  <2>1. n - 1 - k \in 0..n - 1 /\ n - 1 - (n - 1 - k) = k
    OBVIOUS
  <2>2. n - 1 - k \in Back
    BY <1>6, <2>1
  <2>3. Least(Back) <= n - 1 - k /\ Least(Back) \in 0..n - 1
    BY <2>2, <1>4
  <2> QED
    BY <2>3
<1>7. \E m \in 0..n - 1 : HasPoint(m, p) /\ \A k \in 0..n - 1 : HasPoint(k, p) => k <= m
  BY <1>5, <1>6, Zenon
<1> QED
  BY <1>7, Zenon DEF Mapping

\* Where there is a point at all, the bound of a fingerprint is a point; it is
\* the first one at or after the fingerprint, or there is none and it is the
\* first of all.
LEMMA BoundIs ==
  ASSUME NEW n \in Nat, NEW hash \in Nat, Points(n) # {}
  PROVE  /\ Bound(n, hash) \in Points(n)
         /\ \/ /\ hash <= Bound(n, hash)
               /\ \A p \in Points(n) : hash <= p => Bound(n, hash) <= p
            \/ /\ \A p \in Points(n) : ~(hash <= p)
               /\ \A p \in Points(n) : Bound(n, hash) <= p
<1> DEFINE after == {p \in Points(n) : hash <= p}
<1>1. Points(n) \in SUBSET Nat /\ after \in SUBSET Nat
  BY DEF Points
<1>2. CASE after = {}
  <2>1. Bound(n, hash) = Least(Points(n))
    BY <1>2 DEF Bound
  <2> QED
    BY <2>1, <1>1, <1>2, LeastIs
<1>3. CASE after # {}
  <2>1. Bound(n, hash) = Least(after)
    BY <1>3 DEF Bound
  <2>2. Least(after) \in after /\ \A p \in after : Least(after) <= p
    BY <1>1, <1>3, LeastIs
  <2> QED
    BY <2>1, <2>2
<1> QED
  BY <1>2, <1>3

\* Servers have points: the constructor enters VIRTUAL_NODE_NUM of each.
LEMMA SomePoint ==
  ASSUME NEW n \in Nat \ {0}, VirtualNodeNum \in Nat \ {0}, Fingerprint \in Fingerprints
  PROVE  Points(n) # {}
<1>1. 0 \in 0..n - 1 /\ 0 \in Virtual
  BY DEF Virtual
<1>2. Fingerprint[0][0] \in Nat /\ HasPoint(0, Fingerprint[0][0])
  BY <1>1 DEF Fingerprints, HasPoint
<1> QED
  BY <1>1, <1>2 DEF Points

\* Every user has a server of the list: the look-up of session_server.cc never
\* leaves the map, whatever the user's fingerprint.
THEOREM EveryUserHasAServer ==
  ASSUME NEW n \in Nat \ {0}, NEW hash \in Nat,
         VirtualNodeNum \in Nat \ {0}, Fingerprint \in Fingerprints
  PROVE  Shard(n, hash) \in 0..n - 1
<1>1. n \in Nat /\ Points(n) # {}
  BY SomePoint
<1>2. Bound(n, hash) \in Points(n)
  BY <1>1, BoundIs
<1> QED
  BY <1>1, <1>2, MappingIs DEF Shard

\* A server added at the end of the list (index n) only takes users over: a user
\* whose server changes has moved to the new one, and no user moves between two
\* of the old servers. Fingerprints that collide make no exception.
THEOREM NewServerOnlyTakes ==
  ASSUME NEW n \in Nat \ {0}, NEW hash \in Nat,
         VirtualNodeNum \in Nat \ {0}, Fingerprint \in Fingerprints
  PROVE  Shard(n + 1, hash) # Shard(n, hash) => Shard(n + 1, hash) = n
<1> DEFINE b == Bound(n + 1, hash)
           a == Bound(n, hash)
<1>1. n \in Nat /\ n + 1 \in Nat \ {0} /\ n + 1 \in Nat
  OBVIOUS
<1>2. Points(n) # {} /\ Points(n + 1) # {}
  BY <1>1, SomePoint
<1>3. Points(n) \subseteq Points(n + 1) /\ Points(n + 1) \in SUBSET Nat
  BY DEF Points
<1>4. a \in Points(n) /\ b \in Points(n + 1)
  BY <1>1, <1>2, BoundIs
<1>5. /\ Mapping(n + 1, b) \in 0..n
      /\ HasPoint(Mapping(n + 1, b), b)
      /\ \A k \in 0..n : HasPoint(k, b) => k <= Mapping(n + 1, b)
  BY <1>1, <1>4, MappingIs
<1>6. CASE HasPoint(n, b)
  <2>1. n <= Mapping(n + 1, b)
    BY <1>5, <1>6
  <2> QED
    BY <1>5, <2>1 DEF Shard
<1>7. CASE ~HasPoint(n, b)
  <2>1. b \in Points(n)
    <3>1. PICK i \in 0..n : HasPoint(i, b)
      BY <1>4 DEF Points
    <3>2. i \in 0..n - 1
      BY <3>1, <1>7
    <3> QED
      BY <3>1, <3>2, <1>3, <1>4 DEF Points
  <2>2. a = b
    <3>1. \/ hash <= a /\ \A p \in Points(n) : hash <= p => a <= p
          \/ (\A p \in Points(n) : ~(hash <= p)) /\ \A p \in Points(n) : a <= p
      BY <1>1, <1>2, BoundIs
    <3>2. \/ hash <= b /\ \A p \in Points(n + 1) : hash <= p => b <= p
          \/ (\A p \in Points(n + 1) : ~(hash <= p)) /\ \A p \in Points(n + 1) : b <= p
      BY <1>1, <1>2, BoundIs
    <3>3. a \in Points(n + 1) /\ a \in Nat /\ b \in Nat
      BY <1>3, <1>4
    <3>4. a <= b /\ b <= a
      BY <1>4, <2>1, <3>1, <3>2, <3>3
    <3> QED
      BY <3>3, <3>4
  <2>3. /\ Mapping(n, b) \in 0..n - 1
        /\ HasPoint(Mapping(n, b), b)
        /\ \A k \in 0..n - 1 : HasPoint(k, b) => k <= Mapping(n, b)
    BY <1>1, <2>1, MappingIs
  <2>4. Mapping(n + 1, b) \in 0..n - 1
    BY <1>5, <1>7
  <2>5. Mapping(n + 1, b) = Mapping(n, b)
    BY <1>5, <2>3, <2>4
  <2> QED
    BY <2>2, <2>5 DEF Shard
<1> QED
  BY <1>6, <1>7
=============================================================================
