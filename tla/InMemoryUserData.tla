-------------------------- MODULE InMemoryUserData --------------------------
(***************************************************************************)
(* The per-user offline queue of the in-memory storage backend             *)
(* (class InMemoryUserData): a ring of FLAGS_max_offline_msg_num + 1 slots *)
(* with two cursors, the sequence numbers they stand for, and the last     *)
(* acknowledged sequence number.  The methods are operators on a record    *)
(* whose fields carry the C++ member names without their trailing "_".     *)
(*                                                                         *)
(* A slot is the C++ pair (expiry second, message pointer).  The text of a *)
(* message is abstracted to the sequence number SessionServer stamped into *)
(* it, and the null pointer to 0, which is no sequence number.             *)
(***************************************************************************)
EXTENDS Integers, Sequences

CONSTANT
  MaxOffline   \* FLAGS_max_offline_msg_num

ASSUME MaxOfflineAssumption == MaxOffline \in Nat \ {0}

Size == MaxOffline + 1

Slots == 0 .. MaxOffline

NullMsg == 0

EmptySlot == [expire |-> 0, msg |-> NullMsg]

\* What the constructor leaves behind.
NewUserData ==
  [head |-> 0, head_seq |-> 0, tail |-> 0, tail_seq |-> 0, ack |-> 0,
   msg_queue |-> [i \in Slots |-> EmptySlot]]

-----------------------------------------------------------------------------
\* if (++i == msg_queue_.size()) i = 0
Advance(i) == IF i + 1 = Size THEN 0 ELSE i + 1

\* A message saved without dropping the oldest one when the ring is full.
AddMessageNoDrop(q, msg, ttl, now) ==
  [q EXCEPT !.tail = Advance(@),
            !.tail_seq = @ + 1,
            !.msg_queue[q.tail] =
               [expire |-> IF ttl <= 0 THEN 0 ELSE now + ttl, msg |-> msg]]

\* AddMessage: write at the tail, advance it, and when the ring is full drop
\* the oldest message, pulling the acknowledged position along.
AddMessage(q, msg, ttl, now) ==
  LET tail     == Advance(q.tail)
      full     == tail = q.head
      head_seq == q.head_seq + 1
  IN  [head      |-> IF full THEN Advance(q.head) ELSE q.head,
       head_seq  |-> IF full THEN head_seq ELSE q.head_seq,
       tail      |-> tail,
       tail_seq  |-> q.tail_seq + 1,
       ack       |-> IF full /\ q.ack < head_seq THEN head_seq ELSE q.ack,
       msg_queue |-> [q.msg_queue EXCEPT ![q.tail] =
                       [expire |-> IF ttl <= 0 THEN 0 ELSE now + ttl,
                        msg    |-> msg]]]

SetAck(q, a) == [q EXCEPT !.ack = a]

-----------------------------------------------------------------------------
\* GetQueueInfo computes two results: where reading starts ...
StartPos(q) ==
  IF q.ack > q.head_seq
    THEN (q.head + q.ack - q.head_seq + Size) % Size
    ELSE q.head

\* ... and how many slots there are from there to the tail.
QueueLen(q) == (q.tail + Size - StartPos(q)) % Size

IsMsgOK(slot, now) ==
  /\ slot.expire <= 0 \/ now < slot.expire
  /\ slot.msg # NullMsg

\* The indices i, i + 1, ..., j - 1 of one of the two reading loops.
Span(i, j) == [k \in 1 .. (IF i < j THEN j - i ELSE 0) |-> i + k - 1]

\* The reading loops lose their second half, from slot 0 to the tail.
VisitedNoWrap(q) ==
  LET start == StartPos(q)
  IN  IF QueueLen(q) = 0
        THEN << >>
        ELSE IF q.tail < start THEN Span(start, Size) ELSE Span(start, q.tail)

\* The slots GetMessages and Dump visit, in order.
Visited(q) ==
  LET start == StartPos(q)
  IN  IF QueueLen(q) = 0
        THEN << >>
        ELSE IF q.tail < start
               THEN Span(start, Size) \o Span(0, q.tail)
               ELSE Span(start, q.tail)

\* GetMessages: the live messages among the visited slots, pushed back one by
\* one; msgs[k] is the result after k turns of the loops.
GetMessages(q, now) ==
  LET visited == Visited(q)
      msgs[k \in 0 .. Len(visited)] ==
        IF k = 0 THEN << >>
        ELSE LET slot == q.msg_queue[visited[k]]
             IN  IF IsMsgOK(slot, now) THEN Append(msgs[k - 1], slot.msg) ELSE msgs[k - 1]
  IN  msgs[Len(visited)]

GetMaxSeq(q) == q.tail_seq

-----------------------------------------------------------------------------
\* Dump writes the cursors and, by index, the messages GetMessages would
\* return.  A user that never got a message is not written (Dump returns
\* false), which reads back as a newly constructed one.
Dump(q, now) ==
  LET visited == Visited(q)
      kept    == {visited[k] : k \in DOMAIN visited}
      live    == {i \in kept : IsMsgOK(q.msg_queue[i], now)}
  IN  IF q.tail_seq = 0
        THEN [cursors |-> NewUserData, msgs |-> << >>]
        ELSE [cursors |-> [q EXCEPT !.msg_queue = NewUserData.msg_queue],
              msgs    |-> [i \in live |-> q.msg_queue[i]]]

\* Load that forgets the acknowledged position.
LoadNoAck(d) ==
  [d.cursors EXCEPT !.ack = 0,
     !.msg_queue =
       [i \in Slots |-> IF i \in DOMAIN d.msgs THEN d.msgs[i] ELSE EmptySlot]]

\* Load into a newly constructed object.
Load(d) ==
  [d.cursors EXCEPT !.msg_queue =
     [i \in Slots |-> IF i \in DOMAIN d.msgs THEN d.msgs[i] ELSE EmptySlot]]
=============================================================================
