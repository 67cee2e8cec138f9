--------------------------- MODULE UserCircleQueue ---------------------------
(***************************************************************************)
(* The timeout wheel of SessionServer (class UserCircleQueue): a circle of *)
(* buckets, each an intrusive doubly linked list (DLinkedList) of User     *)
(* objects.  The list pointers live in the User objects and in the         *)
(* buckets, so one record q holds the wheel:                               *)
(*   head                     the bucket the next timer tick looks at      *)
(*   buffer                   the list header of every bucket              *)
(*   prev, next, queue_index  the members of every User object             *)
(* The methods are operators on that record.                               *)
(***************************************************************************)
EXTENDS Integers, FiniteSets

CONSTANTS
  Objects,   \* addresses a User can be allocated at
  Null,      \* the null pointer
  Size       \* timeout_counter_ = poll_timeout_sec / timer_interval_sec

ASSUME UserCircleQueueAssumption ==
  /\ Null \notin Objects
  /\ Size \in Nat \ {0}
  /\ IsFiniteSet(Objects)

Buckets == 0 .. Size - 1

EmptyList == [size |-> 0, head |-> Null, tail |-> Null]

NewQueue ==
  [head        |-> 0,
   buffer      |-> [b \in Buckets |-> EmptyList],
   prev        |-> [o \in Objects |-> Null],
   next        |-> [o \in Objects |-> Null],
   queue_index |-> [o \in Objects |-> -1]]

\* The members of a newly constructed User.  A destroyed one gets the same
\* values, as nothing may read them.
ResetUser(q, o) ==
  [q EXCEPT !.prev[o] = Null, !.next[o] = Null, !.queue_index[o] = -1]

-----------------------------------------------------------------------------
\* Remove that does not link the successor back.
DListRemoveOneWay(q, b, o) ==
  [q EXCEPT
     !.next = [x \in Objects |-> IF x = q.prev[o] THEN q.next[o] ELSE @[x]],
     !.buffer[b] = [size |-> @.size - 1,
                    head |-> IF @.head = o THEN q.next[o] ELSE @.head,
                    tail |-> IF @.tail = o THEN q.prev[o] ELSE @.tail]]

\* DLinkedList::Remove on bucket b.  The links of o itself stay.
DListRemove(q, b, o) ==
  [q EXCEPT
     !.next = [x \in Objects |-> IF x = q.prev[o] THEN q.next[o] ELSE @[x]],
     !.prev = [x \in Objects |-> IF x = q.next[o] THEN q.prev[o] ELSE @[x]],
     !.buffer[b] = [size |-> @.size - 1,
                    head |-> IF @.head = o THEN q.next[o] ELSE @.head,
                    tail |-> IF @.tail = o THEN q.prev[o] ELSE @.tail]]

\* DLinkedList::PushBack on bucket b.
DListPushBack(q, b, o) ==
  LET last == q.buffer[b].tail IN
  [q EXCEPT
     !.prev[o] = last,
     !.next = [x \in Objects |-> IF x = last THEN o
                                 ELSE IF x = o THEN Null ELSE @[x]],
     !.buffer[b] = [size |-> @.size + 1,
                    head |-> IF last = Null THEN o ELSE @.head,
                    tail |-> o]]

RemoveUser(q, o) ==
  IF q.queue_index[o] # -1 THEN DListRemove(q, q.queue_index[o], o) ELSE q

\* A user put into the bucket of the next tick instead of the last one.
PushUserBackAtHead(q, o) ==
  [DListPushBack(RemoveUser(q, o), q.head, o) EXCEPT !.queue_index[o] = q.head]

\* The bucket behind the head is the one the wheel reaches last.
PushUserBack(q, o) ==
  LET tail == (q.head - 1 + Size) % Size
  IN  [DListPushBack(RemoveUser(q, o), tail, o) EXCEPT !.queue_index[o] = tail]

\* A wheel that turns two buckets at a tick.
IncHeadSkip(q) == [q EXCEPT !.head = (@ + 2) % Size]

IncHead(q) == [q EXCEPT !.head = (@ + 1) % Size]

-----------------------------------------------------------------------------
QueueType ==
  [head        : Buckets,
   buffer      : [Buckets -> [size : Int, head : Objects \cup {Null},
                              tail : Objects \cup {Null}]],
   prev        : [Objects -> Objects \cup {Null}],
   next        : [Objects -> Objects \cup {Null}],
   queue_index : [Objects -> Buckets \cup {-1}]]

\* User o and its neighbours agree on being neighbours, or the bucket knows it
\* as one of its ends; S are the users in the wheel, and no link leaves S.
LinkedUser(q, S, o) ==
  LET b == q.queue_index[o]
      p == q.prev[o]
      n == q.next[o]
  IN  /\ b \in Buckets
      /\ IF n = Null THEN q.buffer[b].tail = o
         ELSE n \in S /\ q.queue_index[n] = b /\ q.prev[n] = o
      /\ IF p = Null THEN q.buffer[b].head = o
         ELSE p \in S /\ q.queue_index[p] = b /\ q.next[p] = o

\* The ends of bucket b are users of that bucket with no further neighbour.
LinkedBucket(q, S, b) ==
  LET h == q.buffer[b].head
      t == q.buffer[b].tail
  IN  /\ h = Null <=> t = Null
      /\ h # Null => h \in S /\ q.queue_index[h] = b /\ q.prev[h] = Null
      /\ t # Null => t \in S /\ q.queue_index[t] = b /\ q.next[t] = Null

Linked(q, S) ==
  /\ \A o \in S : LinkedUser(q, S, o)
  /\ \A b \in Buckets : LinkedBucket(q, S, b)

\* The n-th object from p on, following the links f.
Follow(f, p, n) ==
  LET at[i \in 0 .. n] ==
        IF i = 0 THEN p ELSE IF at[i - 1] = Null THEN Null ELSE f[at[i - 1]]
  IN  at[n]

Chain(f, p) == {Follow(f, p, n) : n \in 0 .. Cardinality(Objects)} \ {Null}
=============================================================================
