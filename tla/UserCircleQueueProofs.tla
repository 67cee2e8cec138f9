----------------------- MODULE UserCircleQueueProofs -----------------------
(***************************************************************************)
(* The timeout wheel, for every number of buckets and of User objects: what*)
(* its operations do to a consistent set of links, and that a consistent   *)
(* set of links makes every bucket a list of its users.                    *)
(***************************************************************************)
EXTENDS UserCircleQueue, FiniteSetTheorems, WellFoundedInduction, TLAPS
-----------------------------------------------------------------------------
(* What the operations write.                                              *)

LEMMA ResetUserIs ==
  ASSUME NEW q \in QueueType, NEW o \in Objects
  PROVE  LET r == ResetUser(q, o) IN
         /\ r \in QueueType
         /\ r.head = q.head /\ r.buffer = q.buffer
         /\ r.queue_index[o] = -1
         /\ \A x \in Objects \ {o} :
              /\ r.prev[x] = q.prev[x] /\ r.next[x] = q.next[x]
              /\ r.queue_index[x] = q.queue_index[x]
BY Zenon DEF QueueType, ResetUser

LEMMA DListRemoveIs ==
  ASSUME NEW q \in QueueType, NEW o \in Objects, NEW b \in Buckets
  PROVE  LET r == DListRemove(q, b, o) IN
         /\ r \in QueueType
         /\ r.head = q.head /\ r.queue_index = q.queue_index
         /\ \A x \in Objects :
              /\ r.next[x] = IF x = q.prev[o] THEN q.next[o] ELSE q.next[x]
              /\ r.prev[x] = IF x = q.next[o] THEN q.prev[o] ELSE q.prev[x]
         /\ \A c \in Buckets \ {b} : r.buffer[c] = q.buffer[c]
         /\ r.buffer[b].head = IF q.buffer[b].head = o THEN q.next[o]
                               ELSE q.buffer[b].head
         /\ r.buffer[b].tail = IF q.buffer[b].tail = o THEN q.prev[o]
                               ELSE q.buffer[b].tail
         /\ r.buffer[b].size = q.buffer[b].size - 1
<1> DEFINE r == DListRemove(q, b, o)
           nx == [x \in Objects |-> IF x = q.prev[o] THEN q.next[o] ELSE q.next[x]]
           pv == [x \in Objects |-> IF x = q.next[o] THEN q.prev[o] ELSE q.prev[x]]
           hd == [size |-> q.buffer[b].size - 1,
                  head |-> IF q.buffer[b].head = o THEN q.next[o]
                           ELSE q.buffer[b].head,
                  tail |-> IF q.buffer[b].tail = o THEN q.prev[o]
                           ELSE q.buffer[b].tail]
           bf == [q.buffer EXCEPT ![b] = hd]
<1>1. r = [q EXCEPT !.next = nx, !.prev = pv, !.buffer = bf]
  BY DEF QueueType, DListRemove
<1>2. nx \in [Objects -> Objects \cup {Null}] /\ pv \in [Objects -> Objects \cup {Null}]
  BY DEF QueueType
<1>3. hd \in [size : Int, head : Objects \cup {Null}, tail : Objects \cup {Null}]
  BY DEF QueueType
<1>4. /\ hd.head = IF q.buffer[b].head = o THEN q.next[o] ELSE q.buffer[b].head
      /\ hd.tail = IF q.buffer[b].tail = o THEN q.prev[o] ELSE q.buffer[b].tail
      /\ hd.size = q.buffer[b].size - 1
  OBVIOUS
<1> HIDE DEF hd
<1>5. /\ bf \in [Buckets -> [size : Int, head : Objects \cup {Null},
                              tail : Objects \cup {Null}]]
      /\ \A c \in Buckets \ {b} : bf[c] = q.buffer[c]
      /\ bf[b] = hd
  BY <1>3 DEF QueueType
<1> HIDE DEF bf, nx, pv
<1>6. /\ r \in QueueType /\ r.head = q.head /\ r.queue_index = q.queue_index
      /\ r.next = nx /\ r.prev = pv /\ r.buffer = bf
  BY <1>1, <1>2, <1>5, Zenon DEF QueueType
<1>7. \A x \in Objects :
        /\ nx[x] = IF x = q.prev[o] THEN q.next[o] ELSE q.next[x]
        /\ pv[x] = IF x = q.next[o] THEN q.prev[o] ELSE q.prev[x]
  BY DEF nx, pv
<1> HIDE DEF r
<1>8. /\ r \in QueueType
      /\ r.head = q.head /\ r.queue_index = q.queue_index
      /\ \A x \in Objects :
           /\ r.next[x] = IF x = q.prev[o] THEN q.next[o] ELSE q.next[x]
           /\ r.prev[x] = IF x = q.next[o] THEN q.prev[o] ELSE q.prev[x]
      /\ \A c \in Buckets \ {b} : r.buffer[c] = q.buffer[c]
      /\ r.buffer[b] = hd
  BY <1>5, <1>6, <1>7
<1> QED
  BY <1>4, <1>8 DEF r

LEMMA DListPushBackIs ==
  ASSUME NEW q \in QueueType, NEW o \in Objects, NEW b \in Buckets
  PROVE  LET r == DListPushBack(q, b, o)
             last == q.buffer[b].tail IN
         /\ r \in QueueType
         /\ r.head = q.head /\ r.queue_index = q.queue_index
         /\ \A x \in Objects :
              /\ r.next[x] = IF x = last THEN o ELSE IF x = o THEN Null ELSE q.next[x]
              /\ r.prev[x] = IF x = o THEN last ELSE q.prev[x]
         /\ \A c \in Buckets \ {b} : r.buffer[c] = q.buffer[c]
         /\ r.buffer[b].head = IF last = Null THEN o ELSE q.buffer[b].head
         /\ r.buffer[b].tail = o
         /\ r.buffer[b].size = q.buffer[b].size + 1
<1> DEFINE r == DListPushBack(q, b, o)
           last == q.buffer[b].tail
           nx == [x \in Objects |-> IF x = last THEN o
                                    ELSE IF x = o THEN Null ELSE q.next[x]]
           pv == [q.prev EXCEPT ![o] = last]
           hd == [size |-> q.buffer[b].size + 1,
                  head |-> IF last = Null THEN o ELSE q.buffer[b].head,
                  tail |-> o]
           bf == [q.buffer EXCEPT ![b] = hd]
<1>1. r = [q EXCEPT !.prev = pv, !.next = nx, !.buffer = bf]
  BY DEF QueueType, DListPushBack
<1>2. nx \in [Objects -> Objects \cup {Null}] /\ pv \in [Objects -> Objects \cup {Null}]
  BY DEF QueueType
<1>3. hd \in [size : Int, head : Objects \cup {Null}, tail : Objects \cup {Null}]
  BY DEF QueueType
<1>4. /\ hd.head = IF last = Null THEN o ELSE q.buffer[b].head
      /\ hd.tail = o /\ hd.size = q.buffer[b].size + 1
  OBVIOUS
<1> HIDE DEF hd
<1>5. /\ bf \in [Buckets -> [size : Int, head : Objects \cup {Null},
                              tail : Objects \cup {Null}]]
      /\ \A c \in Buckets \ {b} : bf[c] = q.buffer[c]
      /\ bf[b] = hd
  BY <1>3 DEF QueueType
<1> HIDE DEF bf, nx, pv
<1>6. /\ r \in QueueType /\ r.head = q.head /\ r.queue_index = q.queue_index
      /\ r.next = nx /\ r.prev = pv /\ r.buffer = bf
  BY <1>1, <1>2, <1>5, Zenon DEF QueueType
<1>7. \A x \in Objects :
        /\ nx[x] = IF x = last THEN o ELSE IF x = o THEN Null ELSE q.next[x]
        /\ pv[x] = IF x = o THEN last ELSE q.prev[x]
  BY DEF nx, pv, QueueType
<1> HIDE DEF r
<1>8. /\ r \in QueueType
      /\ r.head = q.head /\ r.queue_index = q.queue_index
      /\ \A x \in Objects :
           /\ r.next[x] = IF x = last THEN o ELSE IF x = o THEN Null ELSE q.next[x]
           /\ r.prev[x] = IF x = o THEN last ELSE q.prev[x]
      /\ \A c \in Buckets \ {b} : r.buffer[c] = q.buffer[c]
      /\ r.buffer[b] = hd
  BY <1>5, <1>6, <1>7
<1> QED
  BY <1>4, <1>8 DEF r

-----------------------------------------------------------------------------
(* Local agreement of the links does not exclude a circle, and in a circle *)
(* of one the iterator of OnTimer would stay on the User it destroys.  So  *)
(* the invariant also says that the links lead upwards in some ranking.    *)
Acyclic(q, S) ==
  \E rank \in [Objects -> Int] :
    \A o \in S : q.next[o] # Null => rank[o] < rank[q.next[o]]

\* The users of S in bucket b, by their own account.
Listed(q, S, b) == {o \in S : q.queue_index[o] = b}

Sized(q, S) == \A b \in Buckets : q.buffer[b].size = Cardinality(Listed(q, S, b))

Wheel(q, S) == Linked(q, S) /\ Acyclic(q, S) /\ Sized(q, S)

LEMMA ListedFinite ==
  ASSUME NEW q, NEW S \in SUBSET Objects, NEW b
  PROVE  /\ IsFiniteSet(Listed(q, S, b)) /\ Listed(q, S, b) \in SUBSET Objects
         /\ Cardinality(Listed(q, S, b)) \in Nat
<1>1. Listed(q, S, b) \in SUBSET Objects
  BY DEF Listed
<1> QED
  BY <1>1, UserCircleQueueAssumption, FS_Subset, FS_CardinalityType

\* The links of an object outside the wheel do not matter.
LEMMA ResetUserWheel ==
  ASSUME NEW q \in QueueType, NEW S \in SUBSET Objects, Wheel(q, S),
         NEW o \in Objects, o \notin S
  PROVE  Wheel(ResetUser(q, o), S)
<1> USE DEF Wheel
<1> DEFINE r == ResetUser(q, o)
<1>1. /\ r.buffer = q.buffer
      /\ \A x \in Objects \ {o} :
           /\ r.prev[x] = q.prev[x] /\ r.next[x] = q.next[x]
           /\ r.queue_index[x] = q.queue_index[x]
  BY ResetUserIs
<1> HIDE DEF r
<1>2. ASSUME NEW x \in S PROVE LinkedUser(r, S, x)
  <2>1. LinkedUser(q, S, x)
    BY DEF Linked
  <2>2. q.next[x] \in Objects \cup {Null} /\ q.prev[x] \in Objects \cup {Null}
    BY DEF QueueType
  <2> QED
    BY <1>1, <2>1, <2>2 DEF LinkedUser
<1>3. ASSUME NEW b \in Buckets PROVE LinkedBucket(r, S, b)
  <2>1. LinkedBucket(q, S, b)
    BY DEF Linked
  <2> QED
    BY <1>1, <2>1 DEF LinkedBucket
<1>4. Acyclic(r, S)
  BY <1>1 DEF Acyclic
<1>5. Sized(r, S)
  <2>1. \A b \in Buckets : Listed(r, S, b) = Listed(q, S, b)
    BY <1>1 DEF Listed
  <2> QED
    BY <1>1, <2>1 DEF Sized
<1> QED
  BY <1>2, <1>3, <1>4, <1>5 DEF Linked, r

\* Taking a user out of its bucket leaves the others linked.
LEMMA RemoveUserWheel ==
  ASSUME NEW q \in QueueType, NEW S \in SUBSET Objects, Wheel(q, S),
         NEW o \in S
  PROVE  /\ RemoveUser(q, o) \in QueueType
         /\ RemoveUser(q, o).head = q.head
         /\ RemoveUser(q, o).queue_index = q.queue_index
         /\ Wheel(RemoveUser(q, o), S \ {o})
<1> USE DEF Wheel
<1> DEFINE b == q.queue_index[o]
           r == DListRemove(q, b, o)
           on == q.next[o]
           op == q.prev[o]
<1>1. o \in Objects /\ b \in Buckets /\ LinkedUser(q, S, o) /\ LinkedBucket(q, S, b)
  BY DEF Linked, LinkedUser
<1>2. RemoveUser(q, o) = r
  BY <1>1, UserCircleQueueAssumption DEF RemoveUser, Buckets
<1>3. /\ r \in QueueType
      /\ r.head = q.head /\ r.queue_index = q.queue_index
      /\ \A x \in Objects :
           /\ r.next[x] = IF x = op THEN on ELSE q.next[x]
           /\ r.prev[x] = IF x = on THEN op ELSE q.prev[x]
      /\ \A c \in Buckets \ {b} : r.buffer[c] = q.buffer[c]
      /\ r.buffer[b].head = IF q.buffer[b].head = o THEN on ELSE q.buffer[b].head
      /\ r.buffer[b].tail = IF q.buffer[b].tail = o THEN op ELSE q.buffer[b].tail
      /\ r.buffer[b].size = q.buffer[b].size - 1
  <2> HIDE DEF b
  <2> QED
    BY <1>1, DListRemoveIs
<1>4. Linked(r, S \ {o})
  <2> HIDE DEF r
  <2>1. ASSUME NEW x \in S \ {o} PROVE LinkedUser(r, S \ {o}, x)
    <3>1. /\ x \in Objects /\ LinkedUser(q, S, x)
          /\ q.next[x] \in Objects \cup {Null} /\ q.prev[x] \in Objects \cup {Null}
      BY DEF Linked, QueueType
    <3>2. /\ r.queue_index[x] \in Buckets
          /\ IF r.next[x] = Null THEN r.buffer[r.queue_index[x]].tail = x
             ELSE /\ r.next[x] \in S \ {o}
                  /\ r.queue_index[r.next[x]] = r.queue_index[x]
                  /\ r.prev[r.next[x]] = x
      <4>1. CASE x = op
        <5>1. o # Null /\ x # Null /\ q.next[x] = o /\ q.queue_index[x] = b
          BY <1>1, <3>1, <4>1, UserCircleQueueAssumption, SMTT(30) DEF LinkedUser
        <5>2. r.next[x] = on /\ r.queue_index[x] = b
          BY <1>3, <3>1, <4>1, <5>1
        <5>3. CASE on = Null
          <6>1. q.buffer[b].tail = o
            BY <1>1, <5>3 DEF LinkedUser
          <6> QED
            BY <1>1, <1>3, <4>1, <5>2, <5>3, <6>1
        <5>4. CASE on # Null
          <6>1. on \in S /\ q.queue_index[on] = b /\ q.prev[on] = o
            BY <1>1, <5>4 DEF LinkedUser
          <6>2. on # o
            BY <4>1, <6>1
          <6>3. r.prev[on] = x /\ r.queue_index[on] = b
            BY <1>3, <4>1, <6>1
          <6> QED
            BY <1>1, <5>2, <5>4, <6>1, <6>2, <6>3
        <5> QED
          BY <5>3, <5>4
      <4>2. CASE x # op
        BY <1>1, <1>3, <3>1, <4>2, UserCircleQueueAssumption, SMTT(30) DEF LinkedUser, LinkedBucket
      <4> QED
        BY <4>1, <4>2
    <3>3. IF r.prev[x] = Null THEN r.buffer[r.queue_index[x]].head = x
          ELSE /\ r.prev[x] \in S \ {o}
               /\ r.queue_index[r.prev[x]] = r.queue_index[x]
               /\ r.next[r.prev[x]] = x
      <4>1. CASE x = on
        <5>1. o # Null /\ x # Null /\ q.prev[x] = o /\ q.queue_index[x] = b
          BY <1>1, <3>1, <4>1, UserCircleQueueAssumption, SMTT(30) DEF LinkedUser
        <5>2. r.prev[x] = op /\ r.queue_index[x] = b
          BY <1>3, <3>1, <4>1, <5>1
        <5>3. CASE op = Null
          <6>1. q.buffer[b].head = o
            BY <1>1, <5>3 DEF LinkedUser
          <6> QED
            BY <1>1, <1>3, <4>1, <5>2, <5>3, <6>1
        <5>4. CASE op # Null
          <6>1. op \in S /\ q.queue_index[op] = b /\ q.next[op] = o
            BY <1>1, <5>4 DEF LinkedUser
          <6>2. op # o
            BY <4>1, <6>1
          <6>3. r.next[op] = x /\ r.queue_index[op] = b
            BY <1>3, <4>1, <6>1
          <6> QED
            BY <1>1, <5>2, <5>4, <6>1, <6>2, <6>3
        <5> QED
          BY <5>3, <5>4
      <4>2. CASE x # on
        BY <1>1, <1>3, <3>1, <4>2, UserCircleQueueAssumption, SMTT(30) DEF LinkedUser, LinkedBucket
      <4> QED
        BY <4>1, <4>2
    <3> QED
      BY <3>2, <3>3 DEF LinkedUser
  <2>2. ASSUME NEW c \in Buckets PROVE LinkedBucket(r, S \ {o}, c)
    <3>1. LinkedBucket(q, S, c)
      BY SMTT(20) DEF Linked
    <3>2. CASE c = b
      <4> DEFINE h == r.buffer[b].head
                 t == r.buffer[b].tail
      <4>1. on \in Objects \cup {Null} /\ op \in Objects \cup {Null}
        BY <1>1 DEF QueueType
      <4>2. h # Null => h \in S \ {o} /\ r.queue_index[h] = b /\ r.prev[h] = Null
        <5>1. CASE q.buffer[b].head = o
          <6>1. h = on /\ q.prev[o] = Null
            BY <1>1, <1>3, <5>1, UserCircleQueueAssumption DEF LinkedBucket
          <6>2. on # Null => on \in S \ {o} /\ q.queue_index[on] = b
            BY <1>1, <6>1, UserCircleQueueAssumption DEF LinkedUser
          <6>3. on # Null => r.prev[on] = op
            BY <1>3, <6>2
          <6> QED
            BY <1>3, <6>1, <6>2, <6>3
        <5>2. CASE q.buffer[b].head # o
          <6>1. h = q.buffer[b].head
            BY <1>3, <5>2
          <6>2. h # Null => h \in S \ {o} /\ q.queue_index[h] = b /\ q.prev[h] = Null
            BY <1>1, <5>2, <6>1 DEF LinkedBucket
          <6>3. h # Null => h # on
            BY <1>1, <6>2, UserCircleQueueAssumption DEF LinkedUser
          <6> HIDE DEF h, on, b
          <6> QED
            BY <1>3, <6>2, <6>3
        <5> QED
          BY <5>1, <5>2
      <4>3. t # Null => t \in S \ {o} /\ r.queue_index[t] = b /\ r.next[t] = Null
        <5>1. CASE q.buffer[b].tail = o
          <6>1. t = op /\ q.next[o] = Null
            BY <1>1, <1>3, <5>1, UserCircleQueueAssumption DEF LinkedBucket
          <6>2. op # Null => op \in S \ {o} /\ q.queue_index[op] = b
            BY <1>1, <6>1, UserCircleQueueAssumption DEF LinkedUser
          <6>3. op # Null => r.next[op] = on
            BY <1>3, <6>2
          <6> QED
            BY <1>3, <6>1, <6>2, <6>3
        <5>2. CASE q.buffer[b].tail # o
          <6>1. t = q.buffer[b].tail
            BY <1>3, <5>2
          <6>2. t # Null => t \in S \ {o} /\ q.queue_index[t] = b /\ q.next[t] = Null
            BY <1>1, <5>2, <6>1 DEF LinkedBucket
          <6>3. t # Null => t # op
            BY <1>1, <6>2, UserCircleQueueAssumption DEF LinkedUser
          <6> HIDE DEF t, op, b
          <6> QED
            BY <1>3, <6>2, <6>3
        <5> QED
          BY <5>1, <5>2
      <4>4. h = Null <=> t = Null
        BY <1>1, <1>3, <4>1, UserCircleQueueAssumption, ZenonT(60) DEF LinkedUser, LinkedBucket
      <4> QED
        BY <3>2, <4>2, <4>3, <4>4 DEF LinkedBucket
    <3>3. CASE c # b
      <4> DEFINE h == q.buffer[c].head
                 t == q.buffer[c].tail
      <4>1. r.buffer[c] = q.buffer[c]
        BY <1>3, <3>3
      <4>2. /\ on # Null => q.queue_index[on] = b
            /\ op # Null => q.queue_index[op] = b
        BY <1>1 DEF LinkedUser
      <4>3. /\ h = Null <=> t = Null
            /\ h # Null => h \in S /\ q.queue_index[h] = c /\ q.prev[h] = Null
            /\ t # Null => t \in S /\ q.queue_index[t] = c /\ q.next[t] = Null
        BY <3>1 DEF LinkedBucket
      <4> HIDE DEF h, t, b, on, op
      <4>4. ASSUME h # Null
            PROVE  h \in S \ {o} /\ r.queue_index[h] = c /\ r.prev[h] = Null
        <5>1. h # o /\ h # on /\ h \in Objects
          BY <3>3, <4>2, <4>3, <4>4 DEF b
        <5> QED
          BY <1>3, <4>3, <4>4, <5>1
      <4>5. ASSUME t # Null
            PROVE  t \in S \ {o} /\ r.queue_index[t] = c /\ r.next[t] = Null
        <5>1. t # o /\ t # op /\ t \in Objects
          BY <3>3, <4>2, <4>3, <4>5 DEF b
        <5> QED
          BY <1>3, <4>3, <4>5, <5>1
      <4> QED
        BY <4>1, <4>3, <4>4, <4>5 DEF LinkedBucket, h, t
    <3> QED
      BY <3>2, <3>3
  <2> QED
    BY <2>1, <2>2 DEF Linked
<1>5. Acyclic(r, S \ {o})
  <2> HIDE DEF r
  <2>1. PICK rank \in [Objects -> Int] :
          \A x \in S : q.next[x] # Null => rank[x] < rank[q.next[x]]
    BY DEF Acyclic
  <2>2. ASSUME NEW x \in S \ {o}, r.next[x] # Null
        PROVE  rank[x] < rank[r.next[x]]
    <3>1. CASE x = op
      <4>1. q.next[x] = o /\ on # Null /\ on \in Objects
        BY <1>1, <1>3, <2>2, <3>1, UserCircleQueueAssumption DEF LinkedUser
      <4>2. rank[x] < rank[o] /\ rank[o] < rank[on]
        BY <1>1, <2>1, <4>1, UserCircleQueueAssumption
      <4>3. rank[x] \in Int /\ rank[o] \in Int /\ rank[on] \in Int
        BY <1>1, <4>1
      <4>4. r.next[x] = on
        BY <1>3, <3>1
      <4> HIDE DEF on
      <4> QED
        BY <4>2, <4>3, <4>4
    <3>2. CASE x # op
      BY <1>3, <2>1, <2>2, <3>2
    <3> QED
      BY <3>1, <3>2
  <2> QED
    BY <2>2 DEF Acyclic
<1>6. Sized(r, S \ {o})
  <2> HIDE DEF r
  <2>1. ASSUME NEW c \in Buckets
        PROVE  r.buffer[c].size = Cardinality(Listed(r, S \ {o}, c))
    <3>1. q.buffer[c].size = Cardinality(Listed(q, S, c))
      BY DEF Sized
    <3>2. IsFiniteSet(Listed(q, S, c))
      BY ListedFinite
    <3>3. CASE c = b
      <4>1. Listed(r, S \ {o}, c) = Listed(q, S, c) \ {o} /\ o \in Listed(q, S, c)
        BY <1>3, <3>3 DEF Listed
      <4>2. Cardinality(Listed(q, S, c) \ {o}) = Cardinality(Listed(q, S, c)) - 1
        BY <3>2, <4>1, FS_RemoveElement, Zenon
      <4> QED
        BY <1>3, <3>1, <3>3, <4>1, <4>2, Zenon
    <3>4. CASE c # b
      <4>1. Listed(r, S \ {o}, c) = Listed(q, S, c)
        BY <1>3, <3>4 DEF Listed
      <4> QED
        BY <1>3, <3>1, <3>4, <4>1
    <3> QED
      BY <3>3, <3>4
  <2> QED
    BY <2>1 DEF Sized
<1> QED
  BY <1>2, <1>3, <1>4, <1>5, <1>6

\* What PushUserBack does with a user that is in no bucket.
Pushed(q, b, o) == [DListPushBack(q, b, o) EXCEPT !.queue_index[o] = b]

LEMMA PushedIndex ==
  ASSUME NEW q \in QueueType, NEW o \in Objects, NEW b \in Buckets
  PROVE  \A x \in Objects : Pushed(q, b, o).queue_index[x] =
                             IF x = o THEN b ELSE q.queue_index[x]
<1> DEFINE m == DListPushBack(q, b, o)
<1>1. m \in QueueType /\ m.queue_index = q.queue_index
  BY DListPushBackIs
<1> HIDE DEF m
<1>2. Pushed(q, b, o) = [m EXCEPT !.queue_index[o] = b]
  BY DEF Pushed, m
<1> QED
  BY <1>1, <1>2 DEF QueueType

\* A user outside the wheel is put at the end of a bucket.
LEMMA PushBackWheel ==
  ASSUME NEW q \in QueueType, NEW S \in SUBSET Objects, Wheel(q, S),
         NEW o \in Objects, o \notin S, NEW b \in Buckets
  PROVE  /\ Pushed(q, b, o) \in QueueType
         /\ Pushed(q, b, o).head = q.head
         /\ Wheel(Pushed(q, b, o), S \cup {o})
<1> USE DEF Wheel
<1> DEFINE m == DListPushBack(q, b, o)
           r == [m EXCEPT !.queue_index[o] = b]
           last == q.buffer[b].tail
<1>1. /\ m \in QueueType
      /\ m.head = q.head /\ m.queue_index = q.queue_index
      /\ \A x \in Objects :
           /\ m.next[x] = IF x = last THEN o ELSE IF x = o THEN Null ELSE q.next[x]
           /\ m.prev[x] = IF x = o THEN last ELSE q.prev[x]
      /\ \A c \in Buckets \ {b} : m.buffer[c] = q.buffer[c]
      /\ m.buffer[b].head = IF last = Null THEN o ELSE q.buffer[b].head
      /\ m.buffer[b].tail = o
      /\ m.buffer[b].size = q.buffer[b].size + 1
  BY DListPushBackIs
<1> HIDE DEF m
<1>2. /\ r \in QueueType /\ r.head = m.head /\ r.buffer = m.buffer
      /\ r.prev = m.prev /\ r.next = m.next
      /\ r.queue_index = [m.queue_index EXCEPT ![o] = b]
  BY <1>1, Zenon DEF QueueType
<1>3. \A x \in Objects : r.queue_index[x] = IF x = o THEN b ELSE q.queue_index[x]
  BY <1>1, <1>2 DEF QueueType
<1> HIDE DEF r
<1>4. LinkedBucket(q, S, b)
  BY DEF Linked
<1>5. last \in Objects \cup {Null}
  BY DEF QueueType
<1>6. ASSUME NEW x \in S \cup {o} PROVE LinkedUser(r, S \cup {o}, x)
  <2>1. CASE x = o
    BY <1>1, <1>2, <1>3, <1>4, <1>5, <2>1, UserCircleQueueAssumption
       DEF LinkedUser, LinkedBucket
  <2>2. CASE x # o
    <3>1. /\ x \in Objects /\ LinkedUser(q, S, x) /\ x \in S
          /\ q.next[x] \in Objects \cup {Null} /\ q.prev[x] \in Objects \cup {Null}
      BY <2>2 DEF Linked, QueueType
    <3>2. /\ r.queue_index[x] \in Buckets
          /\ IF r.next[x] = Null THEN r.buffer[r.queue_index[x]].tail = x
             ELSE /\ r.next[x] \in S \cup {o}
                  /\ r.queue_index[r.next[x]] = r.queue_index[x]
                  /\ r.prev[r.next[x]] = x
      BY <1>1, <1>2, <1>3, <1>4, <1>5, <2>2, <3>1, UserCircleQueueAssumption
         DEF LinkedUser, LinkedBucket
    <3>3. IF r.prev[x] = Null THEN r.buffer[r.queue_index[x]].head = x
          ELSE /\ r.prev[x] \in S \cup {o}
               /\ r.queue_index[r.prev[x]] = r.queue_index[x]
               /\ r.next[r.prev[x]] = x
      BY <1>1, <1>2, <1>3, <1>4, <1>5, <2>2, <3>1, UserCircleQueueAssumption
         DEF LinkedUser, LinkedBucket
    <3> QED
      BY <3>2, <3>3 DEF LinkedUser
  <2> QED
    BY <2>1, <2>2
<1>7. ASSUME NEW c \in Buckets PROVE LinkedBucket(r, S \cup {o}, c)
  <2>1. LinkedBucket(q, S, c)
    BY DEF Linked
  <2>2. CASE c = b
    BY <1>1, <1>2, <1>3, <1>4, <1>5, <2>2, UserCircleQueueAssumption DEF LinkedBucket
  <2>3. CASE c # b
    BY <1>1, <1>2, <1>3, <1>4, <2>1, <2>3, UserCircleQueueAssumption DEF LinkedBucket
  <2> QED
    BY <2>2, <2>3
<1>8. Linked(r, S \cup {o})
  BY <1>6, <1>7 DEF Linked
<1>9. Acyclic(r, S \cup {o})
  <2>1. PICK rank \in [Objects -> Int] :
          \A x \in S : q.next[x] # Null => rank[x] < rank[q.next[x]]
    BY DEF Acyclic
  <2> DEFINE top == IF last = Null THEN 0 ELSE rank[last] + 1
             rank1 == [rank EXCEPT ![o] = top]
  <2>2. top \in Int /\ rank1 \in [Objects -> Int]
    BY <1>5
  <2>3. \A x \in Objects : rank1[x] = IF x = o THEN top ELSE rank[x]
    OBVIOUS
  <2> HIDE DEF rank1
  <2>4. ASSUME NEW x \in S \cup {o}, r.next[x] # Null
        PROVE  rank1[x] < rank1[r.next[x]]
    <3>1. last # o /\ (last # Null => last \in S)
      BY <1>4, UserCircleQueueAssumption DEF LinkedBucket
    <3>2. CASE x = last
      <4>1. r.next[x] = o /\ x # o /\ last # Null /\ x \in Objects
        BY <1>1, <1>2, <3>1, <3>2, UserCircleQueueAssumption
      <4>2. rank1[x] = rank[x] /\ rank1[o] = rank[x] + 1 /\ rank[x] \in Int
        BY <2>3, <3>2, <4>1
      <4> QED
        BY <4>1, <4>2
    <3>3. CASE x # last
      <4>1. x # o /\ x \in S /\ r.next[x] = q.next[x] /\ q.next[x] # Null
        BY <1>1, <1>2, <2>4, <3>3
      <4>2. q.next[x] \in S
        BY <4>1 DEF Linked, LinkedUser
      <4>3. q.next[x] # o /\ rank[x] < rank[q.next[x]]
        BY <2>1, <4>1, <4>2
      <4> QED
        BY <2>3, <4>1, <4>2, <4>3
    <3> QED
      BY <3>2, <3>3
  <2> QED
    BY <2>2, <2>4 DEF Acyclic
<1>10. Sized(r, S \cup {o})
  <2>1. ASSUME NEW c \in Buckets
        PROVE  r.buffer[c].size = Cardinality(Listed(r, S \cup {o}, c))
    <3>1. q.buffer[c].size = Cardinality(Listed(q, S, c))
      BY DEF Sized
    <3>2. IsFiniteSet(Listed(q, S, c)) /\ o \notin Listed(q, S, c)
      <4>1. o \notin Listed(q, S, c)
        BY DEF Listed
      <4> QED
        BY <4>1, ListedFinite
    <3>3. CASE c = b
      <4>1. Listed(r, S \cup {o}, c) = Listed(q, S, c) \cup {o}
        BY <1>3, <3>3 DEF Listed
      <4>2. Cardinality(Listed(q, S, c) \cup {o}) = Cardinality(Listed(q, S, c)) + 1
        BY <3>2, FS_AddElement, Zenon
      <4> QED
        BY <1>1, <1>2, <3>1, <3>3, <4>1, <4>2, Zenon
    <3>4. CASE c # b
      <4>1. Listed(r, S \cup {o}, c) = Listed(q, S, c)
        BY <1>3, <3>4 DEF Listed
      <4> QED
        BY <1>1, <1>2, <3>1, <3>4, <4>1
    <3> QED
      BY <3>3, <3>4
  <2> QED
    BY <2>1 DEF Sized
<1> QED
  BY <1>1, <1>2, <1>8, <1>9, <1>10 DEF m, r, Pushed

\* PushUserBack links a user in, whether or not it was linked before.
LEMMA PushUserBackWheel ==
  ASSUME NEW q \in QueueType, NEW S \in SUBSET Objects, Wheel(q, S),
         NEW o \in Objects, o \in S \/ q.queue_index[o] = -1
  PROVE  /\ PushUserBack(q, o) \in QueueType
         /\ PushUserBack(q, o).head = q.head
         /\ Wheel(PushUserBack(q, o), S \cup {o})
         /\ \A x \in Objects : PushUserBack(q, o).queue_index[x] =
              IF x = o THEN (q.head - 1 + Size) % Size ELSE q.queue_index[x]
<1> DEFINE tail == (q.head - 1 + Size) % Size
           m == RemoveUser(q, o)
           T == S \ {o}
           r == Pushed(m, tail, o)
<1>1. tail \in Buckets
  BY UserCircleQueueAssumption DEF QueueType, Buckets
<1>2. PushUserBack(q, o) = r
  BY DEF PushUserBack, Pushed
<1>3. m \in QueueType /\ m.head = q.head /\ Wheel(m, T) /\ m.queue_index = q.queue_index
  <2>1. CASE o \in S
    BY <2>1, RemoveUserWheel
  <2>2. CASE o \notin S
    <3>1. m = q /\ T = S
      BY <2>2 DEF RemoveUser
    <3> QED
      BY <3>1
  <2> QED
    BY <2>1, <2>2
<1>4. T \in SUBSET Objects /\ o \notin T /\ T \cup {o} = S \cup {o}
  OBVIOUS
<1> HIDE DEF m, tail, T
<1>5. /\ r \in QueueType /\ r.head = m.head /\ Wheel(r, T \cup {o})
      /\ \A x \in Objects : r.queue_index[x] = IF x = o THEN tail ELSE m.queue_index[x]
  <2>1. r \in QueueType /\ r.head = m.head /\ Wheel(r, T \cup {o})
    BY <1>1, <1>3, <1>4, PushBackWheel
  <2>2. \A x \in Objects : r.queue_index[x] = IF x = o THEN tail ELSE m.queue_index[x]
    BY <1>1, <1>3, PushedIndex
  <2> QED
    BY <2>1, <2>2
<1> HIDE DEF r
<1>6. PushUserBack(q, o) \in QueueType /\ PushUserBack(q, o).head = q.head
      /\ Wheel(PushUserBack(q, o), S \cup {o})
  BY <1>2, <1>3, <1>4, <1>5
<1>7. \A x \in Objects : PushUserBack(q, o).queue_index[x] =
                          IF x = o THEN tail ELSE q.queue_index[x]
  BY <1>2, <1>3, <1>5
<1> QED
  BY <1>6, <1>7 DEF tail

\* What the iterator of OnTimer finds: the front bucket's list leads from user
\* to user of that bucket, and never back to the one it is on.
LEMMA IteratorOK ==
  ASSUME NEW q \in QueueType, NEW S \in SUBSET Objects, Wheel(q, S)
  PROVE  /\ q.buffer[q.head].head # Null =>
              /\ q.buffer[q.head].head \in S
              /\ q.queue_index[q.buffer[q.head].head] = q.head
         /\ \A o \in S : q.next[o] # Null =>
              /\ q.next[o] \in S \ {o}
              /\ q.queue_index[q.next[o]] = q.queue_index[o]
<1>1. q.head \in Buckets
  BY DEF QueueType
<1>2. LinkedBucket(q, S, q.head)
  BY <1>1 DEF Wheel, Linked
<1>3. ASSUME NEW o \in S, q.next[o] # Null
      PROVE  /\ q.next[o] \in S \ {o}
             /\ q.queue_index[q.next[o]] = q.queue_index[o]
  <2>1. LinkedUser(q, S, o)
    BY DEF Wheel, Linked
  <2>2. PICK rank \in [Objects -> Int] : rank[o] < rank[q.next[o]]
    BY <1>3 DEF Wheel, Acyclic
  <2>3. q.next[o] # o
    BY <2>2
  <2> QED
    BY <1>3, <2>1, <2>3 DEF LinkedUser
<1> QED
  BY <1>2, <1>3 DEF LinkedBucket

-----------------------------------------------------------------------------
(* Induction up to a number, with the set of the numbers that are right.   *)

LEMMA UpTo ==
  ASSUME NEW n \in Nat, NEW S, 0 \in S, \A k \in 0..(n - 1) : k \in S => k + 1 \in S
  PROVE  \A k \in 0..n : k \in S
<1> DEFINE Bad == {k \in Nat : k <= n /\ k \notin S}
<1> SUFFICES ASSUME Bad # {} PROVE FALSE
  OBVIOUS
<1>1. Bad \in SUBSET Nat
  OBVIOUS
<1>2. \E x \in Bad : \A y \in Bad : ~(<<y, x>> \in OpToRel(<, Nat))
  BY <1>1, NatLessThanWellFounded, WFMin, Zenon
<1>3. \A x, y \in Nat : y < x => <<y, x>> \in OpToRel(<, Nat)
  BY DEF OpToRel
<1>4. PICK x \in Bad : \A y \in Bad : ~(y < x)
  BY <1>2, <1>3, Zenon
<1>5. x \in Nat /\ x <= n /\ x \notin S /\ x # 0
  OBVIOUS
<1>6. x - 1 \in 0..(n - 1) /\ x - 1 < x /\ (x - 1) + 1 = x
  BY <1>5
<1>7. x - 1 \in Bad
  <2> HIDE DEF Bad
  <2>1. x - 1 \notin S
    BY <1>5, <1>6
  <2> QED
    BY <1>5, <1>6, <2>1 DEF Bad
<1> QED
  BY <1>4, <1>6, <1>7

-----------------------------------------------------------------------------
(* The lists of the wheel, followed link by link.                          *)

\* a[i] is where i links lead from p.
Walk(a, f, p, n) ==
  a = [i \in 0..n |-> IF i = 0 THEN p
                      ELSE IF a[i - 1] = Null THEN Null ELSE f[a[i - 1]]]

LEMMA WalkExists ==
  ASSUME NEW f, NEW p, NEW n \in Nat
  PROVE  \E a : Walk(a, f, p, n)
<1> DEFINE S == {k \in Nat : \E a : Walk(a, f, p, k)}
<1>1. 0 \in S
  <2> DEFINE a == [i \in 0..0 |-> p]
  <2>1. Walk(a, f, p, 0)
    BY DEF Walk
  <2> QED
    BY <2>1
<1>2. ASSUME NEW k \in 0..(n - 1), k \in S PROVE k + 1 \in S
  <2>1. PICK a : Walk(a, f, p, k)
    BY <1>2
  <2> DEFINE On(x) == IF x = Null THEN Null ELSE f[x]
             b == [i \in 0..(k + 1) |-> IF i = k + 1 THEN On(a[k]) ELSE a[i]]
  <2>2. \A i \in 0..k : a[i] = IF i = 0 THEN p ELSE On(a[i - 1])
    BY <2>1, Zenon DEF Walk
  <2> HIDE DEF On
  <2>3. ASSUME NEW i \in 0..(k + 1) PROVE b[i] = IF i = 0 THEN p ELSE On(b[i - 1])
    <3>1. CASE i = k + 1
      <4>1. b[i] = On(a[k]) /\ b[k] = a[k] /\ i - 1 = k /\ i # 0
        BY <3>1
      <4> QED
        BY <4>1
    <3>2. CASE i # k + 1 /\ i # 0
      <4>1. i \in 0..k /\ i - 1 \in 0..(k + 1) /\ i - 1 # k + 1
        BY <3>2
      <4>2. b[i] = a[i] /\ b[i - 1] = a[i - 1]
        BY <3>2, <4>1
      <4> QED
        BY <2>2, <3>2, <4>1, <4>2
    <3>3. CASE i = 0
      <4>1. i \in 0..k /\ i # k + 1
        BY <3>3
      <4> QED
        BY <2>2, <3>3, <4>1
    <3> QED
      BY <3>1, <3>2, <3>3
  <2>4. Walk(b, f, p, k + 1)
    <3>1. b = [i \in 0..(k + 1) |-> b[i]]
      OBVIOUS
    <3> HIDE DEF b
    <3> QED
      BY <2>3, <3>1, Zenon DEF Walk, On
  <2> QED
    BY <2>4
<1> HIDE DEF S
<1>3. n \in S
  BY <1>1, <1>2, UpTo
<1> QED
  BY <1>3 DEF S

LEMMA WalkIs ==
  ASSUME NEW f, NEW p, NEW a, NEW n \in Nat, Walk(a, f, p, n)
  PROVE  /\ a[0] = p
         /\ \A i \in 1..n : a[i] = IF a[i - 1] = Null THEN Null ELSE f[a[i - 1]]
<1>1. \A i \in 0..n : a[i] = IF i = 0 THEN p
                             ELSE IF a[i - 1] = Null THEN Null ELSE f[a[i - 1]]
  BY Zenon DEF Walk
<1>2. 0 \in 0..n /\ \A i \in 1..n : i \in 0..n /\ i # 0
  OBVIOUS
<1> QED
  BY <1>1, <1>2, Zenon

LEMMA FollowWalk ==
  ASSUME NEW f, NEW p, NEW n \in Nat
  PROVE  \E a : Walk(a, f, p, n) /\ Follow(f, p, n) = a[n]
<1> DEFINE a == CHOOSE b : Walk(b, f, p, n)
<1>1. Walk(a, f, p, n)
  <2>1. \E b : Walk(b, f, p, n)
    BY WalkExists
  <2> QED
    BY <2>1, Zenon
<1>2. Follow(f, p, n) = a[n]
  BY DEF Follow, Walk
<1> HIDE DEF a
<1> QED
  BY <1>1, <1>2

\* The links are followed one at a time.
LEMMA FollowIs ==
  ASSUME NEW f, NEW p, NEW n \in Nat
  PROVE  /\ Follow(f, p, 0) = p
         /\ Follow(f, p, n + 1) = IF Follow(f, p, n) = Null THEN Null
                                  ELSE f[Follow(f, p, n)]
<1>1. PICK a : Walk(a, f, p, n) /\ Follow(f, p, n) = a[n]
  BY FollowWalk
<1>2. PICK b : Walk(b, f, p, n + 1) /\ Follow(f, p, n + 1) = b[n + 1]
  BY FollowWalk
<1>3. PICK c : Walk(c, f, p, 0) /\ Follow(f, p, 0) = c[0]
  BY FollowWalk
<1>4. /\ a[0] = p
      /\ \A i \in 1..n : a[i] = IF a[i - 1] = Null THEN Null ELSE f[a[i - 1]]
  BY <1>1, WalkIs
<1>5. /\ b[0] = p
      /\ \A i \in 1..(n + 1) : b[i] = IF b[i - 1] = Null THEN Null ELSE f[b[i - 1]]
  BY <1>2, WalkIs
<1> DEFINE S == {k \in Nat : a[k] = b[k]}
<1>6. 0 \in S
  BY <1>4, <1>5
<1>7. ASSUME NEW k \in 0..(n - 1), k \in S PROVE k + 1 \in S
  <2>1. k + 1 \in 1..n /\ k + 1 \in 1..(n + 1) /\ (k + 1) - 1 = k
    OBVIOUS
  <2> QED
    BY <1>4, <1>5, <1>7, <2>1
<1> HIDE DEF S
<1>8. \A k \in 0..n : k \in S
  BY <1>6, <1>7, UpTo
<1>9. a[n] = b[n]
  BY <1>8 DEF S
<1>10. b[n + 1] = IF b[n] = Null THEN Null ELSE f[b[n]]
  <2>1. n + 1 \in 1..(n + 1) /\ (n + 1) - 1 = n
    OBVIOUS
  <2> QED
    BY <1>5, <2>1
<1>11. c[0] = p
  BY <1>3, WalkIs
<1> QED
  BY <1>1, <1>2, <1>3, <1>9, <1>10, <1>11

\* Of finitely many objects one has the least rank.
LEMMA LeastRank ==
  ASSUME NEW rank \in [Objects -> Int], NEW T \in SUBSET Objects,
         IsFiniteSet(T), T # {}
  PROVE  \E o \in T : \A x \in T : rank[o] <= rank[x]
<1> DEFINE HasLeast(U) == \E o \in U : \A x \in U : rank[o] <= rank[x]
           S == {k \in Nat : \A U \in SUBSET Objects :
                   IsFiniteSet(U) /\ Cardinality(U) = k + 1 => HasLeast(U)}
<1>1. 0 \in S
  <2>1. ASSUME NEW U \in SUBSET Objects, IsFiniteSet(U), Cardinality(U) = 0 + 1
        PROVE  HasLeast(U)
    <3>1. PICK x : U = {x}
      <4>1. Cardinality(U) = 1
        BY <2>1
      <4> QED
        BY <2>1, <4>1, FS_Singleton, Zenon
    <3>2. rank[x] \in Int
      BY <3>1
    <3> QED
      BY <3>1, <3>2
  <2> HIDE DEF HasLeast
  <2> QED
    BY <2>1
<1>2. ASSUME NEW k \in Nat, k \in S PROVE k + 1 \in S
  <2>1. ASSUME NEW U \in SUBSET Objects, IsFiniteSet(U), Cardinality(U) = (k + 1) + 1
        PROVE  HasLeast(U)
    <3>1. PICK y \in U : TRUE
      <4>1. U # {}
        BY <2>1, FS_EmptySet
      <4> QED
        BY <4>1
    <3> DEFINE V == U \ {y}
    <3>2. IsFiniteSet(V) /\ Cardinality(V) = k + 1 /\ V \in SUBSET Objects
      BY <2>1, <3>1, FS_RemoveElement
    <3>3. PICK o \in V : \A x \in V : rank[o] <= rank[x]
      <4> HIDE DEF V
      <4> QED
        BY <1>2, <3>2
    <3>4. rank[o] \in Int /\ rank[y] \in Int /\ \A x \in V : rank[x] \in Int
      OBVIOUS
    <3>5. CASE rank[o] <= rank[y]
      BY <3>3, <3>4, <3>5
    <3>6. CASE ~(rank[o] <= rank[y])
      <4>1. \A x \in V : rank[y] <= rank[x]
        BY <3>3, <3>4, <3>6
      <4>2. \A x \in U : rank[y] <= rank[x]
        BY <3>4, <4>1
      <4> QED
        BY <4>2
    <3> QED
      BY <3>5, <3>6
  <2> HIDE DEF HasLeast
  <2> QED
    BY <2>1
<1>3. Cardinality(T) \in Nat /\ Cardinality(T) # 0
  BY FS_CardinalityType, FS_EmptySet
<1> DEFINE n == Cardinality(T) - 1
<1>4. n \in Nat /\ Cardinality(T) = n + 1
  BY <1>3
<1> HIDE DEF S, n
<1>5. n \in S
  <2>1. \A k \in 0..(n - 1) : k \in S => k + 1 \in S
    BY <1>2
  <2>2. \A k \in 0..n : k \in S
    BY <1>1, <1>4, <2>1, UpTo
  <2> QED
    BY <1>4, <2>2
<1> QED
  BY <1>4, <1>5 DEF S

Rising(rank, f, B, a) ==
  /\ B \in SUBSET Objects /\ rank \in [Objects -> Int]
  /\ a \in [Nat -> B \cup {Null}]
  /\ \A i \in Nat : a[i + 1] = IF a[i] = Null THEN Null ELSE f[a[i]]
  /\ \A o \in B : f[o] # Null => rank[o] < rank[f[o]]

Met(a, n) == {a[i] : i \in 0..n}

\* While the links go on they have led to as many objects as there were steps.
LEMMA AllDistinct ==
  ASSUME NEW rank, NEW f, NEW B, NEW a, Rising(rank, f, B, a),
         NEW n \in Nat, a[n] # Null
  PROVE  /\ \A i \in 0..n : a[i] # Null
         /\ IsFiniteSet(Met(a, n)) /\ Cardinality(Met(a, n)) = n + 1
<1> USE DEF Rising
<1> DEFINE At(k) == {a[i] : i \in 0..k}
           S == {k \in Nat : a[k] # Null =>
                   /\ \A i \in 0..k : a[i] # Null
                   /\ IsFiniteSet(At(k)) /\ Cardinality(At(k)) = k + 1
                   /\ \A x \in At(k) : rank[x] <= rank[a[k]]}
<1>1. 0 \in S
  <2>1. At(0) = {a[0]}
    OBVIOUS
  <2>2. IsFiniteSet({a[0]}) /\ Cardinality({a[0]}) = 1
    BY FS_Singleton, Zenon
  <2>3. ASSUME a[0] # Null PROVE rank[a[0]] \in Int
    BY <2>3
  <2>4. \A i \in 0..0 : i = 0
    OBVIOUS
  <2> HIDE DEF At, Rising
  <2>5. a[0] # Null => \A x \in At(0) : rank[x] <= rank[a[0]]
    BY <2>1, <2>3
  <2>6. a[0] # Null => \A i \in 0..0 : a[i] # Null
    BY <2>4
  <2>7. Cardinality(At(0)) = 0 + 1 /\ IsFiniteSet(At(0))
    BY <2>1, <2>2
  <2> QED
    BY <2>5, <2>6, <2>7
<1>2. ASSUME NEW k \in 0..(n - 1), k \in S PROVE k + 1 \in S
  <2> SUFFICES ASSUME a[k + 1] # Null
               PROVE  /\ \A i \in 0..(k + 1) : a[i] # Null
                      /\ IsFiniteSet(At(k + 1)) /\ Cardinality(At(k + 1)) = (k + 1) + 1
                      /\ \A x \in At(k + 1) : rank[x] <= rank[a[k + 1]]
    <3>1. k + 1 \in Nat
      OBVIOUS
    <3> HIDE DEF At
    <3> QED
      BY <3>1
  <2>1. k \in Nat /\ k + 1 \in Nat
    OBVIOUS
  <2>2. a[k] # Null /\ a[k + 1] = f[a[k]]
    BY <2>1
  <2>3. a[k] \in B /\ a[k + 1] \in B
    BY <2>1, <2>2
  <2>4. rank[a[k]] < rank[a[k + 1]]
    BY <2>2, <2>3
  <2>5. /\ \A i \in 0..k : a[i] # Null
        /\ IsFiniteSet(At(k)) /\ Cardinality(At(k)) = k + 1
        /\ \A x \in At(k) : rank[x] <= rank[a[k]]
    <3> HIDE DEF At
    <3> QED
      BY <1>2, <2>2
  <2>6. At(k + 1) = At(k) \cup {a[k + 1]}
    <3>1. 0..(k + 1) = 0..k \cup {k + 1}
      BY <2>1
    <3> QED
      BY <3>1
  <2>7. \A x \in At(k) : x \in B
    <3>1. \A i \in 0..k : a[i] \in B
      BY <2>1, <2>5
    <3> QED
      BY <3>1
  <2>8. \A i \in 0..(k + 1) : i \in 0..k \/ i = k + 1
    BY <2>1
  <2> HIDE DEF At
  <2>9. \A x \in At(k) : rank[x] < rank[a[k + 1]] /\ rank[x] \in Int
    <3>1. rank[a[k]] \in Int /\ rank[a[k + 1]] \in Int /\ \A x \in At(k) : rank[x] \in Int
      BY <2>3, <2>7
    <3> QED
      BY <2>4, <2>5, <3>1
  <2>10. rank[a[k + 1]] \in Int
    BY <2>3
  <2>11. a[k + 1] \notin At(k)
    BY <2>9, <2>10
  <2>12. IsFiniteSet(At(k + 1)) /\ Cardinality(At(k + 1)) = (k + 1) + 1
    <3>1. IsFiniteSet(At(k) \cup {a[k + 1]})
          /\ Cardinality(At(k) \cup {a[k + 1]}) = Cardinality(At(k)) + 1
      BY <2>5, <2>11, FS_AddElement, Zenon
    <3> QED
      BY <2>5, <2>6, <3>1, Zenon
  <2>13. \A x \in At(k + 1) : rank[x] <= rank[a[k + 1]]
    BY <2>6, <2>9, <2>10
  <2> QED
    BY <2>5, <2>8, <2>12, <2>13
<1> HIDE DEF S, At
<1>3. \A k \in 0..n : k \in S
  BY <1>1, <1>2, UpTo, Zenon
<1>4. n \in S
  BY <1>3
<1>5. \A i \in 0..n : a[i] # Null
  BY <1>4 DEF S
<1>6. IsFiniteSet(At(n)) /\ Cardinality(At(n)) = n + 1
  BY <1>4 DEF S
<1> QED
  BY <1>5, <1>6 DEF At, Met

\* The links stay in B and lead upwards.
Climbs(rank, f, B) ==
  /\ B \in SUBSET Objects /\ rank \in [Objects -> Int]
  /\ \A o \in B : f[o] # Null => f[o] \in B /\ rank[o] < rank[f[o]]

\* The objects of B that are not in K are met on the way from p, if each of them
\* is the one at p or linked from another.
LEMMA ChainReaches ==
  ASSUME NEW rank, NEW f, NEW B, Climbs(rank, f, B),
         NEW p \in B \cup {Null}, NEW K \in SUBSET B,
         \A o \in B \ K : o = p \/ \E x \in B \ K : f[x] = o
  PROVE  /\ \A i \in Nat : Follow(f, p, i) \in B \cup {Null}
         /\ Follow(f, p, Cardinality(Objects)) = Null
         /\ Chain(f, p) \subseteq B
         /\ B \ K \subseteq Chain(f, p)
<1> USE UserCircleQueueAssumption DEF Climbs
<1> DEFINE N == Cardinality(Objects)
           a == [i \in Nat |-> Follow(f, p, i)]
<1>1. N \in Nat
  BY FS_CardinalityType
<1>2. /\ a[0] = p
      /\ \A i \in Nat : a[i + 1] = IF a[i] = Null THEN Null ELSE f[a[i]]
  <2>1. ASSUME NEW i \in Nat
        PROVE  a[0] = p /\ a[i + 1] = IF a[i] = Null THEN Null ELSE f[a[i]]
    <3>1. a[0] = Follow(f, p, 0) /\ a[i] = Follow(f, p, i) /\ a[i + 1] = Follow(f, p, i + 1)
      <4>1. 0 \in Nat /\ i + 1 \in Nat
        OBVIOUS
      <4> QED
        BY <4>1, Zenon
    <3> QED
      BY <3>1, FollowIs
  <2> QED
    BY <2>1, Zenon
<1>3. Chain(f, p) = {a[i] : i \in 0..N} \ {Null}
  BY <1>1 DEF Chain
<1>4. a = [i \in Nat |-> a[i]] /\ \A i \in Nat : a[i] = Follow(f, p, i)
  OBVIOUS
<1> HIDE DEF a, N
<1>5. ASSUME NEW i \in Nat PROVE a[i] \in B \cup {Null}
  <2> DEFINE S == {k \in Nat : a[k] \in B \cup {Null}}
  <2>1. 0 \in S
    BY <1>2
  <2>2. ASSUME NEW k \in 0..(i - 1), k \in S PROVE k + 1 \in S
    <3>1. k \in Nat /\ k + 1 \in Nat /\ a[k] \in B \cup {Null}
      BY <2>2
    <3>2. a[k + 1] = IF a[k] = Null THEN Null ELSE f[a[k]]
      BY <1>2, <3>1
    <3> QED
      BY <3>1, <3>2
  <2> HIDE DEF S
  <2>3. \A k \in 0..i : k \in S
    BY <2>1, <2>2, UpTo
  <2> QED
    BY <2>3 DEF S
<1>6. a \in [Nat -> B \cup {Null}]
  BY <1>4, <1>5
<1>7. a[N] = Null
  <2> SUFFICES ASSUME a[N] # Null PROVE FALSE
    OBVIOUS
  <2> DEFINE T == Met(a, N)
  <2>1. (\A i \in 0..N : a[i] # Null) /\ IsFiniteSet(T) /\ Cardinality(T) = N + 1
    <3>1. Rising(rank, f, B, a)
      BY <1>2, <1>6 DEF Rising
    <3> QED
      BY <1>1, <3>1, AllDistinct
  <2>2. T \in SUBSET Objects
    BY <1>5, <2>1 DEF Met
  <2> HIDE DEF T
  <2>3. Cardinality(T) <= N
    BY <2>2, FS_Subset DEF N
  <2> QED
    BY <1>1, <2>1, <2>3
<1>8. Chain(f, p) \subseteq B
  BY <1>3, <1>5
<1>9. ASSUME NEW o \in B \ K, o \notin Chain(f, p) PROVE FALSE
  <2> DEFINE Missed == {x \in B \ K : x \notin Chain(f, p)}
  <2>1. Missed \in SUBSET Objects /\ Missed # {}
    BY <1>9
  <2>2. IsFiniteSet(Missed)
    BY <2>1, FS_Subset, Zenon
  <2>3. PICK m \in Missed : \A x \in Missed : rank[m] <= rank[x]
    <3> HIDE DEF Missed
    <3> QED
      BY <2>1, <2>2, LeastRank
  <2>4. m \in B \ K /\ m \notin Chain(f, p) /\ m # Null /\ m \in Objects
    OBVIOUS
  <2>5. 0 \in 0..N /\ m # a[0]
    BY <1>1, <1>3, <2>4
  <2>6. PICK x \in B \ K : f[x] = m
    BY <1>2, <2>4, <2>5
  <2>7. rank[x] < rank[m] /\ rank[x] \in Int /\ rank[m] \in Int
    BY <2>4, <2>6
  <2>8. x \in Chain(f, p)
    <3>1. x \notin Missed
      BY <2>3, <2>7
    <3> QED
      BY <3>1
  <2>9. PICK i \in 0..N : a[i] = x
    BY <1>3, <2>8
  <2>10. x # Null /\ i # N /\ i \in Nat /\ i + 1 \in 0..N
    BY <1>1, <1>7, <2>9
  <2>11. a[i + 1] = m
    BY <1>2, <2>6, <2>9, <2>10
  <2> QED
    BY <1>3, <2>4, <2>10, <2>11
<1> QED
  <2>1. \A i \in Nat : Follow(f, p, i) \in B \cup {Null}
    BY <1>4, <1>5
  <2>2. Follow(f, p, Cardinality(Objects)) = Null
    BY <1>1, <1>4, <1>7 DEF N
  <2>3. B \ K \subseteq Chain(f, p)
    BY <1>9
  <2> QED
    BY <1>8, <2>1, <2>2, <2>3

Row(rank, f, B, h, t) ==
  /\ Climbs(rank, f, B)
  /\ h \in B \cup {Null}
  /\ \A o \in B : o = h \/ \E x \in B : f[x] = o
  /\ \A o \in B : f[o] = Null => o = t

\* A list is its objects in a row, from its first to its last.
LEMMA ChainIs ==
  ASSUME NEW rank, NEW f, NEW B, NEW h, NEW t, Row(rank, f, B, h, t)
  PROVE  /\ Chain(f, h) = B
         /\ Cardinality(B) > 0 => Follow(f, h, Cardinality(B) - 1) = t
<1> USE UserCircleQueueAssumption DEF Climbs, Row
<1> DEFINE N == Cardinality(Objects)
           n == Cardinality(B)
           a == [i \in Nat |-> Follow(f, h, i)]
<1>1. /\ \A i \in Nat : Follow(f, h, i) \in B \cup {Null}
      /\ Chain(f, h) = B
  <2>1. {} \in SUBSET B /\ B \ {} = B
    OBVIOUS
  <2>2. /\ \A i \in Nat : Follow(f, h, i) \in B \cup {Null}
        /\ Chain(f, h) \subseteq B /\ B \ {} \subseteq Chain(f, h)
    <3>1. \A o \in B \ {} : o = h \/ \E x \in B \ {} : f[x] = o
      OBVIOUS
    <3> HIDE DEF Climbs
    <3> QED
      BY <2>1, <3>1, ChainReaches, Zenon
  <2> QED
    BY <2>1, <2>2
<1>2. N \in Nat /\ IsFiniteSet(B) /\ n \in Nat
  BY FS_CardinalityType, FS_Subset
<1>3. /\ a \in [Nat -> B \cup {Null}]
      /\ \A i \in Nat : a[i] = Follow(f, h, i)
  BY <1>1
<1>4. Chain(f, h) = {a[i] : i \in 0..N} \ {Null}
  BY <1>2 DEF Chain
<1> HIDE DEF a, N, n
<1>5. ASSUME NEW i \in Nat PROVE a[i + 1] = IF a[i] = Null THEN Null ELSE f[a[i]]
  <2>1. a[i] = Follow(f, h, i) /\ a[i + 1] = Follow(f, h, i + 1)
    BY <1>3
  <2> QED
    BY <2>1, FollowIs
<1>6. a[n] = Null
  <2> SUFFICES ASSUME a[n] # Null PROVE FALSE
    OBVIOUS
  <2> DEFINE T == Met(a, n)
  <2>1. (\A i \in 0..n : a[i] # Null) /\ IsFiniteSet(T) /\ Cardinality(T) = n + 1
    <3>1. Rising(rank, f, B, a)
      BY <1>3, <1>5 DEF Rising
    <3> QED
      BY <1>2, <3>1, AllDistinct
  <2>2. T \in SUBSET B
    BY <1>3, <2>1 DEF Met
  <2> HIDE DEF T
  <2>3. Cardinality(T) <= n
    BY <1>2, <2>2, FS_Subset DEF n
  <2> QED
    BY <1>2, <2>1, <2>3
<1>7. ASSUME n > 0 PROVE Follow(f, h, n - 1) = t
  <2> DEFINE m == n - 1
  <2>1. m \in Nat /\ m + 1 = n
    BY <1>2, <1>7
  <2> HIDE DEF m
  <2>2. a[m] # Null
    <3> SUFFICES ASSUME a[m] = Null PROVE FALSE
      OBVIOUS
    <3> DEFINE S == {k \in Nat : a[m + k] = Null}
    <3>1. 0 \in S
      BY <2>1
    <3>2. ASSUME NEW k \in 0..(N - 1), k \in S PROVE k + 1 \in S
      <4>1. m + k \in Nat /\ (m + k) + 1 = m + (k + 1) /\ k + 1 \in Nat
        BY <2>1
      <4>2. a[m + k] = Null
        BY <3>2
      <4>3. a[(m + k) + 1] = Null
        BY <1>5, <4>1, <4>2
      <4> QED
        BY <4>1, <4>3
    <3> HIDE DEF S
    <3>3. \A k \in 0..N : k \in S
      BY <1>2, <3>1, <3>2, UpTo
    <3> DEFINE I == 0..(m - 1)
               T == {a[i] : i \in I}
    <3>5. ASSUME NEW i \in 0..N, a[i] # Null PROVE i \in I
      <4>1. i \in Nat /\ (i >= m => i - m \in 0..N)
        BY <1>2, <2>1
      <4>2. i >= m => a[m + (i - m)] = Null
        BY <3>3, <4>1 DEF S
      <4>3. m + (i - m) = i
        BY <2>1, <4>1
      <4> QED
        BY <2>1, <3>5, <4>1, <4>2, <4>3
    <3>6. B \subseteq T
      <4>1. B = {a[i] : i \in 0..N} \ {Null}
        BY <1>1, <1>4
      <4> HIDE DEF I
      <4> QED
        BY <3>5, <4>1
    <3>7. IsFiniteSet(I) /\ Cardinality(I) = m
      <4>1. 0 \in Int /\ m - 1 \in Int
        BY <2>1
      <4>2. IsFiniteSet(I) /\ Cardinality(I) = IF 0 > m - 1 THEN 0 ELSE (m - 1) - 0 + 1
        BY <4>1, FS_Interval
      <4> QED
        BY <2>1, <4>2
    <3> DEFINE g == [i \in I |-> a[i]]
    <3>8. g \in Surjection(I, T)
      BY DEF Surjection
    <3>9. IsFiniteSet(T) /\ Cardinality(T) <= Cardinality(I)
      <4> HIDE DEF I, T, g
      <4> QED
        BY <3>7, <3>8, FS_Surjection
    <3> HIDE DEF T, I
    <3>10. n <= Cardinality(T) /\ Cardinality(T) \in Nat
      BY <3>6, <3>9, FS_Subset, FS_CardinalityType DEF n
    <3> QED
      BY <1>2, <2>1, <3>7, <3>9, <3>10
  <2>3. a[m] \in B /\ f[a[m]] = Null
    BY <1>3, <1>5, <1>6, <2>1, <2>2
  <2>4. a[m] = t
    BY <2>3
  <2>5. Follow(f, h, m) = t
    BY <1>3, <2>1, <2>4
  <2> QED
    BY <2>5 DEF m
<1> QED
  BY <1>1, <1>7 DEF n

-----------------------------------------------------------------------------
(* The buckets of a wheel with consistent links.                           *)

LEMMA NextInBucket ==
  ASSUME NEW q \in QueueType, NEW S \in SUBSET Objects, Wheel(q, S),
         NEW b \in Buckets, NEW B, B = Listed(q, S, b), NEW o \in B
  PROVE  /\ o \in Objects
         /\ IF q.next[o] = Null THEN q.buffer[b].tail = o
            ELSE q.next[o] \in B /\ q.prev[q.next[o]] = o
         /\ IF q.prev[o] = Null THEN q.buffer[b].head = o
            ELSE q.prev[o] \in B /\ q.next[q.prev[o]] = o
<1>1. o \in S /\ q.queue_index[o] = b
  BY DEF Listed
<1>2. LinkedUser(q, S, o)
  BY <1>1 DEF Wheel, Linked
<1> QED
  BY <1>1, <1>2 DEF LinkedUser, Listed

\* Every bucket is a list of its users, both ways.
LEMMA WheelLists ==
  ASSUME NEW q \in QueueType, NEW S \in SUBSET Objects, Wheel(q, S),
         NEW b \in Buckets, NEW B, B = Listed(q, S, b)
  PROVE  /\ q.buffer[b].size = Cardinality(B)
         /\ Chain(q.next, q.buffer[b].head) = B
         /\ Chain(q.prev, q.buffer[b].tail) = B
         /\ Cardinality(B) > 0 =>
              /\ Follow(q.next, q.buffer[b].head, Cardinality(B) - 1) = q.buffer[b].tail
              /\ Follow(q.prev, q.buffer[b].tail, Cardinality(B) - 1) = q.buffer[b].head
<1> DEFINE h == q.buffer[b].head
           t == q.buffer[b].tail
           f == q.next
           g == q.prev
<1>1. B \in SUBSET Objects /\ B \subseteq S
  BY DEF Listed
<1>2. h \in B \cup {Null} /\ t \in B \cup {Null}
  BY DEF Wheel, Linked, LinkedBucket, Listed
<1>3. PICK rank \in [Objects -> Int] : \A o \in S : f[o] # Null => rank[o] < rank[f[o]]
  BY DEF Wheel, Acyclic
<1>4. ASSUME NEW o \in B
      PROVE  /\ IF f[o] = Null THEN t = o ELSE f[o] \in B /\ g[f[o]] = o
             /\ IF g[o] = Null THEN h = o ELSE g[o] \in B /\ f[g[o]] = o
  BY NextInBucket
<1>5. q.buffer[b].size = Cardinality(B)
  BY DEF Wheel, Sized
<1> HIDE DEF h, t, f, g
<1>6. Chain(f, h) = B /\ (Cardinality(B) > 0 => Follow(f, h, Cardinality(B) - 1) = t)
  <2>1. Climbs(rank, f, B)
    BY <1>1, <1>3, <1>4 DEF Climbs
  <2>2. \A o \in B : o = h \/ \E x \in B : f[x] = o
    BY <1>4
  <2>3. \A o \in B : f[o] = Null => o = t
    BY <1>4
  <2> QED
    <3>1. Row(rank, f, B, h, t)
      BY <1>2, <2>1, <2>2, <2>3 DEF Row
    <3> QED
      BY <3>1, ChainIs
<1>7. Chain(g, t) = B /\ (Cardinality(B) > 0 => Follow(g, t, Cardinality(B) - 1) = h)
  <2> DEFINE down == [o \in Objects |-> 0 - rank[o]]
  <2>1. down \in [Objects -> Int] /\ \A o \in Objects : down[o] = 0 - rank[o]
    OBVIOUS
  <2> HIDE DEF down
  <2>2. Climbs(down, g, B)
    <3>1. ASSUME NEW o \in B, g[o] # Null PROVE g[o] \in B /\ down[o] < down[g[o]]
      <4>1. g[o] \in B /\ f[g[o]] = o /\ o # Null /\ g[o] \in S
            /\ o \in Objects /\ g[o] \in Objects
        BY <1>1, <1>4, <3>1, UserCircleQueueAssumption
      <4>2. rank[g[o]] < rank[o]
        BY <1>3, <4>1
      <4>3. rank[g[o]] \in Int /\ rank[o] \in Int
        BY <4>1
      <4>4. down[g[o]] = 0 - rank[g[o]] /\ down[o] = 0 - rank[o]
        BY <2>1, <4>1
      <4> QED
        BY <4>1, <4>2, <4>3, <4>4
    <3> QED
      BY <1>1, <2>1, <3>1 DEF Climbs
  <2>3. \A o \in B : o = t \/ \E x \in B : g[x] = o
    BY <1>4
  <2>4. \A o \in B : g[o] = Null => o = h
    BY <1>4
  <2> QED
    <3>1. Row(down, g, B, t, h)
      BY <1>2, <2>2, <2>3, <2>4 DEF Row
    <3> QED
      BY <3>1, ChainIs
<1> QED
  BY <1>5, <1>6, <1>7 DEF h, t, f, g

\* An iterator at p that has left the users K of a bucket behind it still meets
\* the others.
LEMMA WheelReaches ==
  ASSUME NEW q \in QueueType, NEW S \in SUBSET Objects, Wheel(q, S),
         NEW b \in Buckets, NEW B, B = Listed(q, S, b),
         NEW p \in B \cup {Null}, NEW K \in SUBSET B,
         q.buffer[b].head \in K \cup {p},
         \A x \in K : q.next[x] \in K \cup {p}
  PROVE  B \ K \subseteq Chain(q.next, p)
<1> DEFINE f == q.next
<1>1. B \in SUBSET Objects /\ B \subseteq S
  BY DEF Listed
<1>2. PICK rank \in [Objects -> Int] : \A o \in S : f[o] # Null => rank[o] < rank[f[o]]
  BY DEF Wheel, Acyclic
<1>3. Climbs(rank, f, B)
  BY <1>1, <1>2, NextInBucket DEF Climbs
<1>4. ASSUME NEW o \in B \ K PROVE o = p \/ \E x \in B \ K : f[x] = o
  <2>1. IF q.prev[o] = Null THEN q.buffer[b].head = o
        ELSE q.prev[o] \in B /\ q.next[q.prev[o]] = o
    BY NextInBucket
  <2> QED
    BY <2>1
<1> HIDE DEF f
<1>5. B \ K \subseteq Chain(f, p)
  BY <1>3, <1>4, ChainReaches
<1> QED
  BY <1>5 DEF f

LEMMA ChainOfNull ==
  ASSUME NEW f, NEW x
  PROVE  x \notin Chain(f, Null)
<1>1. ASSUME NEW n \in Nat PROVE Follow(f, Null, n) = Null
  <2> DEFINE S == {k \in Nat : Follow(f, Null, k) = Null}
  <2>1. 0 \in S
    BY FollowIs
  <2>2. ASSUME NEW k \in 0..(n - 1), k \in S PROVE k + 1 \in S
    BY <2>2, FollowIs
  <2> HIDE DEF S
  <2>3. \A k \in 0..n : k \in S
    BY <2>1, <2>2, UpTo
  <2> QED
    BY <2>3 DEF S
<1>2. Cardinality(Objects) \in Nat
  BY UserCircleQueueAssumption, FS_CardinalityType
<1>3. \A n \in 0..Cardinality(Objects) : n \in Nat
  BY <1>2
<1> QED
  BY <1>1, <1>3 DEF Chain

\* It does so after the user it was on has been taken out and destroyed.
LEMMA LeaveBehind ==
  ASSUME NEW q \in QueueType, NEW S \in SUBSET Objects, Wheel(q, S),
         NEW b \in Buckets, NEW B, B = Listed(q, S, b),
         NEW p \in B, NEW K \in SUBSET B, p \notin K,
         q.buffer[b].head \in K \cup {p},
         \A x \in K : q.next[x] \in K \cup {p},
         NEW r, r = ResetUser(RemoveUser(q, p), p)
  PROVE  /\ r.buffer[b].head \in K \cup {q.next[p]}
         /\ \A x \in K : r.next[x] \in K \cup {q.next[p]}
<1> DEFINE m == DListRemove(q, b, p)
<1>1. p \in Objects /\ q.queue_index[p] = b /\ K \in SUBSET Objects /\ p \in S
  BY DEF Listed
<1>2. RemoveUser(q, p) = m
  BY <1>1, UserCircleQueueAssumption DEF RemoveUser, Buckets
<1>3. /\ m \in QueueType
      /\ \A x \in Objects :
           m.next[x] = IF x = q.prev[p] THEN q.next[p] ELSE q.next[x]
      /\ m.buffer[b].head = IF q.buffer[b].head = p THEN q.next[p]
                            ELSE q.buffer[b].head
  BY <1>1, DListRemoveIs
<1> HIDE DEF m
<1>4. r.buffer = m.buffer /\ \A x \in Objects \ {p} : r.next[x] = m.next[x]
  BY <1>1, <1>2, <1>3, ResetUserIs
<1>5. r.buffer[b].head \in K \cup {q.next[p]}
  BY <1>3, <1>4
<1>6. ASSUME NEW x \in K PROVE r.next[x] \in K \cup {q.next[p]}
  <2>1. x \in B /\ x # p /\ x \in Objects /\ r.next[x] = m.next[x]
    BY <1>1, <1>4
  <2>2. q.next[x] = p => q.prev[p] = x
    BY <1>1, <2>1, NextInBucket, UserCircleQueueAssumption
  <2> QED
    BY <1>3, <2>1, <2>2
<1> QED
  BY <1>5, <1>6

-----------------------------------------------------------------------------
(* The ticks until bucket i is in front, when bucket h is.                 *)

TicksTo(i, h) == ((i - h + Size) % Size) + 1

LEMMA Modulo ==
  ASSUME NEW x \in Int
  PROVE  /\ 0 <= x /\ x < Size => x % Size = x
         /\ Size <= x /\ x < Size + Size => x % Size = x - Size
<1>1. Size \in Nat /\ Size > 0
  BY UserCircleQueueAssumption
<1> QED
  BY <1>1

LEMMA TicksToRange ==
  ASSUME NEW i \in Buckets, NEW h \in Buckets
  PROVE  /\ TicksTo(i, h) = IF i >= h THEN i - h + 1 ELSE i - h + Size + 1
         /\ TicksTo(i, h) \in 1..Size
         /\ TicksTo(i, h) = 1 <=> i = h
<1>1. Size \in Nat /\ Size > 0 /\ i \in Int /\ h \in Int /\ 0 <= i /\ i < Size /\ 0 <= h /\ h < Size
  BY UserCircleQueueAssumption DEF Buckets
<1> DEFINE x == i - h + Size
<1>2. /\ 0 <= x /\ x < Size => x % Size = x
      /\ Size <= x /\ x < Size + Size => x % Size = x - Size
  <2>1. x \in Int
    BY <1>1
  <2> HIDE DEF x
  <2> QED
    BY <2>1, Modulo
<1>3. x % Size = IF i >= h THEN i - h ELSE i - h + Size
  BY <1>1, <1>2
<1> DEFINE y == x % Size
<1>4. TicksTo(i, h) = y + 1
  BY DEF TicksTo
<1> HIDE DEF x, y
<1>5. y = IF i >= h THEN i - h ELSE i - h + Size
  BY <1>3 DEF y
<1> QED
  BY <1>1, <1>4, <1>5

\* The bucket a user is put into is reached last.
LEMMA TicksToTail ==
  ASSUME NEW h \in Buckets
  PROVE  TicksTo((h - 1 + Size) % Size, h) = Size
<1> DEFINE x == h - 1 + Size
           i == x % Size
<1>1. Size \in Nat /\ Size > 0 /\ h \in Int /\ 0 <= h /\ h < Size
  BY UserCircleQueueAssumption DEF Buckets
<1>2. i = IF h = 0 THEN Size - 1 ELSE h - 1
  <2>1. x \in Int /\ (h = 0 => 0 <= x /\ x < Size) /\ (h # 0 => Size <= x /\ x < Size + Size)
        /\ (h = 0 => x = Size - 1) /\ (h # 0 => x - Size = h - 1)
    BY <1>1
  <2> HIDE DEF x
  <2> QED
    BY <2>1, Modulo
<1> HIDE DEF i, x
<1>3. i \in Buckets
  BY <1>1, <1>2 DEF Buckets
<1>4. TicksTo(i, h) = Size
  BY <1>1, <1>2, <1>3, TicksToRange
<1> QED
  BY <1>4 DEF i, x

\* A turn of the wheel brings every bucket one tick nearer, and the front one to
\* the end.
LEMMA TicksToNext ==
  ASSUME NEW i \in Buckets, NEW h \in Buckets
  PROVE  /\ (h + 1) % Size \in Buckets
         /\ TicksTo(i, (h + 1) % Size) = IF TicksTo(i, h) = 1 THEN Size ELSE TicksTo(i, h) - 1
<1> DEFINE x == h + 1
           n == x % Size
<1>1. Size \in Nat /\ Size > 0 /\ i \in Int /\ h \in Int /\ 0 <= i /\ i < Size /\ 0 <= h /\ h < Size
  BY UserCircleQueueAssumption DEF Buckets
<1>2. n = IF h = Size - 1 THEN 0 ELSE h + 1
  <2>1. x \in Int /\ (h # Size - 1 => 0 <= x /\ x < Size) /\ (h = Size - 1 => Size <= x /\ x < Size + Size)
        /\ x = h + 1
    BY <1>1
  <2> HIDE DEF x
  <2> QED
    BY <1>1, <2>1, Modulo
<1> HIDE DEF n, x
<1>3. n \in Buckets
  BY <1>1, <1>2 DEF Buckets
<1>4. /\ TicksTo(i, h) = IF i >= h THEN i - h + 1 ELSE i - h + Size + 1
      /\ TicksTo(i, n) = IF i >= n THEN i - n + 1 ELSE i - n + Size + 1
  BY <1>3, TicksToRange
<1>5. TicksTo(i, n) = IF TicksTo(i, h) = 1 THEN Size ELSE TicksTo(i, h) - 1
  BY <1>1, <1>2, <1>4
<1> QED
  BY <1>3, <1>5 DEF n, x
=============================================================================
